------------------------- MODULE MCProviderRegistry -------------------------
EXTENDS ProviderRegistry
\* The environment and the first provider serve one model, the second another
TwoGroups == [d \in Deployments |-> IF d = "q" THEN "m2" ELSE "m1"]
=============================================================================
