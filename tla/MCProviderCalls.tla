--------------------------- MODULE MCProviderCalls ---------------------------
EXTENDS ProviderCalls
=============================================================================
