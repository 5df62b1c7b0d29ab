--------------------------- MODULE MCAgentRuntime ---------------------------
EXTENDS AgentRuntime
CONSTANTS alice
SameOwner == [p \in Projects |-> alice]
=============================================================================
