-------------------------- MODULE MCAgentWorkflow --------------------------
EXTENDS ContractedWorkflow
=============================================================================
