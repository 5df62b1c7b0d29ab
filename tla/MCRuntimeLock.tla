---------------------------- MODULE MCRuntimeLock ----------------------------
EXTENDS RuntimeLock
=============================================================================
