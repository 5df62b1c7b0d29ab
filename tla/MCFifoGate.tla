----------------------------- MODULE MCFifoGate -----------------------------
EXTENDS FifoGate
=============================================================================
