---- MODULE MCFifoShell ----
EXTENDS FifoShell
MCCap == [p \in Phase |-> 2]
=============================================================================
