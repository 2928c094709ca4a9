---------------------------- MODULE MCDispatcher ----------------------------
EXTENDS Dispatcher
CONSTANTS t1, t2, e1
MCSize == [g \in TrainGroups \cup EvalGroups |-> 2]
=============================================================================
