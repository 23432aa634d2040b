-------------------------- MODULE MCLifecycleOutbox --------------------------
\* LifecycleOutbox with the records the gateway writes, for TLC.
EXTENDS LifecycleOutbox, TLC

\* prepare: the second event's parent is the first.
PrepareRecord ==
  [ events |-> <<"SideEffectPrepared", "ToolCallPrepared">>,
    parent |-> [SideEffectPrepared |-> "earlier", ToolCallPrepared |-> "SideEffectPrepared"],
    tagged |-> TRUE, terminal |-> FALSE, orders |-> 0 ]

\* compensate out of recovery: the parent ToolCallExecuted may come late.
CompensateRecord ==
  [ events |-> <<"SideEffectCompensated">>,
    parent |-> [SideEffectCompensated |-> "late"],
    tagged |-> FALSE, terminal |-> TRUE, orders |-> 1 ]

\* compensate that ended Failed: ErrorRaised has no parent.
ErrorRecord ==
  [ events |-> <<"ErrorRaised">>, parent |-> [ErrorRaised |-> "none"],
    tagged |-> FALSE, terminal |-> TRUE, orders |-> 1 ]

AllRecords == {PrepareRecord, CompensateRecord, ErrorRecord}
WithoutOperator == {[o EXCEPT !.orders = 0] : o \in {CompensateRecord, ErrorRecord}}

Symmetry == Permutations(Worker)
==============================================================================
