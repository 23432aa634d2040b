\* A prepare, a compensation and a failed compensation: handler and operator
\* against two reconciler passes.
CONSTANTS
  Outbox <- AllRecords
  Worker = {w1, w2}
  Operator = {o1}
  NoWorker = NoWorker
  MaxAttempts = 3
  MaxStalls = 1
  MaxDeaths = 1
SPECIFICATION Spec
SYMMETRY Symmetry
CHECK_DEADLOCK FALSE
INVARIANTS MarksAreProven RepairsAreSound
PROPERTIES ReviewNeedsOperator
