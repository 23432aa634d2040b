\* Liveness of the reconciler.
CONSTANTS
  Outbox <- WithoutOperator
  Worker = {w1, w2}
  Operator = {}
  NoWorker = NoWorker
  MaxAttempts = 2
  MaxStalls = 1
  MaxDeaths = 1
SPECIFICATION FairSpec
CHECK_DEADLOCK FALSE
PROPERTIES Settles
