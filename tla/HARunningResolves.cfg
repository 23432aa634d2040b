\* One handler and one fair HA reconciler.
CONSTANTS
  Execution = {e1}
  Request = {r1}
  HAWorker = {w1}
  NoExecution = NoExecution
  MaxOpen = 1
SPECIFICATION FairSpec
CHECK_DEADLOCK FALSE
PROPERTIES RunningResolves
