\* One execution, two concurrent handlers and one HA reconciler.
CONSTANTS
  Execution = {e1}
  Request = {r1, r2}
  HAWorker = {w1}
  NoExecution = NoExecution
  MaxOpen = 1
SPECIFICATION Spec
SYMMETRY Symmetry
CHECK_DEADLOCK FALSE
INVARIANTS
  StatesPaired ExecutedAtMostOnce CanceledNeverExecuted ContractLinked
  EffectHasLineage OutcomeMatchesEffect DebtsRecorded AnswersStayRecordable
PROPERTIES ImplementsGovernedEffect
