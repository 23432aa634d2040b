CONSTANTS
  Registered <- AllAdapters
  MaxMeddles = 2
  MaxAttempts = 2
SPECIFICATION Spec
CHECK_DEADLOCK FALSE
INVARIANTS RecoveryIsSound AppliedOnce
