CONSTANTS
  c1 = c1
  c2 = c2
  Callers <- MCCallers
  MaxFactors = 2
  MaxAttempts = 2
  LockSteps = 1
  MaxStep = 2
  Admins = {a1, a2}
  ScopeSets <- MCScopeSets
  Founders <- MCFounders
  MaxCredentials = 4
  MaxCalls = 3
  MaxDay = 1
  Nonces = {n1, n2}
  Signed = {n1}
  Skew = 1
  NonceTtls = {0, 1, 3}
  MinTtl = 1
  MaxEntries = 2
  MaxRestarts = 1
  MaxNow = 3
  Settings <- MCSettings
  Top = 9
  Policies <- MCPolicies
  Operators = {o1, o2}
  Drafts = {d1, d2}
  MaxEdits = 4
  Posts = {p1, p2}
  Sizes = {1, 2, 3, 4}
  MaxEventBytes = 3
  MaxTotalBytes = 2
  MaxEvents = 2
  SessionTtl = 1
  MaxEventId = 4
  Principals = {q1, q2}
  Bursts = {1, 3}
  Rate = 1
  IdleTimeout = 1
  Window = 2
  Warning = 2
  Critical = 3
  MaxActors = 1
  MaxTick = 3
  MaxPassed = 4
  MaxAsked = 5
  Source <- MCSource
  Deletable = {2}
  NewIds = 10
  ChunkSize = 2
  MaxWrites = 2
  MaxRuns = 2
SPECIFICATION Spec
INVARIANTS
  SecondFactorHolds AuthorityHolds ReplayNeedsLoss DecisionsHold BufferHolds LimitsHold
  MigrationHolds
PROPERTY BundlesAreGoverned
CHECK_DEADLOCK FALSE
