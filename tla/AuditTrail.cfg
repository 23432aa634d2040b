CONSTANTS
  Sites <- Deployments
  a1 = a1
  a2 = a2
  r1 = r1
  r2 = r2
  MaxLegacy = 1
  MaxLog = 3
  Batch = 2
SPECIFICATION FairSpec
CHECK_DEADLOCK FALSE
INVARIANTS ChainHolds RootsHold ArchiveHolds
PROPERTY EverythingArchived
