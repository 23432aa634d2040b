\* A quarantined proposal next to an approval, and a fair timeout pass.  The
\* approval would expire beyond the horizon and ends by its age alone.
SPECIFICATION FairSpec
CONSTANTS
  Capability = {c1}
  NoCapability = NoCapability
  Handler = {h1}
  Sweeper = {s1}
  Horizon = 3
  ApprovalExpires = 9
  ApprovalTimeout = 1
  HoldTimeout = 1
  Policy = {"Quarantine", "AllowDraftOnly"}
  Approval = {"None", "Pending"}
  Ask = {"Unbound"}
  Ttl = {1}
  FailClosed = TRUE
INVARIANTS
  MintIsBacked
PROPERTIES
  PendingEnds
CHECK_DEADLOCK FALSE
