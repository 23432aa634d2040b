\* Three handlers mint, spend and revoke two leases; no approval, no hold.
SPECIFICATION Spec
CONSTANTS
  Capability = {c1, c2}
  NoCapability = NoCapability
  Handler = {h1, h2, h3}
  Sweeper = {s1}
  Horizon = 3
  ApprovalExpires = 2
  ApprovalTimeout = 1
  HoldTimeout = 1
  Policy = {"Allow", "Deny"}
  Approval = {"None"}
  Ask = {"Unbound"}
  Ttl = {0, 1, 2}
  FailClosed = TRUE
SYMMETRY Symmetry
INVARIANTS
  SpentOnce SpentInTime RevocationHolds
CHECK_DEADLOCK FALSE
