\* An approval that is answered while two timeout passes run; it is swept for its
\* age after time 1 and expires at time 2.
SPECIFICATION Spec
CONSTANTS
  Capability = {c1}
  NoCapability = NoCapability
  Handler = {h1, h2}
  Sweeper = {s1, s2}
  Horizon = 3
  ApprovalExpires = 2
  ApprovalTimeout = 1
  HoldTimeout = 1
  Policy = {"Allow", "RequireApproval"}
  Approval = {"Pending", "Granted"}
  Ask = {"Bound", "RoleBound"}
  Ttl = {2}
  FailClosed = TRUE
SYMMETRY Symmetry
INVARIANTS
  RoleIsProven OneVerdict
PROPERTIES
  ImplementsGovernedLease
CHECK_DEADLOCK FALSE
