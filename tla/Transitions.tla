----------------------------- MODULE Transitions -----------------------------
(***************************************************************************)
(* The state machines of the store seam: the states of an execution and    *)
(* of its rollback contract, and the matrices that                         *)
(* ferrum-store/src/transitions.rs consults before it accepts a write.     *)
(* "None" stands for a row that does not exist.                            *)
(***************************************************************************)

None == "None"

ExecutionState ==
  { "Proposed", "Authorized", "Prepared", "Running", "AwaitingVerification",
    "AwaitingApproval", "RecoveryRequired", "Committed", "Compensated",
    "RolledBack", "Denied", "Quarantined", "Failed", "Canceled" }

RollbackState ==
  { "PendingPrepare", "Prepared", "ExecutedAwaitingVerify", "Verified",
    "RecoveryRequired", "Committed", "CompensationPending", "Compensated",
    "RolledBack", "Failed", "Expired" }

ExecutionTerminal ==
  { "Committed", "Compensated", "RolledBack", "Denied", "Quarantined",
    "Failed", "Canceled" }

(***************************************************************************)
(* Allowed successors of an execution state.  Terminal states have none.   *)
(***************************************************************************)
ExecutionSuccessors(s) ==
  CASE s = "Proposed"   -> {"Authorized", "Running", "Canceled"}
    [] s = "Authorized" -> {"Authorized", "Running", "Canceled"}
    [] s = "Prepared"   -> {"Prepared", "Running", "Canceled"}
    [] s = "Running"    -> {"Running", "AwaitingVerification", "Committed",
                            "Failed", "Compensated", "RecoveryRequired"}
    [] s = "AwaitingVerification" ->
         {"AwaitingVerification", "Committed", "Failed", "Compensated",
          "RecoveryRequired"}
    [] s = "RecoveryRequired" ->
         {"RecoveryRequired", "AwaitingVerification", "Compensated", "Failed"}
    [] s = "AwaitingApproval" -> {"Canceled"}
    [] OTHER -> {}

IsValidExecutionTransition(from, to) == to \in ExecutionSuccessors(from)

RollbackSuccessors(s) ==
  CASE s = "PendingPrepare" -> {"PendingPrepare", "Prepared"}
    [] s = "Prepared" ->
         {"Prepared", "ExecutedAwaitingVerify", "RecoveryRequired"}
    [] s = "ExecutedAwaitingVerify" ->
         {"ExecutedAwaitingVerify", "Verified", "Failed", "Compensated",
          "RecoveryRequired"}
    [] s = "RecoveryRequired" ->
         {"RecoveryRequired", "ExecutedAwaitingVerify", "Compensated", "Failed"}
    [] s = "Verified" -> {"Committed"}
    [] OTHER -> {}

IsValidRollbackTransition(from, to) == to \in RollbackSuccessors(from)
==============================================================================
