----------------------------- MODULE AdapterTypes -----------------------------
(***************************************************************************)
(* The receipts of the RollbackAdapter trait.  A result is the world that  *)
(* the call leaves behind, its answer and the metadata it hands back.      *)
(***************************************************************************)

\* PrepareReceipt and ExecuteReceipt: the gateway merges the metadata into the
\* contract.
Ok(w, m) == [world |-> w, answer |-> "ok", meta |-> m]

\* AdapterError.  What the call already did stays done.
Err(w) == [world |-> w, answer |-> "err"]

\* VerifyReceipt with verified = true and false.
Verified(w) == [world |-> w, answer |-> "verified"]
Unverified(w) == [world |-> w, answer |-> "unverified"]

\* RecoveryReceipt with recovered = true and false.
Recovered(w) == [world |-> w, answer |-> "recovered"]
Incomplete(w) == [world |-> w, answer |-> "incomplete"]
==============================================================================
