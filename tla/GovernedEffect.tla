---------------------------- MODULE GovernedEffect ----------------------------
(***************************************************************************)
(* What the governed execution lifecycle promises to whoever requests a    *)
(* side effect, without requests, rows, contracts, outbox or events:       *)
(* nothing is done before the execution is claimed, it is done at most     *)
(* once, a withdrawn request is never done, and an outcome other than      *)
(* "recovery" is only declared once the adapter has been called and is     *)
(* final.                                                                  *)
(***************************************************************************)
CONSTANT Execution

VARIABLES
  phase,    \* where the request stands
  acted,    \* the adapter has been asked to perform the effect
  inPlace   \* the effect is in place in the outside world

vars == <<phase, acted, inPlace>>

Phase ==
  {"absent", "pending", "withdrawn", "active", "recovery", "committed",
   "failed", "undone"}

Begun == {"active", "recovery", "committed", "failed", "undone"}

Init ==
  /\ phase = [e \in Execution |-> "absent"]
  /\ acted = [e \in Execution |-> FALSE]
  /\ inPlace = [e \in Execution |-> FALSE]

Move(e, from, to) ==
  /\ phase[e] = from
  /\ phase' = [phase EXCEPT ![e] = to]
  /\ UNCHANGED <<acted, inPlace>>

Admit(e) == Move(e, "absent", "pending")
Withdraw(e) == Move(e, "pending", "withdrawn")
Begin(e) == Move(e, "pending", "active")

\* The one call of the adapter.  It may come after a reconciler has taken the
\* execution away from the handler that claimed it.
Act(e) ==
  /\ phase[e] \in Begun
  /\ ~acted[e]
  /\ acted' = [acted EXCEPT ![e] = TRUE]
  /\ \E done \in BOOLEAN : inPlace' = [inPlace EXCEPT ![e] = @ \/ done]
  /\ UNCHANGED phase

\* An outcome is declared after the call, never instead of it.
Settle(e) ==
  /\ acted[e]
  /\ \E to \in {"committed", "failed", "undone"} : Move(e, "active", to)

\* Nobody knows what happened: a person or a compensation has to find out.
Escalate(e) == Move(e, "active", "recovery")
Recover(e) == Move(e, "recovery", "undone")

\* A compensation takes the effect back; it may come late, but never before
\* the execution has begun.
Undo(e) ==
  /\ phase[e] \in Begun
  /\ inPlace' = [inPlace EXCEPT ![e] = FALSE]
  /\ UNCHANGED <<phase, acted>>

Next ==
  \E e \in Execution :
    \/ Admit(e) \/ Withdraw(e) \/ Begin(e) \/ Act(e) \/ Settle(e)
    \/ Escalate(e) \/ Recover(e) \/ Undo(e)

Spec == Init /\ [][Next]_vars
==============================================================================
