----------------------------- MODULE GovernedLease -----------------------------
(***************************************************************************)
(* What governance promises about a proposal, without requests, sweeps,    *)
(* events or copies of rows: the decision and every human answer are given *)
(* once and never taken back, a capability is granted only with the        *)
(* consent that the decision asks for, and it is spent once, in time and   *)
(* with the approval it names, or withdrawn and never spent.               *)
(***************************************************************************)
EXTENDS Naturals

CONSTANT Capability

VARIABLES
  clock,    \* the time
  decided,  \* the decision on the proposal
  answer,   \* where the approval and the quarantine hold stand
  lease,    \* where each capability stands
  ends,     \* the end of its lifetime
  bound,    \* it names the approval
  bought    \* the executions it has bought

vars == <<clock, decided, answer, lease, ends, bound, bought>>
leaseVars == <<lease, ends, bound, bought>>

Decision == {"Allow", "Deny", "Quarantine", "RequireApproval", "AllowDraftOnly"}
Answer == {"Granted", "Allowed", "Denied", "Expired"}

Init ==
  /\ clock = 0
  /\ decided = "None"
  /\ \E a \in {"None", "Pending", "Granted"} :
       answer = [o \in {"approval", "hold"} |-> IF o = "approval" THEN a ELSE "None"]
  /\ lease = [c \in Capability |-> "None"]
  /\ ends = [c \in Capability |-> 0]
  /\ bound = [c \in Capability |-> FALSE]
  /\ bought = [c \in Capability |-> 0]

Pass == clock' = clock + 1 /\ UNCHANGED <<decided, answer, leaseVars>>

Decide(d) ==
  /\ decided = "None"
  /\ decided' = d
  /\ UNCHANGED <<clock, answer, leaseVars>>

Move(o, from, to) ==
  /\ answer[o] = from
  /\ answer' = [answer EXCEPT ![o] = to]
  /\ UNCHANGED <<clock, decided, leaseVars>>

Pose(o) == Move(o, "None", "Pending")
Reply(o, a) == Move(o, "Pending", a)

\* The consent that the decision asks for.
Consent ==
  \/ decided = "Allow"
  \/ decided = "RequireApproval" /\ answer["approval"] = "Granted"
  \/ decided = "Quarantine" /\ answer["hold"] = "Allowed"

Grant(c) ==
  /\ lease[c] = "None" /\ Consent
  /\ lease' = [lease EXCEPT ![c] = "Active"]
  /\ ends' = [ends EXCEPT ![c] = ends'[c]] /\ ends'[c] >= clock
  /\ bound' = [bound EXCEPT ![c] = bound'[c]]
  /\ UNCHANGED <<clock, decided, answer, bought>>

Spend(c) ==
  /\ lease[c] = "Active" /\ clock < ends[c]
  /\ bound[c] => answer["approval"] = "Granted"
  /\ lease' = [lease EXCEPT ![c] = "Used"]
  /\ bought' = [bought EXCEPT ![c] = @ + 1]
  /\ UNCHANGED <<clock, decided, answer, ends, bound>>

Withdraw(c) ==
  /\ lease[c] = "Active"
  /\ lease' = [lease EXCEPT ![c] = "Revoked"]
  /\ UNCHANGED <<clock, decided, answer, ends, bound, bought>>

Next ==
  \/ Pass
  \/ \E d \in Decision : Decide(d)
  \/ \E o \in {"approval", "hold"} : Pose(o) \/ \E a \in Answer : Reply(o, a)
  \/ \E c \in Capability : Grant(c) \/ Spend(c) \/ Withdraw(c)

Spec == Init /\ [][Next]_vars
==============================================================================
