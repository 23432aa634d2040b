---------------------------- MODULE LifecycleOutbox ----------------------------
(***************************************************************************)
(* One lifecycle outbox record after the transaction that inserted it: the *)
(* handler that owes its provenance events, the reconciler workers that    *)
(* repair what a dead handler left behind, and the operator.               *)
(*                                                                         *)
(* Workers claim the record with a lease (owner, generation, expiry) and   *)
(* write it with fenced updates.  A pass has an owner name of its own and  *)
(* works on a record it claims once only (seen_outbox_ids), so the owner   *)
(* stands for the generation as well.  The handler and the operator hold   *)
(* no lease: they read the record, change their copy and write the whole   *)
(* copy back, the handler only while no lease owner is set, the operator   *)
(* always.                                                                 *)
(***************************************************************************)
EXTENDS Naturals, Sequences

CONSTANTS
  Outbox,       \* the records under examination: see Owed
  Worker,       \* reconciler passes, each with an owner name of its own
  Operator,     \* operators at the admin API
  NoWorker,     \* reconciliation_lease_owner IS NULL
  MaxAttempts,  \* MAX_RECONCILIATION_ATTEMPTS
  MaxStalls,    \* bound on leases that expire under a live worker
  MaxDeaths     \* bound on worker crashes

\* What a record is about: the event kinds that it owes, in order; the
\* lineage_parent_spec of each (another obligation, "earlier" or "late" for an
\* event of another transition that is there or may still arrive, "none" when
\* the kind has no parent); whether the handler's events carry
\* lifecycle_outbox_id; whether the transition ends the execution, so that no
\* later one moves it on; and a bound on operator requests.
Owed(o) ==
  LET kinds == {o.events[i] : i \in 1..Len(o.events)} IN
  /\ o.events \in Seq(STRING) /\ o.events # <<>>
  /\ \A i, j \in 1..Len(o.events) : o.events[i] = o.events[j] => i = j
  /\ o.parent \in [kinds -> kinds \cup {"earlier", "late", "none"}]
  /\ o.tagged \in BOOLEAN /\ o.terminal \in BOOLEAN /\ o.orders \in Nat

ASSUME OutboxAssumption == \A o \in Outbox : Owed(o)
ASSUME NoWorkerAssumption == NoWorker \notin Worker
ASSUME BoundAssumption ==
  MaxAttempts \in Nat \ {0} /\ MaxStalls \in Nat /\ MaxDeaths \in Nat

VARIABLES
  owed,     \* what the record is about; never changes
  rec,      \* the public record: status, which event satisfies each obligation
            \* and attempt_count
  lease,    \* lease columns: owner, and whether it has not expired yet
  own,      \* the handler's event of each kind: absent, without its edge, whole
  repairs,  \* number of repaired events of each kind
  arrived,  \* the "late" parent is in the log
  drifted,  \* a later transition has moved the execution or contract row
  handler,  \* the handler: program point, obligation at hand, copy of the record
  worker,   \* the reconciler passes
  operator, \* the operators
  resolved, \* an operator's decision stands for the missing provenance
  stalls,   \* leases that a live worker has lost so far
  deaths,   \* worker crashes so far
  orders    \* operator requests so far

vars == <<owed, rec, lease, own, repairs, arrived, drifted, handler, worker, operator,
          resolved, stalls, deaths, orders>>
logVars == <<own, repairs>>
otherRows == <<owed, arrived, drifted>>
peopleVars == <<operator, resolved, orders>>
faultVars == <<stalls, deaths>>

Obligations == owed.events
Parent == owed.parent
Tagged == owed.tagged
Terminal == owed.terminal
MaxOrders == owed.orders

Kind == {Obligations[i] : i \in 1..Len(Obligations)}

Status ==
  {"PendingProvenance", "ProvenanceWritten", "Reconciled", "NeedsOperatorReview"}

\* Whose event satisfies an obligation, "unwritten" for none.
Source == {"unwritten", "handler", "repair"}

Record ==
  [status : Status, by : [Kind -> Source], attempts : Nat]

Fresh ==
  [status |-> "PendingProvenance", by |-> [k \in Kind |-> "unwritten"],
   attempts |-> 0]

Open == {"PendingProvenance", "ProvenanceWritten"}

NoLease == [owner |-> NoWorker, live |-> FALSE]

\* seen is the copy of the obligations that came with the claim; source is the
\* event that the worker accepts for obligation i.
IdleWorker ==
  [pc |-> "idle", i |-> 1, seen |-> Fresh.by, source |-> "unwritten"]

IdleOperator == [pc |-> "idle", copy |-> Fresh]

DoneHandler == [pc |-> "done", i |-> 1, copy |-> Fresh]

------------------------------------------------------------------------------
(* The log *)

\* Events of a kind for this execution, whoever wrote them.
Written(k) == (IF own[k] = "absent" THEN 0 ELSE 1) + repairs[k]

\* Events that discover_matching_event finds by their outbox id.
Discoverable(k) ==
  (IF own[k] # "absent" /\ Tagged THEN 1 ELSE 0) + repairs[k]

\* Candidates for the causal parent of a kind.
Parents(k) ==
  IF Parent[k] \in Kind THEN Written(Parent[k])
  ELSE IF Parent[k] = "earlier" \/ (Parent[k] = "late" /\ arrived) THEN 1 ELSE 0

\* Mutant: no candidate at all counts as unambiguous.
AtMostOneParent(k) == Parents(k) <= 1

\* required_parent_edge: exactly one candidate.
UniqueParent(k) == Parents(k) = 1

------------------------------------------------------------------------------

Init ==
  /\ owed \in Outbox
  /\ rec = Fresh
  /\ lease = NoLease
  /\ own = [k \in Kind |-> "absent"]
  /\ repairs = [k \in Kind |-> 0]
  /\ arrived = FALSE
  /\ drifted = FALSE
  /\ handler = [pc |-> "append", i |-> 1, copy |-> Fresh]
  /\ worker = [w \in Worker |-> IdleWorker]
  /\ operator = [o \in Operator |-> IdleOperator]
  /\ resolved = FALSE
  /\ stalls = 0
  /\ deaths = 0
  /\ orders = 0

MarkObligation(r, k, source) ==
  [r EXCEPT !.by[k] = source, !.status = "ProvenanceWritten"]

\* Mutant: there is no closing test.
NothingOwed(r) == TRUE

AllSatisfied(r) == \A k \in Kind : r.by[k] # "unwritten"

ClearLease == lease' = NoLease

------------------------------------------------------------------------------
(* The handler's normal path *)

k_h == Obligations[handler.i]

\* append_governance_event: the event needs its causal parent.  A cancel and a
\* compensation out of recovery, whose events are not tagged, do without.
HandlerAppend ==
  /\ handler.pc = "append"
  /\ \/ /\ Parent[k_h] = "none" \/ Parents(k_h) > 0 \/ ~Tagged
        /\ own' = [own EXCEPT ![k_h] = IF Parents(k_h) > 0 THEN "whole" ELSE "bare"]
        /\ handler' = [handler EXCEPT !.pc = "get"]
     \/ /\ Parent[k_h] # "none" /\ Parents(k_h) = 0 /\ Tagged
        /\ handler' = DoneHandler
        /\ UNCHANGED own
  /\ UNCHANGED <<rec, lease, repairs, otherRows, worker, peopleVars, faultVars>>

\* mark_provenance_obligation_written and mark_reconciled begin with a read.
HandlerGet ==
  /\ handler.pc \in {"get", "getClose"}
  /\ handler' = [handler EXCEPT !.copy = rec,
                   !.pc = IF @ = "get" THEN "mark" ELSE "close"]
  /\ UNCHANGED <<rec, lease, logVars, otherRows, worker, peopleVars, faultVars>>

\* The unclaimed update writes the handler's whole copy.
HandlerMark ==
  /\ handler.pc = "mark"
  /\ \/ /\ lease.owner = NoWorker
        /\ rec' = MarkObligation(handler.copy, k_h, "handler")
        /\ resolved' = FALSE
        /\ handler' = IF handler.i < Len(Obligations)
             THEN [pc |-> "append", i |-> handler.i + 1, copy |-> Fresh]
             ELSE [handler EXCEPT !.pc = "getClose", !.copy = Fresh]
     \/ /\ lease.owner # NoWorker
        /\ handler' = DoneHandler
        /\ UNCHANGED <<rec, resolved>>
  /\ UNCHANGED <<lease, logVars, otherRows, worker, operator, orders, faultVars>>

HandlerClose ==
  /\ handler.pc = "close"
  /\ handler' = DoneHandler
  /\ \/ /\ lease.owner = NoWorker
        /\ AllSatisfied(handler.copy)
        /\ rec' = [handler.copy EXCEPT !.status = "Reconciled"]
        /\ resolved' = FALSE
     \/ /\ lease.owner # NoWorker \/ ~AllSatisfied(handler.copy)
        /\ UNCHANGED <<rec, resolved>>
  /\ UNCHANGED <<lease, logVars, otherRows, worker, operator, orders, faultVars>>

\* The process dies or the request is dropped.
HandlerStop ==
  /\ handler.pc # "done"
  /\ handler' = DoneHandler
  /\ UNCHANGED <<rec, lease, logVars, otherRows, worker, peopleVars, faultVars>>

\* A later transition moves the rows this record expects.
Drift ==
  /\ ~drifted /\ ~Terminal
  /\ drifted' = TRUE
  /\ UNCHANGED <<owed, rec, lease, logVars, arrived, handler, worker, peopleVars,
                 faultVars>>

\* A slow handler of another transition appends the parent at last.
ParentArrives ==
  /\ ~arrived /\ \E k \in Kind : Parent[k] = "late"
  /\ arrived' = TRUE
  /\ UNCHANGED <<owed, rec, lease, logVars, drifted, handler, worker, peopleVars,
                 faultVars>>

------------------------------------------------------------------------------
(* The reconciler *)

\* Mutant: the claim query selects records whatever their status.
ClaimableAny == ~lease.live

Claimable == rec.status \in Open /\ ~lease.live

TakeLease(w) ==
  lease' = [owner |-> w, live |-> TRUE]

\* claim_pending_reconciliation: the claim carries a copy of the record.
Claim(w) ==
  /\ worker[w].pc = "idle"
  /\ Claimable
  /\ TakeLease(w)
  /\ worker' = [worker EXCEPT ![w] =
                  [IdleWorker EXCEPT !.pc = "drift", !.seen = rec.by]]
  /\ UNCHANGED <<rec, logVars, otherRows, handler, peopleVars, faultVars>>

\* The fencing condition of every claimed update.
Holds(w) == lease.owner = w /\ lease.live

Goto(w, pc) == worker' = [worker EXCEPT ![w].pc = pc]

\* The record is dealt with, one way or the other.
Leave(w, pc) == worker' = [worker EXCEPT ![w] = [IdleWorker EXCEPT !.pc = pc]]

\* The execution and contract rows against the record.
CheckDrift(w) ==
  /\ worker[w].pc = "drift"
  /\ IF drifted THEN Leave(w, "review") ELSE Goto(w, "inspect")
  /\ UNCHANGED <<rec, lease, logVars, otherRows, handler, peopleVars, faultVars>>

\* Mutant: events that no obligation names are not looked for.
AcceptedNamedOnly(w, k) == worker[w].seen[k]

\* Which event the worker would accept for the obligation: the one the claimed
\* copy names, else the only discoverable one.
Accepted(w, k) ==
  IF worker[w].seen[k] # "unwritten" THEN worker[w].seen[k]
  ELSE IF Discoverable(k) # 1 THEN "unwritten"
  ELSE IF repairs[k] = 1 THEN "repair" ELSE "handler"

HasEdge(k, source) ==
  Parent[k] = "none" \/ source = "repair" \/ own[k] = "whole"

\* One turn of the loop over obligations, up to the first write.
Inspect(w) ==
  LET k == Obligations[worker[w].i]
      source == Accepted(w, k)
  IN
  /\ worker[w].pc = "inspect"
  /\ \/ /\ source # "unwritten" /\ HasEdge(k, source)
        /\ worker' = [worker EXCEPT ![w].pc = "mark", ![w].source = source]
     \/ /\ source # "unwritten" /\ ~HasEdge(k, source) /\ UniqueParent(k)
        /\ worker' = [worker EXCEPT ![w].pc = "renew", ![w].source = source]
     \/ /\ source = "unwritten" /\ UniqueParent(k)
        /\ worker' = [worker EXCEPT ![w].pc = "renew", ![w].source = "unwritten"]
     \/ /\ source = "unwritten" \/ ~HasEdge(k, source)
        /\ ~UniqueParent(k)
        /\ Leave(w, "review")
  /\ UNCHANGED <<rec, lease, logVars, otherRows, handler, peopleVars, faultVars>>

\* renew_or_fence, right before the provenance write.
Renew(w) ==
  /\ worker[w].pc = "renew"
  /\ IF Holds(w) /\ rec.status \in Open THEN Goto(w, "write") ELSE Leave(w, "fail")
  /\ UNCHANGED <<rec, lease, logVars, otherRows, handler, peopleVars, faultVars>>

\* Mutant: an error of the append is ignored.
WriteUnchecked(w) ==
  LET k == Obligations[worker[w].i] IN
  /\ worker[w].pc = "write"
  /\ repairs' = [repairs EXCEPT ![k] = @ + 1] \/ UNCHANGED repairs
  /\ worker' = [worker EXCEPT ![w].pc = "mark", ![w].source = "repair"]
  /\ UNCHANGED <<own, rec, lease, otherRows, handler, peopleVars, faultVars>>

\* Append the missing edge of an existing event, or the missing event with its
\* edge.  The provenance store knows nothing of leases.
Write(w) ==
  LET k == Obligations[worker[w].i] IN
  /\ worker[w].pc = "write"
  /\ \/ /\ worker[w].source # "unwritten"
        /\ own' = [own EXCEPT ![k] = "whole"]
        /\ Goto(w, "mark")
        /\ UNCHANGED repairs
     \/ /\ worker[w].source = "unwritten"
        /\ repairs' = [repairs EXCEPT ![k] = @ + 1]
        /\ worker' = [worker EXCEPT ![w].pc = "mark", ![w].source = "repair"]
        /\ UNCHANGED own
  /\ UNCHANGED <<rec, lease, otherRows, handler, peopleVars, faultVars>>

\* mark_provenance_obligation_written_claimed.  Only the operator can write a
\* leased record, and doing so takes the lease away, so the read and the fenced
\* update of a claimed write are one step.
Mark(w) ==
  LET k == Obligations[worker[w].i]
      named == worker[w].seen[k] # "unwritten"
  IN
  /\ worker[w].pc = "mark"
  /\ \/ /\ named \/ Holds(w)
        /\ rec' = IF named THEN rec
                           ELSE MarkObligation(rec, k, worker[w].source)
        /\ worker' = IF worker[w].i < Len(Obligations)
                       THEN [worker EXCEPT ![w].pc = "inspect", ![w].i = @ + 1,
                                           ![w].source = "unwritten"]
                       ELSE [worker EXCEPT ![w] = [IdleWorker EXCEPT !.pc = "close"]]
     \/ /\ ~named /\ ~Holds(w)
        /\ Leave(w, "fail")
        /\ UNCHANGED rec
  /\ UNCHANGED <<lease, logVars, otherRows, handler, peopleVars, faultVars>>

\* mark_reconciled_claimed.
Close(w) ==
  /\ worker[w].pc = "close"
  /\ \/ /\ Holds(w) /\ AllSatisfied(rec)
        /\ rec' = [rec EXCEPT !.status = "Reconciled"]
        /\ ClearLease
        /\ Leave(w, "passing")
     \/ /\ ~Holds(w) \/ ~AllSatisfied(rec)
        /\ Leave(w, "fail")
        /\ UNCHANGED <<rec, lease>>
  /\ UNCHANGED <<logVars, otherRows, handler, peopleVars, faultVars>>

\* mark_needs_operator_review_claimed.
Review(w) ==
  /\ worker[w].pc = "review"
  /\ \/ /\ Holds(w)
        /\ rec' = [rec EXCEPT !.status = "NeedsOperatorReview",
                              !.attempts = @ + 1]
        /\ ClearLease
        /\ Leave(w, "passing")
     \/ /\ ~Holds(w)
        /\ Leave(w, "fail")
        /\ UNCHANGED <<rec, lease>>
  /\ UNCHANGED <<logVars, otherRows, handler, peopleVars, faultVars>>

\* The 30 second timeout or a store error gives the record up.
GiveUp(w) ==
  /\ worker[w].pc \in {"drift", "inspect", "renew", "write", "mark", "close",
                       "review"}
  /\ Leave(w, "fail")
  /\ UNCHANGED <<rec, lease, logVars, otherRows, handler, peopleVars, faultVars>>

\* Mutant: failures are retried without end.
FailRetries(w) ==
  /\ worker[w].pc = "fail"
  /\ \/ Holds(w) /\ ClearLease
     \/ ~Holds(w) /\ UNCHANGED lease
  /\ Leave(w, "passing")
  /\ UNCHANGED <<rec, logVars, otherRows, handler, peopleVars, faultVars>>

\* record_reconciliation_failure; nothing happens when the lease is lost.
Fail(w) ==
  /\ worker[w].pc = "fail"
  /\ \/ /\ Holds(w)
        /\ rec' = [rec EXCEPT !.attempts = @ + 1,
             !.status = IF rec.attempts + 1 >= MaxAttempts
                          THEN "NeedsOperatorReview" ELSE @]
        /\ ClearLease
     \/ ~Holds(w) /\ UNCHANGED <<rec, lease>>
  /\ Leave(w, "passing")
  /\ UNCHANGED <<logVars, otherRows, handler, peopleVars, faultVars>>

\* The pass goes on while its limit allows.  A record it has seen before is
\* claimed again and then skipped: the lease stays with the pass that ended.
PassOn(w) ==
  /\ worker[w].pc = "passing"
  /\ Leave(w, "idle")
  /\ \/ Claimable /\ TakeLease(w)
     \/ UNCHANGED lease
  /\ UNCHANGED <<rec, logVars, otherRows, handler, peopleVars, faultVars>>

\* The worker's process dies.
Die(w) ==
  /\ worker[w].pc # "idle" /\ deaths < MaxDeaths
  /\ deaths' = deaths + 1
  /\ Leave(w, "idle")
  /\ UNCHANGED <<rec, lease, logVars, otherRows, handler, peopleVars, stalls>>

\* Some pass is at work under the current lease.
Attended == \E w \in Worker : worker[w].pc \notin {"idle", "passing"} /\ Holds(w)

\* Time passes: a lease nobody renews runs out, and so may one whose worker is
\* stalled for longer than the TTL.
Expire ==
  /\ lease.live
  /\ lease' = [lease EXCEPT !.live = FALSE]
  /\ IF Attended THEN stalls < MaxStalls /\ stalls' = stalls + 1
                 ELSE UNCHANGED stalls
  /\ UNCHANGED <<rec, logVars, otherRows, handler, worker, peopleVars, deaths>>

------------------------------------------------------------------------------
(* The operator: reset_for_retry and mark_operator_resolved *)

OperatorGet(o) ==
  /\ operator[o].pc = "idle" /\ orders < MaxOrders
  /\ orders' = orders + 1
  /\ \E order \in {"retry", "resolve"} :
       operator' = [operator EXCEPT ![o] = [pc |-> order, copy |-> rec]]
  /\ UNCHANGED <<rec, lease, logVars, otherRows, handler, worker, resolved,
                 faultVars>>

\* The override writes the operator's copy and takes any lease away.
OperatorPut(o) ==
  /\ \/ /\ operator[o].pc = "retry"
        /\ rec' = [operator[o].copy EXCEPT !.status = "PendingProvenance"]
        /\ resolved' = FALSE
     \/ /\ operator[o].pc = "resolve"
        /\ rec' = [operator[o].copy EXCEPT !.status = "Reconciled"]
        /\ resolved' = TRUE
  /\ ClearLease
  /\ operator' = [operator EXCEPT ![o] = IdleOperator]
  /\ stalls' = IF Attended THEN stalls + 1 ELSE stalls
  /\ UNCHANGED <<logVars, otherRows, handler, worker, orders, deaths>>

------------------------------------------------------------------------------

HandlerStep ==
  HandlerAppend \/ HandlerGet \/ HandlerMark \/ HandlerClose \/ HandlerStop

WorkerStep(w) ==
  \/ Claim(w) \/ CheckDrift(w) \/ Inspect(w) \/ Renew(w) \/ Write(w) \/ Mark(w)
  \/ Close(w) \/ Review(w) \/ Fail(w) \/ PassOn(w)

Next ==
  \/ HandlerStep
  \/ Drift \/ ParentArrives
  \/ \E w \in Worker : WorkerStep(w) \/ GiveUp(w) \/ Die(w)
  \/ Expire
  \/ \E o \in Operator : OperatorGet(o) \/ OperatorPut(o)

Spec == Init /\ [][Next]_vars

(***************************************************************************)
(* ferrumd runs reconciler passes periodically, and time makes a lease     *)
(* that nobody renews run out.  Crashes, stalls and operator requests are  *)
(* bounded, so weak fairness of a pass's own steps is what the loop gives. *)
(* The handler gets none: its client may be gone.                          *)
(***************************************************************************)
Fairness ==
  /\ \A w \in Worker : WF_vars(WorkerStep(w))
  /\ WF_vars(Expire)

FairSpec == Spec /\ Fairness

------------------------------------------------------------------------------
(* Properties *)

\* Every variable has its type.
TypeOK ==
  /\ owed \in Outbox
  /\ rec \in Record
  /\ lease \in [owner : Worker \cup {NoWorker}, live : BOOLEAN]
  /\ own \in [Kind -> {"absent", "bare", "whole"}]
  /\ repairs \in [Kind -> Nat]
  /\ arrived \in BOOLEAN /\ drifted \in BOOLEAN /\ resolved \in BOOLEAN
  /\ handler \in [pc : {"append", "get", "mark", "getClose", "close", "done"},
                  i : 1..Len(Obligations), copy : Record]
  /\ worker \in [Worker ->
       [pc : {"idle", "drift", "inspect", "renew", "write", "mark", "close",
              "review", "fail", "passing"},
        i : 1..Len(Obligations), seen : [Kind -> Source], source : Source]]
  /\ operator \in [Operator -> [pc : {"idle", "retry", "resolve"}, copy : Record]]
  /\ stalls \in Nat /\ deaths \in Nat /\ orders \in Nat

\* An obligation that names an event names one that is in the log, although
\* the event and the mark are separate writes and marks are written from copies
\* that may be stale.
NamedIsWritten ==
  \A k \in Kind :
    /\ rec.by[k] = "handler" => own[k] # "absent"
    /\ rec.by[k] = "repair" => repairs[k] > 0

\* A reconciled record owes nothing, unless an operator resolved it: no stale
\* copy can close a record whose events are missing.
ReconciledIsProven ==
  rec.status = "Reconciled" /\ ~resolved =>
    \A k \in Kind : rec.by[k] # "unwritten" /\ Written(k) > 0

\* What the record says is true although handler, passes and operator write it
\* back whole from copies they read earlier.
MarksAreProven == NamedIsWritten /\ ReconciledIsProven

\* As long as no live worker loses its lease, repeated and crashed passes
\* repair a missing event at most once, unless the handler's own tagged event
\* makes the matches ambiguous.
RepairedOnce ==
  stalls = 0 =>
    \A k \in Kind : own[k] = "absent" \/ ~Tagged => repairs[k] <= 1

\* Repair never breaks causality: a repaired event's parent is in the log.
RepairHasParent ==
  \A k \in Kind : repairs[k] > 0 => Parents(k) > 0

\* Repairing is safe however handler and passes race and whenever the parent
\* arrives: no event is repaired twice and none without its cause.
RepairsAreSound == RepairedOnce /\ RepairHasParent

\* Once the handler is gone, a record under review stays there until an
\* operator decides: no worker claims it again or closes it.
ReviewNeedsOperator ==
  [][rec.status = "NeedsOperatorReview" /\ rec'.status # "NeedsOperatorReview"
       /\ handler.pc = "done" => operator' # operator]_vars

\* Every open record is eventually reconciled or put before an operator, also
\* when a pass ends with a lease it never works on.
Settles == rec.status \in Open ~> rec.status \notin Open
==============================================================================
