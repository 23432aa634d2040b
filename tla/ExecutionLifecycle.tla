-------------------------- MODULE ExecutionLifecycle --------------------------
(***************************************************************************)
(* The governed execution lifecycle of the gateway: authorize, prepare,    *)
(* execute, verify, commit, cancel and compensate, served concurrently by  *)
(* HTTP handlers of one or more gateway processes, and the HA reconciler   *)
(* that sweeps stale executions.                                           *)
(*                                                                         *)
(* A handler is a sequence of awaits: it reads the execution row, reads    *)
(* the contract row, calls the adapter, writes one store transaction,      *)
(* appends its provenance events, marking each in its outbox record, and   *)
(* reconciles the record.  Every await is a step of its own here, so       *)
(* requests interleave at exactly those points, and a request may stop for *)
(* good between any two of them (a crash, a dropped connection, a store    *)
(* error).  What a handler read earlier stays in its request record and    *)
(* may be stale when it is used.                                           *)
(***************************************************************************)
EXTENDS Naturals, Sequences, FiniteSets, Transitions

CONSTANTS
  Execution,     \* identifiers of executions
  Request,       \* slots in which handlers run, one request at a time each
  HAWorker,      \* HA reconciler loops; empty when ha_reconciler_enabled=false
  NoExecution,   \* the execution of an idle slot
  MaxOpen        \* bound: open records among which a request may leave its own

ASSUME NoExecutionAssumption == NoExecution \notin Execution
ASSUME MaxOpenAssumption == MaxOpen \in Nat
ASSUME SlotAssumption == Request \cap HAWorker = {}

VARIABLES
  execState,     \* executions.state, None before authorize inserts the row
  linked,        \* executions.rollback_contract_id IS NOT NULL
  contractState, \* rollback_contracts.state, None before prepare inserts it
  autoCommit,    \* rollback_contracts.auto_commit
  contracts,     \* number of contract rows inserted for the execution
  outbox,        \* lifecycle_outbox records of the execution
  events,        \* kinds of provenance events appended for the execution
  effect,        \* the side effect is in place in the outside world
  executeCalls,  \* number of calls of adapter.execute
  compensateCalled, \* some adapter.compensate call has been made
  misreported,   \* an adapter answered Applied or Recovered and it was not so
  req            \* what each slot is doing

rowVars == <<execState, linked, contractState, autoCommit, contracts>>
worldVars == <<effect, executeCalls, compensateCalled, misreported>>
vars == <<execState, linked, contractState, autoCommit, contracts, outbox,
          events, effect, executeCalls, compensateCalled, misreported, req>>

Slot == Request \cup HAWorker

------------------------------------------------------------------------------
(* Vocabulary *)

\* The kinds that the lifecycle handlers and the HA reconciler append.
EventKind ==
  { "ActionProposalSubmitted", "SideEffectPrepared", "ToolCallPrepared",
    "ToolCallExecuted", "SideEffectVerified", "SideEffectCommitted",
    "SideEffectCompensated", "SideEffectRolledBack", "ErrorRaised" }

TransitionName ==
  { "authorize", "prepare", "execute", "execute-recovery", "verify",
    "verify-recovery", "commit", "cancel", "compensate", "ha-recovery" }

\* The statuses a handler gives; operator review belongs to the reconciler.
OutboxStatus == { "PendingProvenance", "ProvenanceWritten", "Reconciled" }

\* The idempotency key: transition name and the two new states ("none" when
\* the transition leaves the contract alone).
Key == TransitionName \X ExecutionState \X (RollbackState \cup {None})

NoKey == <<None, None, None>>

\* kinds are the provenance obligations, marked those with an event id.
OutboxRecord ==
  [ key : Key, kinds : SUBSET EventKind, marked : SUBSET EventKind,
    status : OutboxStatus ]

Operation ==
  { "none", "authorize", "prepare", "execute", "verify", "commit", "cancel",
    "compensate", "ha" }

\* What an adapter answers to execute, verify and compensate.
Outcome ==
  { "none", "Ok", "Err", "Applied", "NotApplied", "Indeterminate",
    "Recovered", "Incomplete" }

ProgramPoint ==
  { "idle",      \* no request
    "loaded",    \* execution row read and accepted, contract row not read yet
    "ready",     \* every row read and accepted
    "claimed",   \* execute only: the execution is Running in the store
    "called",    \* the adapter has answered
    "recorded",  \* the transition is committed, events are owed
    "appended",  \* an event is in the log, its obligation not yet marked
    "written" }  \* every obligation is marked, the record is still open

\* es, lk and cs are the values read from the rows; owed are the events still
\* to be appended and marked, key is that of the request's outbox record.
RequestRecord ==
  [ pc : ProgramPoint, op : Operation, e : Execution \cup {NoExecution},
    es : ExecutionState \cup {None}, lk : BOOLEAN,
    cs : RollbackState \cup {None}, out : Outcome,
    owed : Seq(EventKind), key : Key \cup {NoKey} ]

Idle ==
  [ pc |-> "idle", op |-> "none", e |-> NoExecution, es |-> None,
    lk |-> FALSE, cs |-> None, out |-> "none", owed |-> <<>>, key |-> NoKey ]

Finish(r) == req' = [req EXCEPT ![r] = Idle]

\* Causal parent that append_governance_event must find, None if there is none.
\* CapabilityMinted was appended when the capability was minted.
LineageParent(k) ==
  CASE k = "SideEffectPrepared" -> "ActionProposalSubmitted"
    [] k = "ToolCallPrepared" -> "SideEffectPrepared"
    [] k = "ToolCallExecuted" -> "ToolCallPrepared"
    [] k = "SideEffectVerified" -> "ToolCallExecuted"
    [] k = "SideEffectCommitted" -> "SideEffectVerified"
    [] k \in {"SideEffectCompensated", "SideEffectRolledBack"} ->
         "ToolCallExecuted"
    [] OTHER -> None

\* The part of the lineage that the execution's own handlers write.
MinimumLineage ==
  {"ActionProposalSubmitted", "SideEffectPrepared", "ToolCallPrepared"}

------------------------------------------------------------------------------
(* The initial state and the store transaction shared by the handlers *)

Init ==
  /\ execState = [e \in Execution |-> None]
  /\ linked = [e \in Execution |-> FALSE]
  /\ contractState = [e \in Execution |-> None]
  /\ autoCommit = [e \in Execution |-> FALSE]
  /\ contracts = [e \in Execution |-> 0]
  /\ outbox = [e \in Execution |-> {}]
  /\ events = [e \in Execution |-> {}]
  /\ effect = [e \in Execution |-> FALSE]
  /\ executeCalls = [e \in Execution |-> 0]
  /\ compensateCalled = [e \in Execution |-> FALSE]
  /\ misreported = [e \in Execution |-> FALSE]
  /\ req = [r \in Slot |-> Idle]

\* Mutant: the key is the name of the transition alone.
KeyNameIsFree(e, key) == \A o \in outbox[e] : o.key[1] # key[1]

\* UNIQUE(idempotency_key) of the lifecycle_outbox table.
KeyIsFree(e, key) == \A o \in outbox[e] : o.key # key

\* A committed transaction leaves the request owing the events in order.
Owe(r, key, kinds) ==
  req' = [req EXCEPT ![r].pc = "recorded", ![r].owed = kinds, ![r].key = key]

\* Mutant: the state change commits without its outbox record.
ForgetOutbox(e, key, kinds) == UNCHANGED outbox

AddOutbox(e, key, kinds) ==
  outbox' = [outbox EXCEPT ![e] = @ \cup
              {[key |-> key, kinds |-> {kinds[i] : i \in 1..Len(kinds)},
                marked |-> {}, status |-> "PendingProvenance"]}]

\* Mutant: the update of the execution row compares no state.
RecordableStale(q, prev, name, es, cs) ==
  /\ IsValidExecutionTransition(prev, es)
  /\ cs # None /\ q.cs # None =>
       /\ IsValidRollbackTransition(q.cs, cs)
       /\ contractState[q.e] = q.cs
  /\ KeyIsFree(q.e, <<name, es, cs>>)

\* The tests of one record_lifecycle_transition transaction: the execution is
\* still in state prev, a contract that is updated is still in the state that
\* was read, both moves are in the matrices and the key is new.
Recordable(q, prev, name, es, cs) ==
  /\ IsValidExecutionTransition(prev, es)
  /\ execState[q.e] = prev
  /\ cs # None /\ q.cs # None =>
       /\ IsValidRollbackTransition(q.cs, cs)
       /\ contractState[q.e] = q.cs
  /\ KeyIsFree(q.e, <<name, es, cs>>)

\* The transaction writes the whole execution row, the contract link as the
\* request knows it included.  When a test fails it is rolled back and the
\* handler returns an error.
RecordTransition(r, prev, name, es, cs, lk, kinds) ==
  LET q == req[r] IN
  \/ /\ Recordable(q, prev, name, es, cs)
     /\ execState' = [execState EXCEPT ![q.e] = es]
     /\ linked' = [linked EXCEPT ![q.e] = lk]
     /\ contractState' = [contractState EXCEPT ![q.e] =
                            IF cs = None THEN @ ELSE cs]
     /\ contracts' = [contracts EXCEPT ![q.e] =
                        IF cs # None /\ q.cs = None THEN @ + 1 ELSE @]
     /\ AddOutbox(q.e, <<name, es, cs>>, kinds)
     /\ Owe(r, <<name, es, cs>>, kinds)
  \/ /\ ~Recordable(q, prev, name, es, cs)
     /\ Finish(r)
     /\ UNCHANGED <<execState, linked, contractState, contracts, outbox>>

------------------------------------------------------------------------------
(* Reading the rows *)

PreSideEffect == {"Proposed", "Authorized", "Prepared", "AwaitingApproval"}

Claimable == {"Prepared", "Authorized", "Proposed"}

PrepareAccepts(es, lk) == es \in {"Authorized", "Prepared"}

CancelAccepts(es, lk) == es \in PreSideEffect

ExecuteAccepts(es, lk) == lk /\ es \in Claimable
ExecuteAcceptsPair(es, cs) == cs = "Prepared" /\ es \in Claimable

VerifyAccepts(es, lk) == lk /\ es \in {"Running", "AwaitingVerification"}
VerifyAcceptsPair(es, cs) ==
  cs = "ExecutedAwaitingVerify" /\ es \in {"Running", "AwaitingVerification"}

CommitAccepts(es, lk) == lk /\ es \notin ExecutionTerminal
CommitAcceptsPair(e, cs) ==
  /\ cs = "Verified"
  /\ ~autoCommit[e]
  /\ "SideEffectVerified" \in events[e]

CompensateAccepts(es, lk) ==
  lk /\ es \in {"Running", "AwaitingVerification", "RecoveryRequired"}
CompensateAcceptsPair(es, cs) ==
  \/ cs = "ExecutedAwaitingVerify" /\ es \in {"Running", "AwaitingVerification"}
  \/ cs = "RecoveryRequired" /\ es = "RecoveryRequired"

\* Mutant: the sweep forgets executions that were already claimed.
HAListsUnclaimed(es) == es \in PreSideEffect

\* list_stale_in_flight; elapsed time is abstracted, any execution may be stale.
HALists(es) == es \in PreSideEffect \cup {"Running"}

Accepts(op, es, lk) ==
  CASE op = "prepare"    -> PrepareAccepts(es, lk)
    [] op = "execute"    -> ExecuteAccepts(es, lk)
    [] op = "verify"     -> VerifyAccepts(es, lk)
    [] op = "commit"     -> CommitAccepts(es, lk)
    [] op = "cancel"     -> CancelAccepts(es, lk)
    [] op = "compensate" -> CompensateAccepts(es, lk)
    [] op = "ha"         -> HALists(es)
    [] OTHER             -> FALSE

AcceptsPair(op, e, es, cs) ==
  CASE op = "execute"    -> ExecuteAcceptsPair(es, cs)
    [] op = "verify"     -> VerifyAcceptsPair(es, cs)
    [] op = "commit"     -> CommitAcceptsPair(e, cs)
    [] op = "compensate" -> CompensateAcceptsPair(es, cs)
    [] op = "ha"         -> cs = "Prepared"
    [] OTHER             -> FALSE

\* Operations that never read the contract row.
NeedsContract(op, es) ==
  \/ op \in {"execute", "verify", "commit", "compensate"}
  \/ op = "ha" /\ es = "Running"

\* A handler reads the execution row.  A refused request changes nothing.
LoadExecution(r, op, e) ==
  /\ req[r].pc = "idle"
  /\ execState[e] # None
  /\ Accepts(op, execState[e], linked[e])
  /\ req' = [req EXCEPT ![r] =
       [Idle EXCEPT !.op = op, !.e = e, !.es = execState[e], !.lk = linked[e],
          !.pc = IF NeedsContract(op, execState[e]) THEN "loaded" ELSE "ready"]]
  /\ UNCHANGED <<rowVars, worldVars, outbox, events>>

\* It reads the contract row in a second query and tests the pair of states.
LoadContract(r) ==
  LET q == req[r] IN
  /\ q.pc = "loaded"
  /\ IF /\ contractState[q.e] # None
        /\ q.lk
        /\ AcceptsPair(q.op, q.e, q.es, contractState[q.e])
     THEN req' = [req EXCEPT ![r].pc = "ready", ![r].cs = contractState[q.e]]
     ELSE Finish(r)
  /\ UNCHANGED <<rowVars, worldVars, outbox, events>>

------------------------------------------------------------------------------
(* The handlers *)

\* POST /v1/executions/authorize: the transaction that consumes the capability
\* inserts the execution, Authorized for a dry run and Prepared otherwise.
Authorize(r, e) ==
  /\ req[r].pc = "idle"
  /\ execState[e] = None
  /\ \E s \in {"Authorized", "Prepared"} :
       /\ execState' = [execState EXCEPT ![e] = s]
       /\ AddOutbox(e, <<"authorize", s, None>>, <<"ActionProposalSubmitted">>)
       /\ req' = [req EXCEPT ![r] =
            [Idle EXCEPT !.op = "authorize", !.e = e, !.es = s,
               !.pc = "recorded", !.key = <<"authorize", s, None>>,
               !.owed = <<"ActionProposalSubmitted">>]]
  /\ UNCHANGED <<linked, contractState, autoCommit, contracts, worldVars,
                 events>>

\* Mutant: the contract id is not written to the execution row.
PrepareUnlinked(r) ==
  LET q == req[r] IN
  /\ q.pc = "ready" /\ q.op = "prepare"
  /\ RecordTransition(r, q.es, "prepare", q.es, "Prepared", q.lk,
                      <<"SideEffectPrepared", "ToolCallPrepared">>)
  /\ UNCHANGED <<autoCommit, worldVars, events>>

\* adapter.prepare has run; the contract is inserted and linked.
Prepare(r) ==
  LET q == req[r] IN
  /\ q.pc = "ready" /\ q.op = "prepare"
  /\ RecordTransition(r, q.es, "prepare", q.es, "Prepared", TRUE,
                      <<"SideEffectPrepared", "ToolCallPrepared">>)
  /\ \/ autoCommit' = autoCommit
     \/ /\ req'[r].pc = "recorded"
        /\ autoCommit' = [autoCommit EXCEPT ![q.e] = TRUE]
  /\ UNCHANGED <<worldVars, events>>

\* Mutant: the claim trusts the state that was read earlier.
ExecuteClaimStale(r) ==
  LET q == req[r] IN
  /\ q.pc = "ready" /\ q.op = "execute"
  /\ MinimumLineage \subseteq events[q.e]
  /\ q.es \in Claimable
  /\ execState' = [execState EXCEPT ![q.e] = "Running"]
  /\ req' = [req EXCEPT ![r].pc = "claimed"]
  /\ UNCHANGED <<linked, contractState, autoCommit, contracts, worldVars,
                 outbox, events>>

\* Mutant: no lineage check before the claim.
ExecuteClaimUnproven(r) ==
  LET q == req[r] IN
  /\ q.pc = "ready" /\ q.op = "execute"
  /\ execState[q.e] \in Claimable
  /\ execState' = [execState EXCEPT ![q.e] = "Running"]
  /\ req' = [req EXCEPT ![r].pc = "claimed"]
  /\ UNCHANGED <<linked, contractState, autoCommit, contracts, worldVars,
                 outbox, events>>

\* After the lineage check, compare_and_set_state claims the execution.
ExecuteClaim(r) ==
  LET q == req[r] IN
  /\ q.pc = "ready" /\ q.op = "execute"
  /\ \/ /\ MinimumLineage \subseteq events[q.e]
        /\ execState[q.e] \in Claimable
        /\ execState' = [execState EXCEPT ![q.e] = "Running"]
        /\ req' = [req EXCEPT ![r].pc = "claimed"]
     \/ /\ \/ ~(MinimumLineage \subseteq events[q.e])
           \/ execState[q.e] \notin Claimable
        /\ Finish(r)
        /\ UNCHANGED execState
  /\ UNCHANGED <<linked, contractState, autoCommit, contracts, worldVars,
                 outbox, events>>

\* adapter.execute.  Neither answer settles whether the effect took place: that
\* is what verify is for.
ExecuteAdapter(r) ==
  LET q == req[r] IN
  /\ q.pc = "claimed"
  /\ \E applied \in BOOLEAN, out \in {"Ok", "Err"} :
       /\ effect' = [effect EXCEPT ![q.e] = @ \/ applied]
       /\ req' = [req EXCEPT ![r].pc = "called", ![r].out = out]
  /\ executeCalls' = [executeCalls EXCEPT ![q.e] = @ + 1]
  /\ UNCHANGED <<rowVars, compensateCalled, misreported, outbox, events>>

ExecuteRecord(r) ==
  LET q == req[r] IN
  /\ q.pc = "called" /\ q.op = "execute"
  /\ \/ /\ q.out = "Ok"
        /\ RecordTransition(r, "Running", "execute", "AwaitingVerification",
                            "ExecutedAwaitingVerify", q.lk,
                            <<"ToolCallExecuted">>)
     \/ /\ q.out = "Err"
        /\ RecordTransition(r, "Running", "execute-recovery",
                            "RecoveryRequired", "RecoveryRequired", q.lk,
                            <<"ErrorRaised">>)
  /\ UNCHANGED <<autoCommit, worldVars, events>>

\* verify_with_outcome answers for the target system at that moment.  An adapter
\* may be wrong: what it checks is not always what the effect consists of.
VerifyAdapter(r) ==
  LET q == req[r] IN
  /\ q.pc = "ready" /\ q.op = "verify"
  /\ \E out \in {"Applied", "NotApplied", "Indeterminate"} :
       /\ req' = [req EXCEPT ![r].pc = "called", ![r].out = out]
       /\ misreported' = [misreported EXCEPT ![q.e] =
                            @ \/ (out = "Applied" /\ ~effect[q.e])]
  /\ UNCHANGED <<rowVars, effect, executeCalls, compensateCalled, outbox,
                 events>>

\* Mutant: an inconclusive verification passes for success.
VerifyRecordLenient(r) ==
  LET q == req[r] IN
  /\ q.pc = "called" /\ q.op = "verify"
  /\ RecordTransition(r, q.es, "verify", "Committed", "Verified", q.lk,
                      <<"SideEffectVerified", "SideEffectCommitted">>)
  /\ UNCHANGED <<autoCommit, worldVars, events>>

VerifyRecord(r) ==
  LET q == req[r] IN
  /\ q.pc = "called" /\ q.op = "verify"
  /\ \/ /\ q.out = "Applied" /\ autoCommit[q.e]
        /\ RecordTransition(r, q.es, "verify", "Committed", "Verified", q.lk,
                            <<"SideEffectVerified", "SideEffectCommitted">>)
     \/ /\ q.out = "Applied" /\ ~autoCommit[q.e]
        /\ RecordTransition(r, q.es, "verify", q.es, "Verified", q.lk,
                            <<"SideEffectVerified">>)
     \/ /\ q.out = "NotApplied"
        /\ RecordTransition(r, q.es, "verify", "Failed", "Failed", q.lk,
                            <<"SideEffectVerified">>)
     \/ /\ q.out = "Indeterminate"
        /\ RecordTransition(r, q.es, "verify-recovery", "RecoveryRequired",
                            "RecoveryRequired", q.lk, <<"ErrorRaised">>)
  /\ UNCHANGED <<autoCommit, worldVars, events>>

Commit(r) ==
  LET q == req[r] IN
  /\ q.pc = "ready" /\ q.op = "commit"
  /\ RecordTransition(r, q.es, "commit", "Committed", "Committed", q.lk,
                      <<"SideEffectCommitted">>)
  /\ UNCHANGED <<autoCommit, worldVars, events>>

\* The contract row is left alone.
Cancel(r) ==
  LET q == req[r] IN
  /\ q.pc = "ready" /\ q.op = "cancel"
  /\ RecordTransition(r, q.es, "cancel", "Canceled", None, q.lk,
                      <<"SideEffectRolledBack">>)
  /\ UNCHANGED <<autoCommit, worldVars, events>>

\* adapter.compensate runs before any row is written.  Whatever it answers the
\* effect may be gone or not; an adapter error ends the request.
CompensateAdapter(r) ==
  LET q == req[r] IN
  /\ q.pc = "ready" /\ q.op = "compensate"
  /\ compensateCalled' = [compensateCalled EXCEPT ![q.e] = TRUE]
  /\ \E still \in {FALSE, effect[q.e]} :
       /\ effect' = [effect EXCEPT ![q.e] = still]
       /\ \/ /\ req' = [req EXCEPT ![r].pc = "called", ![r].out = "Recovered"]
             /\ misreported' = [misreported EXCEPT ![q.e] = @ \/ still]
          \/ /\ req' = [req EXCEPT ![r].pc = "called", ![r].out = "Incomplete"]
             /\ UNCHANGED misreported
          \/ Finish(r) /\ UNCHANGED misreported
  /\ UNCHANGED <<rowVars, executeCalls, outbox, events>>

\* Mutant: every answer of the adapter is promoted to Compensated.
CompensateRecordPromoted(r) ==
  LET q == req[r] IN
  /\ q.pc = "called" /\ q.op = "compensate"
  /\ RecordTransition(r, q.es, "compensate", "Compensated", "Compensated",
                      q.lk, <<"SideEffectCompensated">>)
  /\ UNCHANGED <<autoCommit, worldVars, events>>

CompensateRecord(r) ==
  LET q == req[r]
      unrecovered ==
        IF q.es = "RecoveryRequired" THEN "RecoveryRequired" ELSE "Failed"
  IN
  /\ q.pc = "called" /\ q.op = "compensate"
  /\ \/ /\ q.out = "Recovered"
        /\ RecordTransition(r, q.es, "compensate", "Compensated",
                            "Compensated", q.lk, <<"SideEffectCompensated">>)
     \/ /\ q.out = "Incomplete"
        /\ RecordTransition(r, q.es, "compensate", unrecovered, unrecovered,
                            q.lk, <<"ErrorRaised">>)
  /\ UNCHANGED <<autoCommit, worldVars, events>>

------------------------------------------------------------------------------
(* The HA reconciler *)

\* Mutant: the sweep writes without comparing the state.
HACancelBlind(r) ==
  LET q == req[r] IN
  /\ q.pc = "ready" /\ q.op = "ha" /\ q.es \in PreSideEffect
  /\ execState' = [execState EXCEPT ![q.e] = "Canceled"]
  /\ Owe(r, NoKey, <<"ErrorRaised">>)
  /\ UNCHANGED <<linked, contractState, autoCommit, contracts, worldVars,
                 outbox, events>>

\* A stale execution without side effect is canceled by compare_and_set_state
\* alone; the ErrorRaised event is appended afterwards on a best-effort basis.
HACancel(r) ==
  LET q == req[r] IN
  /\ q.pc = "ready" /\ q.op = "ha" /\ q.es \in PreSideEffect
  /\ \/ /\ execState[q.e] = q.es
        /\ execState' = [execState EXCEPT ![q.e] = "Canceled"]
        /\ Owe(r, NoKey, <<"ErrorRaised">>)
     \/ /\ execState[q.e] # q.es
        /\ Finish(r)
        /\ UNCHANGED execState
  /\ UNCHANGED <<linked, contractState, autoCommit, contracts, worldVars,
                 outbox, events>>

\* A stale Running execution whose contract is still Prepared.
HARecover(r) ==
  LET q == req[r] IN
  /\ q.pc = "ready" /\ q.op = "ha" /\ q.es = "Running"
  /\ RecordTransition(r, "Running", "ha-recovery", "RecoveryRequired",
                      "RecoveryRequired", q.lk, <<"ErrorRaised">>)
  /\ UNCHANGED <<autoCommit, worldVars, events>>

------------------------------------------------------------------------------
(* Provenance and the end of a request *)

ParentOptional(q) ==
  \/ q.op = "cancel"
  \/ q.op = "compensate" /\ q.es = "RecoveryRequired"

\* The event is in the log; what is left is its mark.  The HA cancellation has
\* no record and ends here.
Appended(r) ==
  IF req[r].key = NoKey THEN Finish(r)
                        ELSE req' = [req EXCEPT ![r].pc = "appended"]

\* Mutant: a missing parent drops the event and the handler carries on.
EmitBestEffort(r) ==
  LET q == req[r] IN
  /\ q.pc = "recorded"
  /\ events' = [events EXCEPT ![q.e] = @ \cup
       {k \in {Head(q.owed)} : LineageParent(k) \in events[q.e] \cup {None}}]
  /\ Appended(r)
  /\ UNCHANGED <<rowVars, worldVars, outbox>>

\* append_governance_event: refused when the causal parent is missing.
Emit(r) ==
  LET q == req[r]
      k == Head(q.owed)
  IN
  /\ q.pc = "recorded"
  /\ \/ /\ LineageParent(k) \in events[q.e] \cup {None} \/ ParentOptional(q)
        /\ events' = [events EXCEPT ![q.e] = @ \cup {k}]
        /\ Appended(r)
     \/ /\ LineageParent(k) \notin events[q.e] \cup {None} /\ ~ParentOptional(q)
        /\ Finish(r)
        /\ UNCHANGED events
  /\ UNCHANGED <<rowVars, worldVars, outbox>>

\* mark_obligation_written: the status moves on with the first mark, whatever
\* else the record still owes.
Marked(o, k) ==
  [o EXCEPT !.marked = @ \cup {k}, !.status = "ProvenanceWritten"]

\* The handler marks the event that it has just appended and goes on to the
\* next one.  verify-recovery answers after its mark and reconciles nothing.
MarkObligation(r) ==
  LET q == req[r] IN
  /\ q.pc = "appended"
  /\ outbox' = [outbox EXCEPT ![q.e] =
       {IF o.key = q.key THEN Marked(o, Head(q.owed)) ELSE o : o \in @}]
  /\ \/ /\ Len(q.owed) > 1
        /\ req' = [req EXCEPT ![r].owed = Tail(q.owed), ![r].pc = "recorded"]
     \/ /\ Len(q.owed) = 1 /\ q.key[1] # "verify-recovery"
        /\ req' = [req EXCEPT ![r].owed = <<>>, ![r].pc = "written"]
     \/ /\ Len(q.owed) = 1 /\ q.key[1] = "verify-recovery"
        /\ Finish(r)
  /\ UNCHANGED <<rowVars, worldVars, events>>

\* mark_reconciled: refused while an obligation is not satisfied.
Reconciled(o) ==
  IF o.kinds \subseteq o.marked THEN [o EXCEPT !.status = "Reconciled"] ELSE o

\* The handler closes its own outbox record.
CloseOutbox(r) ==
  LET q == req[r] IN
  /\ q.pc = "written"
  /\ outbox' = [outbox EXCEPT ![q.e] =
       {IF o.key = q.key THEN Reconciled(o) ELSE o : o \in @}]
  /\ Finish(r)
  /\ UNCHANGED <<rowVars, worldVars, events>>

\* The process crashes, the connection drops or a store call fails: the
\* request is gone and its remaining steps never happen.  MaxOpen bounds the
\* records that dead requests leave unfinished.
Abort(r) ==
  LET open == {o \in outbox[req[r].e] : o.status # "Reconciled"} IN
  /\ req[r].pc # "idle"
  /\ req[r].key # NoKey => Cardinality(open) <= MaxOpen
  /\ Finish(r)
  /\ UNCHANGED <<rowVars, worldVars, outbox, events>>

------------------------------------------------------------------------------

HandlerOp ==
  {"prepare", "execute", "verify", "commit", "cancel", "compensate"}

Step(r) ==
  \/ LoadContract(r)
  \/ Prepare(r)
  \/ ExecuteClaim(r) \/ ExecuteAdapter(r) \/ ExecuteRecord(r)
  \/ VerifyAdapter(r) \/ VerifyRecord(r)
  \/ Commit(r)
  \/ Cancel(r)
  \/ CompensateAdapter(r) \/ CompensateRecord(r)
  \/ HACancel(r) \/ HARecover(r)
  \/ Emit(r) \/ MarkObligation(r) \/ CloseOutbox(r)

Next ==
  \/ \E r \in Request, e \in Execution : Authorize(r, e)
  \/ \E r \in Request, op \in HandlerOp, e \in Execution :
       LoadExecution(r, op, e)
  \/ \E w \in HAWorker, e \in Execution : LoadExecution(w, "ha", e)
  \/ \E r \in Slot : Step(r)
  \/ \E r \in Slot : Abort(r)

Spec == Init /\ [][Next]_vars

(***************************************************************************)
(* ha_reconciler loops for as long as the process lives, and every pass    *)
(* visits the stale executions one after the other.  Strong fairness says  *)
(* that a pass is not cut short by a crash at the same step for ever.      *)
(* Handlers get no fairness: a client may go away at any moment.           *)
(***************************************************************************)
HAFairness ==
  \A w \in HAWorker :
    /\ \A e \in Execution : SF_vars(LoadExecution(w, "ha", e))
    /\ SF_vars(LoadContract(w))
    /\ SF_vars(HACancel(w))
    /\ SF_vars(HARecover(w))
    /\ SF_vars(Emit(w))
    /\ SF_vars(MarkObligation(w))
    /\ SF_vars(CloseOutbox(w))

FairSpec == Spec /\ HAFairness

------------------------------------------------------------------------------
(* Properties *)

\* Every variable has its type.
TypeOK ==
  /\ execState \in [Execution -> ExecutionState \cup {None}]
  /\ linked \in [Execution -> BOOLEAN]
  /\ contractState \in [Execution -> RollbackState \cup {None}]
  /\ autoCommit \in [Execution -> BOOLEAN]
  /\ contracts \in [Execution -> Nat]
  /\ outbox \in [Execution -> SUBSET OutboxRecord]
  /\ events \in [Execution -> SUBSET EventKind]
  /\ effect \in [Execution -> BOOLEAN]
  /\ executeCalls \in [Execution -> Nat]
  /\ compensateCalled \in [Execution -> BOOLEAN]
  /\ misreported \in [Execution -> BOOLEAN]
  /\ req \in [Slot -> RequestRecord]

\* The pairs of execution and contract state that the paired transitions of
\* record_lifecycle_transition are meant to preserve.
LegalPair(es, cs) ==
  \/ es = None /\ cs = None
  \/ es \in {"Authorized", "Prepared", "Canceled"} /\ cs \in {None, "Prepared"}
  \/ es = "Running" /\ cs = "Prepared"
  \/ es = "AwaitingVerification" /\ cs \in {"ExecutedAwaitingVerify", "Verified"}
  \/ es = "Committed" /\ cs \in {"Verified", "Committed"}
  \/ es \in {"RecoveryRequired", "Failed", "Compensated"} /\ cs = es

\* Whatever handlers and reconcilers interleave and wherever they stop, the
\* execution row and its contract row never disagree about the lifecycle.
StatesPaired == \A e \in Execution : LegalPair(execState[e], contractState[e])

\* The adapter performs the side effect at most once per execution: the Running
\* claim admits one caller, and no later state can be claimed again.
ExecutedAtMostOnce == \A e \in Execution : executeCalls[e] <= 1

\* An execution that was canceled, by a client or by the HA reconciler, never
\* reached its adapter, even when the cancel raced an execute.
CanceledNeverExecuted ==
  \A e \in Execution : execState[e] = "Canceled" => executeCalls[e] = 0

\* Concurrent prepares insert one contract: the second one's key is taken.
OneContract == \A e \in Execution : contracts[e] <= 1

\* A live execution with a contract row points to it.  (A cancel that read the
\* row before prepare committed erases the pointer of a canceled execution.)
ContractLinked ==
  \A e \in Execution :
    contractState[e] # None /\ execState[e] # "Canceled" => linked[e]

\* No side effect without its recorded causes: the events that the lineage
\* check requires are in the log before the adapter is called.
EffectHasLineage ==
  \A e \in Execution :
    executeCalls[e] > 0 => MinimumLineage \subseteq events[e]

\* A committed execution was verified while its effect was in place, so the
\* effect is there unless an adapter was wrong or a compensation was asked for.
\* (One that was accepted before the verdict may undo it afterwards.)
CommittedApplied ==
  \A e \in Execution :
    execState[e] = "Committed" /\ ~compensateCalled[e] /\ ~misreported[e] =>
      effect[e]

\* A compensated execution has no effect left behind, unless an adapter was
\* wrong or the HA reconciler took the execution from a handler that was still
\* calling the adapter.
CompensatedUndone ==
  \A e \in Execution :
    /\ execState[e] = "Compensated"
    /\ \A o \in outbox[e] : o.key[1] # "ha-recovery"
    /\ ~misreported[e]
    => ~effect[e]

\* The lifecycle adds no falsehood of its own: an adapter is called before its
\* answer is recorded, other handlers run in between, and still the outcome
\* that is declared is true of the world whenever the adapters' answers were.
OutcomeMatchesEffect == CommittedApplied /\ CompensatedUndone

\* An obligation is marked only when its event is in the log, also between the
\* two events of prepare and of an auto-committing verify, where the record is
\* ProvenanceWritten already; and a reconciled record owes nothing.
ReconciledIsWritten ==
  \A e \in Execution : \A o \in outbox[e] :
    /\ o.marked \subseteq events[e]
    /\ o.status = "Reconciled" => o.kinds \subseteq events[e]

\* Every lifecycle state other than the Running claim and a cancellation was
\* written together with the outbox record that owes its provenance.
StateHasRecord ==
  \A e \in Execution :
    execState[e] \notin {None, "Running", "Canceled"} =>
      \E o \in outbox[e] : o.key[2] = execState[e]

\* A handler that comes to the end of its events has marked every obligation of
\* its record, so mark_reconciled never refuses it.
ListsAreComplete ==
  \A r \in Slot : req[r].pc = "written" =>
    \E o \in outbox[req[r].e] : o.key = req[r].key /\ o.kinds \subseteq o.marked

\* Crashes lose no provenance debt, wherever between two events and their marks
\* they come: every state has the record that owes its events, what the record
\* says is written is in the log, it is not closed before everything is, and a
\* handler that is not cut short does close it.
DebtsRecorded == ReconciledIsWritten /\ StateHasRecord /\ ListsAreComplete

\* Executions move only along the matrix of the store seam, also on the two
\* paths that bypass it (the Running claim and the HA cancellation).
MovesAreValid ==
  [][\A e \in Execution :
       execState'[e] = execState[e] \/ execState[e] = None
         \/ IsValidExecutionTransition(execState[e], execState'[e])]_vars

\* So do contracts, although a handler validates the move against a state that
\* it read before it called the adapter.
ContractMovesAreValid ==
  [][\A e \in Execution :
       contractState'[e] = contractState[e] \/ contractState[e] = None
         \/ IsValidRollbackTransition(contractState[e], contractState'[e])]_vars

\* With the HA reconciler on, an execution left Running by a dead handler is
\* eventually moved on.
RunningResolves ==
  \A e \in Execution : execState[e] = "Running" ~> execState[e] # "Running"

\* The idempotency keys of the answers an execution is still waiting for.
AwaitedKeys(es, cs) ==
  CASE cs = "Prepared" /\ es = "Running" ->
         {<<"execute", "AwaitingVerification", "ExecutedAwaitingVerify">>,
          <<"execute-recovery", "RecoveryRequired", "RecoveryRequired">>}
    [] cs = "ExecutedAwaitingVerify" ->
         {<<"verify", "Committed", "Verified">>, <<"verify", es, "Verified">>,
          <<"verify", "Failed", "Failed">>,
          <<"verify-recovery", "RecoveryRequired", "RecoveryRequired">>,
          <<"compensate", "Compensated", "Compensated">>,
          <<"compensate", "Failed", "Failed">>}
    [] cs = "Verified" /\ es = "AwaitingVerification" ->
         {<<"commit", "Committed", "Committed">>}
    [] cs = "RecoveryRequired" ->
         {<<"compensate", "Compensated", "Compensated">>}
    [] OTHER -> {}

\* Retries never lock an execution out: whatever was attempted before, the key
\* of every answer that would move it on is still free.  (The one key that is
\* used up is that of a second incomplete compensation, which moves nothing.)
AnswersStayRecordable ==
  \A e \in Execution : \A k \in AwaitedKeys(execState[e], contractState[e]) :
    KeyIsFree(e, k)

------------------------------------------------------------------------------
(* The abstract specification *)

PhaseOf(es) ==
  CASE es = None -> "absent"
    [] es \in PreSideEffect -> "pending"
    [] es = "Canceled" -> "withdrawn"
    [] es \in {"Running", "AwaitingVerification"} -> "active"
    [] es = "RecoveryRequired" -> "recovery"
    [] es = "Committed" -> "committed"
    [] es = "Compensated" -> "undone"
    [] OTHER -> "failed"

Effect == INSTANCE GovernedEffect WITH
  phase <- [e \in Execution |-> PhaseOf(execState[e])],
  acted <- [e \in Execution |-> executeCalls[e] > 0],
  inPlace <- effect

\* The handlers and the HA reconciler implement the governed effect: they may
\* interleave and die anywhere, seen from outside the effect is performed at
\* most once, after the claim, and no outcome is declared before it or revised.
ImplementsGovernedEffect == Effect!Spec
==============================================================================
