----------------------- MODULE ExecutionLifecycleProofs -----------------------
(***************************************************************************)
(* Proofs about ExecutionLifecycle for every set of executions, request    *)
(* slots and HA workers.                                                   *)
(***************************************************************************)
EXTENDS ExecutionLifecycle, TLAPS

------------------------------------------------------------------------------
(* What a busy slot may hold *)

\* A slot at a program point holds an execution, values its operation accepted
\* when it read them, and events that it owes while it is appending them.
RequestOK(q) ==
  /\ q.pc # "idle" => q.e \in Execution
  /\ q.pc \in {"recorded", "appended"} => q.owed # <<>>
  /\ q.pc = "claimed" => q.op = "execute"
  /\ q.pc = "called" => q.op \in {"execute", "verify", "compensate"}
  /\ q.pc \in {"loaded", "ready", "claimed", "called"} =>
       /\ q.op \in {"execute", "verify", "commit", "compensate"} => q.lk
       /\ q.op = "execute" => q.es \in Claimable
       /\ q.op = "verify" => q.es \in {"Running", "AwaitingVerification"}
       /\ q.op = "commit" => q.es \notin ExecutionTerminal
       /\ q.op = "compensate" =>
            q.es \in {"Running", "AwaitingVerification", "RecoveryRequired"}
       /\ q.op = "ha" => q.es \in PreSideEffect \cup {"Running"}
       /\ q.es # None
  /\ q.pc = "loaded" => q.cs = None /\ NeedsContract(q.op, q.es)
  /\ q.pc \in {"ready", "claimed", "called"} =>
       /\ q.op = "prepare" => q.es \in {"Authorized", "Prepared"} /\ q.cs = None
       /\ q.op = "cancel" => q.es \in PreSideEffect /\ q.cs = None
       /\ q.op = "execute" => q.cs = "Prepared"
       /\ q.op = "verify" => q.cs = "ExecutedAwaitingVerify"
       /\ q.op = "commit" => q.cs = "Verified"
       /\ q.op = "compensate" =>
            q.cs \in {"ExecutedAwaitingVerify", "RecoveryRequired"}
       /\ q.op = "ha" /\ q.es = "Running" => q.cs = "Prepared" /\ q.lk

RequestsOK == \A r \in Slot : RequestOK(req[r])

\* Idle is a request record that satisfies RequestOK.
LEMMA IdleIsRequest == Idle \in RequestRecord /\ RequestOK(Idle)
BY DEF Idle, RequestRecord, RequestOK, ProgramPoint, Operation, Outcome, None, NoKey

\* Writing one good request keeps all requests good.
LEMMA SlotUpdate ==
  ASSUME req \in [Slot -> RequestRecord], RequestsOK,
         NEW r \in Slot, NEW q \in RequestRecord, RequestOK(q),
         req' = [req EXCEPT ![r] = q]
  PROVE  req' \in [Slot -> RequestRecord] /\ RequestsOK'
<1>1. req' \in [Slot -> RequestRecord]
  OBVIOUS
<1>2. \A s \in Slot : req'[s] = IF s = r THEN q ELSE req[s]
  OBVIOUS
<1>3. \A s \in Slot : RequestOK(req'[s])
  BY <1>2 DEF RequestsOK
<1>4. RequestsOK'
  BY <1>3 DEF RequestsOK, RequestOK
<1> QED BY <1>1, <1>4

\* A request that ends leaves all requests good.
LEMMA FinishOK ==
  ASSUME req \in [Slot -> RequestRecord], RequestsOK, NEW r \in Slot, Finish(r)
  PROVE  req' \in [Slot -> RequestRecord] /\ RequestsOK'
BY IdleIsRequest, SlotUpdate DEF Finish

\* The parts of a list of events that is not empty.
LEMMA OwedParts ==
  ASSUME NEW s \in Seq(EventKind), s # <<>>
  PROVE  /\ Len(s) \in Nat /\ Len(s) > 0
         /\ Head(s) \in EventKind /\ Tail(s) \in Seq(EventKind)
         /\ Len(s) > 1 => Tail(s) # <<>>
<1>1. Len(s) \in Nat /\ Len(s) > 0
  OBVIOUS
<1>2. Head(s) \in EventKind
  BY <1>1
<1>3. Tail(s) \in Seq(EventKind)
  BY <1>1
<1>4. PICK n : n = Len(Tail(s))
  OBVIOUS
<1>5. Tail(s) = <<>> => n = 0
  <2>0. Len(<<>>) = 0
    OBVIOUS
  <2> QED BY <1>4, <2>0, Zenon
<1>6. PICK m \in Nat : m = Len(s)
  BY <1>1
<1>7. n = m - 1
  <2>1. Len(Tail(s)) = Len(s) - 1
    BY <1>1
  <2> QED BY <1>4, <1>6, <2>1, Zenon
<1>8. m > 1 => n # 0
  BY <1>7
<1> QED BY <1>1, <1>2, <1>3, <1>5, <1>6, <1>8, Zenon

\* Slot r writes its own outbox record back.
Amends(r) == MarkObligation(r) \/ CloseOutbox(r)

\* Record p of execution f is what such a write makes of record o.
AmendedFrom(r, f, o, p) ==
  /\ p.key = o.key /\ p.kinds = o.kinds
  /\ o.marked \subseteq p.marked
  /\ \/ p.marked = o.marked
     \/ /\ f = req[r].e /\ req[r].pc = "appended"
        /\ p.marked = o.marked \cup {Head(req[r].owed)}
  /\ f = req[r].e /\ req[r].pc = "appended" /\ o.key = req[r].key =>
       Head(req[r].owed) \in p.marked
  /\ p.status = "Reconciled" =>
       o.status = "Reconciled" \/ o.kinds \subseteq o.marked

\* What such a write does to the records: they keep their keys and obligations,
\* the marks grow by the event just appended, and only a record whose
\* obligations are all marked becomes reconciled.
LEMMA RecordsAmended ==
  ASSUME TypeOK, RequestsOK, NEW r \in Slot, Amends(r)
  PROVE  /\ req[r].e \in Execution
         /\ UNCHANGED <<rowVars, worldVars, events>>
         /\ outbox' \in [Execution -> SUBSET OutboxRecord]
         /\ \A f \in Execution :
              /\ \A o \in outbox[f] : \E p \in outbox'[f] : p.key = o.key
              /\ \A p \in outbox'[f] : \E o \in outbox[f] : p.key = o.key
              /\ \A p \in outbox'[f] : \E o \in outbox[f] :
                   AmendedFrom(r, f, o, p)
<1>0. /\ req[r].pc \in {"appended", "written"}
      /\ UNCHANGED <<rowVars, worldVars, events>>
  BY DEF Amends, MarkObligation, CloseOutbox
<1>1. PICK e \in Execution : e = req[r].e
  BY <1>0 DEF RequestsOK, RequestOK
<1>2. PICK h : h = Head(req[r].owed)
  OBVIOUS
<1>3. PICK k : k = req[r].key
  OBVIOUS
<1>4. req[r].pc = "appended" => h \in EventKind
  BY <1>2, OwedParts DEF RequestsOK, RequestOK, TypeOK, RequestRecord
<1> DEFINE Good(f, o, p) ==
             /\ p \in OutboxRecord
             /\ p.key = o.key /\ p.kinds = o.kinds
             /\ o.marked \subseteq p.marked
             /\ \/ p.marked = o.marked
                \/ /\ f = e /\ req[r].pc = "appended"
                   /\ p.marked = o.marked \cup {h}
             /\ f = e /\ req[r].pc = "appended" /\ o.key = k => h \in p.marked
             /\ p.status = "Reconciled" =>
                  o.status = "Reconciled" \/ o.kinds \subseteq o.marked
<1> DEFINE Mark(o) == IF o.key = k THEN Marked(o, h) ELSE o
           Close(o) == IF o.key = k THEN Reconciled(o) ELSE o
<1>5. ASSUME NEW f \in Execution
      PROVE  /\ \A o \in outbox[f] : \E p \in outbox'[f] : Good(f, o, p)
             /\ \A p \in outbox'[f] : \E o \in outbox[f] : Good(f, o, p)
  <2>0. \A o \in outbox[f] : o \in OutboxRecord
    BY DEF TypeOK
  <2>1. CASE f # e
    <3>1. outbox'[f] = outbox[f]
      BY <1>1, <2>1 DEF Amends, MarkObligation, CloseOutbox, TypeOK
    <3>2. \A o \in outbox[f] : Good(f, o, o)
      BY <2>0, <2>1
    <3> HIDE DEF Good
    <3> QED BY <3>1, <3>2
  <2>2. CASE f = e /\ MarkObligation(r)
    <3>1. outbox'[f] = {Mark(o) : o \in outbox[f]}
      BY <1>1, <1>2, <1>3, <2>2 DEF MarkObligation, TypeOK
    <3>2. req[r].pc = "appended"
      BY <2>2 DEF MarkObligation
    <3>3. ASSUME NEW o \in OutboxRecord PROVE Good(f, o, Mark(o))
      <4>1. CASE o.key = k
        <5>1. /\ Marked(o, h) \in OutboxRecord
              /\ Marked(o, h).key = o.key /\ Marked(o, h).kinds = o.kinds
              /\ Marked(o, h).marked = o.marked \cup {h}
              /\ Marked(o, h).status = "ProvenanceWritten"
          BY <1>4, <3>2 DEF Marked, OutboxRecord, OutboxStatus
        <5> QED BY <2>2, <3>2, <4>1, <5>1
      <4>2. CASE o.key # k
        BY <4>2
      <4> QED BY <4>1, <4>2
    <3> HIDE DEF Good, Mark
    <3> QED BY <2>0, <3>1, <3>3
  <2>3. CASE f = e /\ CloseOutbox(r)
    <3>1. outbox'[f] = {Close(o) : o \in outbox[f]}
      BY <1>1, <1>3, <2>3 DEF CloseOutbox, TypeOK
    <3>2. req[r].pc = "written"
      BY <2>3 DEF CloseOutbox
    <3>3. ASSUME NEW o \in OutboxRecord PROVE Good(f, o, Close(o))
      <4>1. CASE o.key = k /\ o.kinds \subseteq o.marked
        BY <3>2, <4>1 DEF Reconciled, OutboxRecord, OutboxStatus
      <4>2. CASE ~(o.key = k /\ o.kinds \subseteq o.marked)
        <5>1. Close(o) = o
          BY <4>2 DEF Reconciled
        <5> QED BY <3>2, <5>1
      <4> QED BY <4>1, <4>2
    <3> HIDE DEF Good, Close
    <3> QED BY <2>0, <3>1, <3>3
  <2> QED BY <2>1, <2>2, <2>3 DEF Amends
<1>6. outbox' \in [Execution -> SUBSET OutboxRecord]
  <2>1. \A f \in Execution : outbox'[f] \subseteq OutboxRecord
    BY <1>5
  <2>2. PICK S : outbox' = [outbox EXCEPT ![e] = S]
    BY <1>1 DEF Amends, MarkObligation, CloseOutbox, TypeOK
  <2>3. outbox'[e] = S
    BY <2>2 DEF TypeOK
  <2> QED BY <2>1, <2>2, <2>3 DEF TypeOK
<1>7. \A f, o, p : Good(f, o, p) => AmendedFrom(r, f, o, p) /\ p.key = o.key
  BY <1>1, <1>2, <1>3 DEF AmendedFrom
<1> HIDE DEF Good
<1> QED BY <1>0, <1>1, <1>5, <1>6, <1>7

\* What it does to the requests: the others keep theirs, and its own ends or
\* goes on with the events that are left.
LEMMA RequestsAmended ==
  ASSUME TypeOK, RequestsOK, NEW r \in Slot, Amends(r)
  PROVE  \/ Finish(r)
         \/ /\ req[r].pc = "appended"
            /\ \A s \in Slot \ {r} : req'[s] = req[s]
            /\ req'[r].e = req[r].e /\ req'[r].cs = req[r].cs
            /\ req'[r].key = req[r].key
            /\ \/ /\ req'[r].pc = "recorded" /\ Len(req[r].owed) > 1
                  /\ req'[r].owed = Tail(req[r].owed)
               \/ /\ req'[r].pc = "written" /\ Len(req[r].owed) = 1
                  /\ req'[r].owed = <<>>
<1>1. CASE Finish(r)
  BY <1>1
<1>2. CASE /\ req[r].pc = "appended" /\ Len(req[r].owed) > 1
           /\ req' = [req EXCEPT ![r].owed = Tail(req[r].owed), ![r].pc = "recorded"]
  BY <1>2 DEF TypeOK, RequestRecord
<1>3. CASE /\ req[r].pc = "appended" /\ Len(req[r].owed) = 1
           /\ req' = [req EXCEPT ![r].owed = <<>>, ![r].pc = "written"]
  BY <1>3 DEF TypeOK, RequestRecord
<1> QED BY <1>1, <1>2, <1>3 DEF Amends, MarkObligation, CloseOutbox

------------------------------------------------------------------------------
(* The store transaction, once for all handlers *)

RecordAction(r) ==
  \/ Prepare(r) \/ ExecuteRecord(r) \/ VerifyRecord(r) \/ Commit(r)
  \/ Cancel(r) \/ CompensateRecord(r) \/ HARecover(r)

\* The writes that the handlers ask record_lifecycle_transition for: an insert
\* of the contract, a paired move to a state reached only after the claim, or a
\* cancellation that leaves the contract alone.
Prepares(q, prev, name, es, cs, lk) ==
  /\ name = "prepare" /\ prev = es /\ es \in {"Authorized", "Prepared"}
  /\ cs = "Prepared" /\ q.cs = None /\ lk

Advances(q, prev, name, es, cs, lk) ==
  /\ name # "prepare" /\ q.cs # None /\ lk
  /\ \/ es \in {"RecoveryRequired", "Failed", "Compensated"} /\ cs = es
     \/ es = "AwaitingVerification" /\ cs = "ExecutedAwaitingVerify"
     \/ es = "Committed" /\ cs \in {"Verified", "Committed"}
     \/ /\ es = prev /\ es \in {"Running", "AwaitingVerification"}
        /\ q.cs = "ExecutedAwaitingVerify" /\ cs = "Verified"

Cancels(q, prev, name, es, cs, lk) ==
  name = "cancel" /\ prev \in PreSideEffect /\ es = "Canceled" /\ cs = None

LegalRecord(q, prev, name, es, cs, lk, kinds) ==
  /\ name \in TransitionName /\ es \in ExecutionState
  /\ cs \in RollbackState \cup {None} /\ lk \in BOOLEAN
  /\ kinds \in Seq(EventKind) /\ kinds # <<>>
  /\ \/ Prepares(q, prev, name, es, cs, lk)
     \/ Advances(q, prev, name, es, cs, lk)
     \/ Cancels(q, prev, name, es, cs, lk)

\* Lists of one or two events are lists of events, and not empty.
LEMMA EventLists ==
  ASSUME NEW k \in EventKind, NEW l \in EventKind
  PROVE  /\ <<k>> \in Seq(EventKind) /\ <<k>> # <<>>
         /\ <<k, l>> \in Seq(EventKind) /\ <<k, l>> # <<>>
OBVIOUS

\* The kinds that handlers owe are event kinds.
LEMMA EventKinds ==
  /\ "SideEffectPrepared" \in EventKind /\ "ToolCallPrepared" \in EventKind
  /\ "ToolCallExecuted" \in EventKind /\ "ErrorRaised" \in EventKind
  /\ "SideEffectVerified" \in EventKind /\ "SideEffectCommitted" \in EventKind
  /\ "SideEffectCompensated" \in EventKind
  /\ "SideEffectRolledBack" \in EventKind
BY DEF EventKind

\* Every handler that writes a transition asks for a legal one.
LEMMA RecordActionIsLegal ==
  ASSUME TypeOK, RequestsOK, NEW r \in Slot, RecordAction(r)
  PROVE  \E prev, name, es, cs, lk, kinds :
           /\ LegalRecord(req[r], prev, name, es, cs, lk, kinds)
           /\ RecordTransition(r, prev, name, es, cs, lk, kinds)
<1> DEFINE q == req[r]
<1>0. q \in RequestRecord /\ RequestOK(q)
  BY DEF TypeOK, RequestsOK
<1> USE <1>0
<1> HIDE DEF q
<1>1. CASE Prepare(r)
  <2>1. LegalRecord(q, q.es, "prepare", q.es, "Prepared", TRUE,
                    <<"SideEffectPrepared", "ToolCallPrepared">>)
    BY <1>1, EventKinds, EventLists DEF q, Prepare, RequestOK, LegalRecord,
       Prepares, TransitionName, ExecutionState, RollbackState
  <2> QED BY <1>1, <2>1 DEF q, Prepare
<1>2. CASE ExecuteRecord(r)
  <2>1. q.op = "execute" /\ q.pc = "called" /\ q.lk = TRUE /\ q.cs # None
    BY <1>2 DEF q, ExecuteRecord, RequestOK, RequestRecord, None
  <2>2. LegalRecord(q, "Running", "execute", "AwaitingVerification",
                    "ExecutedAwaitingVerify", q.lk, <<"ToolCallExecuted">>)
    BY <2>1, EventKinds, EventLists DEF LegalRecord, Advances, TransitionName,
       ExecutionState, RollbackState
  <2>3. LegalRecord(q, "Running", "execute-recovery", "RecoveryRequired",
                    "RecoveryRequired", q.lk, <<"ErrorRaised">>)
    BY <2>1, EventKinds, EventLists DEF LegalRecord, Advances, TransitionName,
       ExecutionState, RollbackState
  <2> QED BY <1>2, <2>2, <2>3 DEF q, ExecuteRecord
<1>3. CASE VerifyRecord(r)
  <2>1. /\ q.op = "verify" /\ q.pc = "called" /\ q.lk = TRUE
        /\ q.cs = "ExecutedAwaitingVerify" /\ q.cs # None
        /\ q.es \in {"Running", "AwaitingVerification"}
    BY <1>3 DEF q, VerifyRecord, RequestOK, RequestRecord, None
  <2>2. LegalRecord(q, q.es, "verify", "Committed", "Verified", q.lk,
                    <<"SideEffectVerified", "SideEffectCommitted">>)
    BY <2>1, EventKinds, EventLists DEF LegalRecord, Advances, TransitionName,
       ExecutionState, RollbackState
  <2>3. LegalRecord(q, q.es, "verify", q.es, "Verified", q.lk,
                    <<"SideEffectVerified">>)
    BY <2>1, EventKinds, EventLists DEF LegalRecord, Advances, TransitionName,
       ExecutionState, RollbackState
  <2>4. LegalRecord(q, q.es, "verify", "Failed", "Failed", q.lk,
                    <<"SideEffectVerified">>)
    BY <2>1, EventKinds, EventLists DEF LegalRecord, Advances, TransitionName,
       ExecutionState, RollbackState
  <2>5. LegalRecord(q, q.es, "verify-recovery", "RecoveryRequired",
                    "RecoveryRequired", q.lk, <<"ErrorRaised">>)
    BY <2>1, EventKinds, EventLists DEF LegalRecord, Advances, TransitionName,
       ExecutionState, RollbackState
  <2> QED BY <1>3, <2>2, <2>3, <2>4, <2>5 DEF q, VerifyRecord
<1>4. CASE Commit(r)
  <2>1. q.op = "commit" /\ q.pc = "ready" /\ q.lk = TRUE /\ q.cs # None
    BY <1>4 DEF q, Commit, RequestOK, RequestRecord, None
  <2>2. LegalRecord(q, q.es, "commit", "Committed", "Committed", q.lk,
                    <<"SideEffectCommitted">>)
    BY <2>1, EventKinds, EventLists DEF LegalRecord, Advances, TransitionName,
       ExecutionState, RollbackState
  <2> QED BY <1>4, <2>2 DEF q, Commit
<1>5. CASE Cancel(r)
  <2>1. LegalRecord(q, q.es, "cancel", "Canceled", None, q.lk,
                    <<"SideEffectRolledBack">>)
    BY <1>5, EventKinds, EventLists DEF q, Cancel, RequestOK, RequestRecord,
       LegalRecord, Cancels, TransitionName, ExecutionState
  <2> QED BY <1>5, <2>1 DEF q, Cancel
<1>6. CASE CompensateRecord(r)
  <2>1. q.op = "compensate" /\ q.pc = "called" /\ q.lk = TRUE /\ q.cs # None
    BY <1>6 DEF q, CompensateRecord, RequestOK, RequestRecord, None
  <2>2. LegalRecord(q, q.es, "compensate", "Compensated", "Compensated", q.lk,
                    <<"SideEffectCompensated">>)
    BY <2>1, EventKinds, EventLists DEF LegalRecord, Advances, TransitionName,
       ExecutionState, RollbackState
  <2>3. \A s \in {"RecoveryRequired", "Failed"} :
          LegalRecord(q, q.es, "compensate", s, s, q.lk, <<"ErrorRaised">>)
    BY <2>1, EventKinds, EventLists DEF LegalRecord, Advances, TransitionName,
       ExecutionState, RollbackState
  <2> QED BY <1>6, <2>2, <2>3 DEF q, CompensateRecord
<1>7. CASE HARecover(r)
  <2>1. q.op = "ha" /\ q.pc = "ready" /\ q.lk = TRUE /\ q.cs # None
    BY <1>7 DEF q, HARecover, RequestOK, RequestRecord, None
  <2>2. LegalRecord(q, "Running", "ha-recovery", "RecoveryRequired",
                    "RecoveryRequired", q.lk, <<"ErrorRaised">>)
    BY <2>1, EventKinds, EventLists DEF LegalRecord, Advances, TransitionName,
       ExecutionState, RollbackState
  <2> QED BY <1>7, <2>2 DEF q, HARecover
<1> QED BY <1>1, <1>2, <1>3, <1>4, <1>5, <1>6, <1>7 DEF RecordAction, q

\* What a legal transaction does to the rows and to the request.
LEMMA RecordEffect ==
  ASSUME TypeOK, RequestsOK, NEW r \in Slot, req[r].e \in Execution,
         NEW prev, NEW name, NEW es, NEW cs, NEW lk, NEW kinds,
         LegalRecord(req[r], prev, name, es, cs, lk, kinds),
         RecordTransition(r, prev, name, es, cs, lk, kinds)
  PROVE  /\ execState' \in [Execution -> ExecutionState \cup {None}]
         /\ linked' \in [Execution -> BOOLEAN]
         /\ contractState' \in [Execution -> RollbackState \cup {None}]
         /\ contracts' \in [Execution -> Nat]
         /\ outbox' \in [Execution -> SUBSET OutboxRecord]
         /\ req' \in [Slot -> RequestRecord]
         /\ RequestsOK'
<1> DEFINE q == req[r]
<1>0. q \in RequestRecord /\ RequestOK(q) /\ q.e \in Execution
  BY DEF TypeOK, RequestsOK
<1>1. CASE Recordable(q, prev, name, es, cs)
  <2>0. /\ name \in TransitionName /\ es \in ExecutionState
        /\ cs \in RollbackState \cup {None} /\ lk \in BOOLEAN
        /\ kinds \in Seq(EventKind) /\ kinds # <<>>
    BY DEF LegalRecord
  <2>1. /\ execState' = [execState EXCEPT ![q.e] = es]
        /\ linked' = [linked EXCEPT ![q.e] = lk]
        /\ contractState' = [contractState EXCEPT ![q.e] =
                               IF cs = None THEN @ ELSE cs]
        /\ contracts' = [contracts EXCEPT ![q.e] =
                           IF cs # None /\ q.cs = None THEN @ + 1 ELSE @]
        /\ AddOutbox(q.e, <<name, es, cs>>, kinds)
        /\ Owe(r, <<name, es, cs>>, kinds)
    BY <1>1 DEF RecordTransition
  <2>2. <<name, es, cs>> \in Key
    BY <2>0 DEF Key
  <2>3. [key |-> <<name, es, cs>>, kinds |-> {kinds[i] : i \in 1..Len(kinds)},
         marked |-> {}, status |-> "PendingProvenance"] \in OutboxRecord
    <3>1. {kinds[i] : i \in 1..Len(kinds)} \subseteq EventKind
      BY <2>0
    <3> QED BY <3>1, <2>2 DEF OutboxRecord, OutboxStatus
  <2>4. outbox' \in [Execution -> SUBSET OutboxRecord]
    BY <2>1, <2>3 DEF TypeOK, AddOutbox
  <2>5. execState' \in [Execution -> ExecutionState \cup {None}]
    BY <2>0, <2>1 DEF TypeOK
  <2>6. linked' \in [Execution -> BOOLEAN]
    BY <2>0, <2>1 DEF TypeOK
  <2>7. contractState' \in [Execution -> RollbackState \cup {None}]
    BY <2>0, <2>1, <1>0 DEF TypeOK
  <2>8. contracts' \in [Execution -> Nat]
    BY <2>1, <1>0 DEF TypeOK
  <2> DEFINE q2 == [q EXCEPT !.pc = "recorded", !.owed = kinds,
                             !.key = <<name, es, cs>>]
  <2>9. q2 \in RequestRecord /\ RequestOK(q2)
    BY <1>0, <2>0, <2>2 DEF RequestRecord, RequestOK, ProgramPoint
  <2>10. req' = [req EXCEPT ![r] = q2]
    BY <2>1 DEF Owe, TypeOK
  <2>11. req' \in [Slot -> RequestRecord] /\ RequestsOK'
    BY <2>9, <2>10, SlotUpdate DEF TypeOK
  <2> QED BY <2>4, <2>5, <2>6, <2>7, <2>8, <2>11
<1>2. CASE ~Recordable(q, prev, name, es, cs)
  <2>1. Finish(r) /\ UNCHANGED <<execState, linked, contractState, contracts, outbox>>
    BY <1>2 DEF RecordTransition
  <2> QED BY <2>1, FinishOK DEF TypeOK
<1> QED BY <1>1, <1>2

\* The initial state is typed and every slot is idle.
LEMMA TypeInit == Init => TypeOK /\ RequestsOK
BY IdleIsRequest DEF Init, TypeOK, RequestsOK, None, Slot

\* Every step keeps the types and what the busy slots hold.
LEMMA TypeStep == TypeOK /\ RequestsOK /\ [Next]_vars => TypeOK' /\ RequestsOK'
<1> SUFFICES ASSUME TypeOK, RequestsOK, [Next]_vars PROVE TypeOK' /\ RequestsOK'
  OBVIOUS
<1>1. ASSUME NEW r \in Request, NEW e \in Execution, Authorize(r, e)
      PROVE  TypeOK' /\ RequestsOK'
  <2>1. PICK s \in {"Authorized", "Prepared"} :
       /\ execState' = [execState EXCEPT ![e] = s]
       /\ AddOutbox(e, <<"authorize", s, None>>, <<"ActionProposalSubmitted">>)
       /\ req' = [req EXCEPT ![r] =
            [Idle EXCEPT !.op = "authorize", !.e = e, !.es = s,
               !.pc = "recorded", !.key = <<"authorize", s, None>>,
               !.owed = <<"ActionProposalSubmitted">>]]
    BY <1>1 DEF Authorize
  <2>2. s \in ExecutionState /\ <<"authorize", s, None>> \in Key
    BY DEF ExecutionState, Key, TransitionName
  <2> DEFINE q2 == [Idle EXCEPT !.op = "authorize", !.e = e, !.es = s,
               !.pc = "recorded", !.key = <<"authorize", s, None>>,
               !.owed = <<"ActionProposalSubmitted">>]
  <2>3. q2 \in RequestRecord /\ RequestOK(q2)
    BY <2>2, EventLists DEF Idle, RequestRecord, RequestOK, ProgramPoint,
       Operation, Outcome, EventKind
  <2>4. req' \in [Slot -> RequestRecord] /\ RequestsOK'
    BY <2>1, <2>3, SlotUpdate DEF TypeOK, Slot
  <2> DEFINE kinds == <<"ActionProposalSubmitted">>
             o == [key |-> <<"authorize", s, None>>,
                   kinds |-> {kinds[i] : i \in 1..Len(kinds)},
                   marked |-> {}, status |-> "PendingProvenance"]
  <2>5. o \in OutboxRecord
    BY <2>2 DEF OutboxRecord, OutboxStatus, EventKind
  <2>6. outbox' \in [Execution -> SUBSET OutboxRecord]
    BY <2>1, <2>5 DEF TypeOK, AddOutbox
  <2>7. execState' \in [Execution -> ExecutionState \cup {None}]
    BY <2>1, <2>2 DEF TypeOK
  <2> QED BY <1>1, <2>4, <2>6, <2>7 DEF Authorize, TypeOK, worldVars
<1>2. ASSUME NEW r \in Slot, NEW op \in HandlerOp \cup {"ha"},
             NEW e \in Execution, LoadExecution(r, op, e)
      PROVE  TypeOK' /\ RequestsOK'
  <2> DEFINE q2 == [Idle EXCEPT !.op = op, !.e = e, !.es = execState[e],
       !.lk = linked[e],
       !.pc = IF NeedsContract(op, execState[e]) THEN "loaded" ELSE "ready"]
  <2>0. /\ op \in Operation /\ linked[e] \in BOOLEAN
        /\ execState[e] \in ExecutionState \cup {None}
        /\ (IF NeedsContract(op, execState[e]) THEN "loaded" ELSE "ready")
             \in ProgramPoint
    BY DEF TypeOK, HandlerOp, Operation, ProgramPoint
  <2>1. q2 \in RequestRecord
    BY <2>0, IdleIsRequest DEF Idle, RequestRecord
  <2>2. execState[e] # None /\ Accepts(op, execState[e], linked[e])
    BY <1>2 DEF LoadExecution
  <2>3. RequestOK(q2)
    BY <2>2 DEF TypeOK, Idle, RequestOK, HandlerOp, Accepts, NeedsContract,
       PrepareAccepts, ExecuteAccepts, VerifyAccepts, CommitAccepts,
       CancelAccepts, CompensateAccepts, HALists
  <2>4. req' \in [Slot -> RequestRecord] /\ RequestsOK'
    BY <1>2, <2>1, <2>3, SlotUpdate DEF TypeOK, LoadExecution
  <2> QED BY <1>2, <2>4 DEF LoadExecution, TypeOK, rowVars, worldVars
<1>3. ASSUME NEW r \in Slot, LoadContract(r)
      PROVE  TypeOK' /\ RequestsOK'
  <2> DEFINE q == req[r]
             q2 == [q EXCEPT !.pc = "ready", !.cs = contractState[q.e]]
  <2>0. q \in RequestRecord /\ RequestOK(q) /\ q.pc = "loaded" /\ q.e \in Execution
    BY <1>3 DEF TypeOK, RequestsOK, RequestOK, LoadContract
  <2>1. CASE /\ q.lk /\ AcceptsPair(q.op, q.e, q.es, contractState[q.e])
             /\ req' = [req EXCEPT ![r].pc = "ready", ![r].cs = contractState[q.e]]
    <3>1. q2 \in RequestRecord
      BY <2>0 DEF TypeOK, RequestRecord, ProgramPoint
    <3>2. RequestOK(q2)
      BY <2>0, <2>1 DEF RequestRecord, RequestOK, NeedsContract, AcceptsPair,
         ExecuteAcceptsPair, VerifyAcceptsPair, CommitAcceptsPair,
         CompensateAcceptsPair
    <3>3. req' = [req EXCEPT ![r] = q2]
      BY <2>1 DEF TypeOK
    <3> QED BY <3>1, <3>2, <3>3, SlotUpdate, <1>3 DEF TypeOK, LoadContract,
            rowVars, worldVars
  <2>2. CASE Finish(r)
    BY <2>2, <1>3, FinishOK DEF TypeOK, LoadContract, rowVars, worldVars
  <2> QED BY <1>3, <2>1, <2>2 DEF LoadContract
<1>4. ASSUME NEW r \in Slot, RecordAction(r)
      PROVE  TypeOK' /\ RequestsOK'
  <2>1. req[r].e \in Execution
    BY <1>4 DEF RecordAction, Prepare, ExecuteRecord, VerifyRecord, Commit,
       Cancel, CompensateRecord, HARecover, RequestsOK, RequestOK
  <2>2. UNCHANGED <<worldVars, events>>
    BY <1>4 DEF RecordAction, Prepare, ExecuteRecord, VerifyRecord, Commit,
       Cancel, CompensateRecord, HARecover
  <2>3. autoCommit' \in [Execution -> BOOLEAN]
    BY <1>4, <2>1 DEF RecordAction, Prepare, ExecuteRecord, VerifyRecord,
       Commit, Cancel, CompensateRecord, HARecover, TypeOK
  <2>4. PICK prev, name, es, cs, lk, kinds :
           /\ LegalRecord(req[r], prev, name, es, cs, lk, kinds)
           /\ RecordTransition(r, prev, name, es, cs, lk, kinds)
    BY <1>4, RecordActionIsLegal
  <2> QED BY <2>1, <2>2, <2>3, <2>4, RecordEffect DEF TypeOK, worldVars
<1>5. ASSUME NEW r \in Slot, ExecuteClaim(r)
      PROVE  TypeOK' /\ RequestsOK'
  <2> DEFINE q2 == [req[r] EXCEPT !.pc = "claimed"]
  <2>0. /\ req[r] \in RequestRecord /\ RequestOK(req[r])
        /\ req[r].pc = "ready" /\ req[r].op = "execute" /\ req[r].e \in Execution
    BY <1>5 DEF TypeOK, RequestsOK, RequestOK, ExecuteClaim
  <2>1. q2 \in RequestRecord /\ RequestOK(q2)
    BY <2>0 DEF RequestRecord, RequestOK, ProgramPoint
  <2>2. CASE /\ execState' = [execState EXCEPT ![req[r].e] = "Running"]
             /\ req' = [req EXCEPT ![r].pc = "claimed"]
    <3>1. req' = [req EXCEPT ![r] = q2]
      BY <2>2 DEF TypeOK
    <3>2. execState' \in [Execution -> ExecutionState \cup {None}]
      BY <2>2 DEF TypeOK, ExecutionState
    <3> QED BY <2>1, <3>1, <3>2, SlotUpdate, <1>5 DEF TypeOK, ExecuteClaim,
            worldVars
  <2>3. CASE Finish(r) /\ UNCHANGED execState
    BY <2>3, FinishOK, <1>5 DEF TypeOK, ExecuteClaim, worldVars
  <2> QED BY <1>5, <2>2, <2>3 DEF ExecuteClaim
<1>6. ASSUME NEW r \in Slot, ExecuteAdapter(r)
      PROVE  TypeOK' /\ RequestsOK'
  <2>0. /\ req[r] \in RequestRecord /\ RequestOK(req[r])
        /\ req[r].pc = "claimed" /\ req[r].e \in Execution
    BY <1>6 DEF TypeOK, RequestsOK, RequestOK, ExecuteAdapter
  <2>1. PICK applied \in BOOLEAN, out \in {"Ok", "Err"} :
       /\ effect' = [effect EXCEPT ![req[r].e] = @ \/ applied]
       /\ req' = [req EXCEPT ![r].pc = "called", ![r].out = out]
    BY <1>6 DEF ExecuteAdapter
  <2> DEFINE q2 == [req[r] EXCEPT !.pc = "called", !.out = out]
  <2>2. q2 \in RequestRecord /\ RequestOK(q2)
    BY <2>0 DEF RequestRecord, RequestOK, ProgramPoint, Outcome
  <2>3. req' = [req EXCEPT ![r] = q2]
    BY <2>1 DEF TypeOK
  <2>4. effect' \in [Execution -> BOOLEAN]
    BY <2>0, <2>1 DEF TypeOK
  <2>5. executeCalls' \in [Execution -> Nat]
    BY <1>6, <2>0 DEF TypeOK, ExecuteAdapter
  <2> QED BY <2>2, <2>3, <2>4, <2>5, SlotUpdate, <1>6 DEF TypeOK,
          ExecuteAdapter, rowVars
<1>7. ASSUME NEW r \in Slot, VerifyAdapter(r)
      PROVE  TypeOK' /\ RequestsOK'
  <2>0. /\ req[r] \in RequestRecord /\ RequestOK(req[r])
        /\ req[r].pc = "ready" /\ req[r].op = "verify"
    BY <1>7 DEF TypeOK, RequestsOK, VerifyAdapter
  <2>1. PICK out \in {"Applied", "NotApplied", "Indeterminate"} :
       req' = [req EXCEPT ![r].pc = "called", ![r].out = out]
    BY <1>7 DEF VerifyAdapter
  <2> DEFINE q2 == [req[r] EXCEPT !.pc = "called", !.out = out]
  <2>2. q2 \in RequestRecord /\ RequestOK(q2)
    BY <2>0 DEF RequestRecord, RequestOK, ProgramPoint, Outcome
  <2>3. req' = [req EXCEPT ![r] = q2]
    BY <2>1 DEF TypeOK
  <2>4. misreported' \in [Execution -> BOOLEAN]
    BY <1>7 DEF TypeOK, VerifyAdapter
  <2> QED BY <2>2, <2>3, <2>4, SlotUpdate, <1>7 DEF TypeOK, VerifyAdapter,
          rowVars
<1>8. ASSUME NEW r \in Slot, CompensateAdapter(r)
      PROVE  TypeOK' /\ RequestsOK'
  <2>0. /\ req[r] \in RequestRecord /\ RequestOK(req[r])
        /\ req[r].pc = "ready" /\ req[r].op = "compensate" /\ req[r].e \in Execution
    BY <1>8 DEF TypeOK, RequestsOK, RequestOK, CompensateAdapter
  <2>1. effect' \in [Execution -> BOOLEAN]
    BY <1>8, <2>0 DEF TypeOK, CompensateAdapter
  <2>2. compensateCalled' \in [Execution -> BOOLEAN]
    BY <1>8, <2>0 DEF TypeOK, CompensateAdapter
  <2>3. ASSUME NEW out \in {"Recovered", "Incomplete"},
               req' = [req EXCEPT ![r].pc = "called", ![r].out = out]
        PROVE  req' \in [Slot -> RequestRecord] /\ RequestsOK'
    <3> DEFINE q2 == [req[r] EXCEPT !.pc = "called", !.out = out]
    <3>1. q2 \in RequestRecord /\ RequestOK(q2)
      BY <2>0 DEF RequestRecord, RequestOK, ProgramPoint, Outcome
    <3>2. req' = [req EXCEPT ![r] = q2]
      BY <2>3 DEF TypeOK
    <3> QED BY <3>1, <3>2, SlotUpdate DEF TypeOK
  <2>4. req' \in [Slot -> RequestRecord] /\ RequestsOK'
    BY <1>8, <2>3, FinishOK DEF TypeOK, CompensateAdapter
  <2>5. misreported' \in [Execution -> BOOLEAN]
    BY <1>8, <2>0 DEF TypeOK, CompensateAdapter
  <2> QED BY <2>1, <2>2, <2>4, <2>5, <1>8 DEF TypeOK, CompensateAdapter, rowVars
<1>9. ASSUME NEW r \in Slot, HACancel(r)
      PROVE  TypeOK' /\ RequestsOK'
  <2> DEFINE q2 == [req[r] EXCEPT !.pc = "recorded", !.owed = <<"ErrorRaised">>,
                                  !.key = NoKey]
  <2>0. /\ req[r] \in RequestRecord /\ RequestOK(req[r])
        /\ req[r].pc = "ready" /\ req[r].op = "ha" /\ req[r].e \in Execution
    BY <1>9 DEF TypeOK, RequestsOK, RequestOK, HACancel
  <2>1. q2 \in RequestRecord /\ RequestOK(q2)
    BY <2>0, EventKinds, EventLists DEF RequestRecord, RequestOK, ProgramPoint
  <2>2. CASE /\ execState' = [execState EXCEPT ![req[r].e] = "Canceled"]
             /\ Owe(r, NoKey, <<"ErrorRaised">>)
    <3>1. req' = [req EXCEPT ![r] = q2]
      BY <2>2 DEF TypeOK, Owe
    <3>2. execState' \in [Execution -> ExecutionState \cup {None}]
      BY <2>2 DEF TypeOK, ExecutionState
    <3> QED BY <2>1, <3>1, <3>2, SlotUpdate, <1>9 DEF TypeOK, HACancel,
            worldVars
  <2>3. CASE Finish(r) /\ UNCHANGED execState
    BY <2>3, FinishOK, <1>9 DEF TypeOK, HACancel, worldVars
  <2> QED BY <1>9, <2>2, <2>3 DEF HACancel
<1>10. ASSUME NEW r \in Slot, Emit(r)
       PROVE  TypeOK' /\ RequestsOK'
  <2> DEFINE q == req[r]
             q2 == [q EXCEPT !.pc = "appended"]
  <2>0. /\ q \in RequestRecord /\ RequestOK(q)
        /\ q.pc = "recorded" /\ q.e \in Execution
        /\ q.owed \in Seq(EventKind) /\ q.owed # <<>>
    BY <1>10 DEF TypeOK, RequestsOK, RequestOK, RequestRecord, Emit
  <2>1. Head(q.owed) \in EventKind
    BY <2>0, OwedParts
  <2>2. q2 \in RequestRecord /\ RequestOK(q2)
    BY <2>0 DEF RequestRecord, RequestOK, ProgramPoint
  <2>3. events' \in [Execution -> SUBSET EventKind]
    <3>1. PICK e \in Execution, h \in EventKind : e = q.e /\ h = Head(q.owed)
      BY <2>0, <2>1
    <3>2. \/ UNCHANGED events
          \/ events' = [events EXCEPT ![e] = @ \cup {h}]
      BY <1>10, <3>1 DEF Emit
    <3> QED BY <3>2 DEF TypeOK
  <2>4. req' \in [Slot -> RequestRecord] /\ RequestsOK'
    <3>1. CASE req' = [req EXCEPT ![r].pc = "appended"]
      <4>1. req' = [req EXCEPT ![r] = q2]
        BY <3>1 DEF TypeOK
      <4> QED BY <2>2, <4>1, SlotUpdate DEF TypeOK
    <3>2. CASE Finish(r)
      BY <3>2, FinishOK DEF TypeOK
    <3>3. Appended(r) \/ Finish(r)
      BY <1>10 DEF Emit
    <3> QED BY <3>1, <3>2, <3>3 DEF Appended
  <2> QED BY <1>10, <2>3, <2>4 DEF TypeOK, Emit, rowVars, worldVars
<1>11. ASSUME NEW r \in Slot, Amends(r)
       PROVE  TypeOK' /\ RequestsOK'
  <2>1. /\ outbox' \in [Execution -> SUBSET OutboxRecord]
        /\ UNCHANGED <<rowVars, worldVars, events>>
    BY <1>11, RecordsAmended
  <2>2. CASE Finish(r)
    BY <2>1, <2>2, FinishOK DEF TypeOK, rowVars, worldVars
  <2>3. CASE MarkObligation(r)
    <3> DEFINE q == req[r]
               q2 == [q EXCEPT !.pc = "recorded", !.owed = Tail(q.owed)]
               q3 == [q EXCEPT !.pc = "written", !.owed = <<>>]
    <3>0. /\ q \in RequestRecord /\ RequestOK(q)
          /\ q.pc = "appended" /\ q.e \in Execution
          /\ q.owed \in Seq(EventKind) /\ q.owed # <<>>
      BY <2>3 DEF TypeOK, RequestsOK, RequestOK, RequestRecord, MarkObligation
    <3>1. Len(q.owed) > 1 => q2 \in RequestRecord /\ RequestOK(q2)
      <4>1. /\ Tail(q.owed) \in Seq(EventKind)
            /\ Len(q.owed) > 1 => Tail(q.owed) # <<>>
        BY <3>0, OwedParts
      <4> QED BY <3>0, <4>1 DEF RequestRecord, RequestOK, ProgramPoint
    <3>2. q3 \in RequestRecord /\ RequestOK(q3)
      <4>1. <<>> \in Seq(EventKind)
        OBVIOUS
      <4> QED BY <3>0, <4>1 DEF RequestRecord, RequestOK, ProgramPoint
    <3>3. \/ Len(q.owed) > 1 /\ req' = [req EXCEPT ![r] = q2]
          \/ req' = [req EXCEPT ![r] = q3]
          \/ Finish(r)
      BY <2>3 DEF TypeOK, MarkObligation
    <3>4. req' \in [Slot -> RequestRecord] /\ RequestsOK'
      <4> HIDE DEF q2, q3, q
      <4> QED BY <3>1, <3>2, <3>3, SlotUpdate, FinishOK DEF TypeOK
    <3> QED BY <2>1, <3>4 DEF TypeOK, rowVars, worldVars
  <2> QED BY <1>11, <2>2, <2>3 DEF Amends, CloseOutbox
<1>12. ASSUME NEW r \in Slot, Abort(r)
       PROVE  TypeOK' /\ RequestsOK'
  BY <1>12, FinishOK DEF TypeOK, Abort, rowVars, worldVars
<1>13. CASE UNCHANGED vars
  BY <1>13 DEF vars, TypeOK, RequestsOK, RequestOK
<1> QED
  BY <1>1, <1>2, <1>3, <1>4, <1>5, <1>6, <1>7, <1>8, <1>9, <1>10, <1>11, <1>12,
     <1>13 DEF Next, Step, RecordAction, Slot, Amends

\* Every variable keeps its type, and every busy slot holds what its operation
\* accepted, whatever handlers and reconcilers do.
THEOREM TypeSafety == Spec => [](TypeOK /\ RequestsOK)
BY TypeInit, TypeStep, PTL DEF Spec

------------------------------------------------------------------------------
(* Executions move along the matrix *)

Move(s, t) == s = t \/ s = None \/ IsValidExecutionTransition(s, t)

\* A write that goes along the matrix at one execution is a move at every one.
LEMMA MoveOne ==
  ASSUME TypeOK, NEW e \in Execution, NEW t, Move(execState[e], t),
         execState' = [execState EXCEPT ![e] = t]
  PROVE  \A f \in Execution : Move(execState[f], execState'[f])
BY DEF TypeOK, Move

\* The actions that write an execution state.
LEMMA MoveStep ==
  ASSUME TypeOK, RequestsOK, [Next]_vars
  PROVE  \A e \in Execution : Move(execState[e], execState'[e])
<1>1. ASSUME NEW r \in Request, NEW e \in Execution, Authorize(r, e)
      PROVE  \A f \in Execution : Move(execState[f], execState'[f])
  BY <1>1, MoveOne DEF Authorize, Move
<1>2. ASSUME NEW r \in Slot, RecordAction(r)
      PROVE  \A f \in Execution : Move(execState[f], execState'[f])
  <2>1. req[r].e \in Execution
    BY <1>2 DEF RecordAction, Prepare, ExecuteRecord, VerifyRecord, Commit,
       Cancel, CompensateRecord, HARecover, RequestsOK, RequestOK
  <2>2. PICK prev, name, es, cs, lk, kinds :
           RecordTransition(r, prev, name, es, cs, lk, kinds)
    BY <1>2, RecordActionIsLegal
  <2>3. \/ UNCHANGED execState
        \/ /\ IsValidExecutionTransition(execState[req[r].e], es)
           /\ execState' = [execState EXCEPT ![req[r].e] = es]
    BY <2>2 DEF RecordTransition, Recordable
  <2> QED BY <2>1, <2>3, MoveOne DEF Move
<1>3. ASSUME NEW r \in Slot, ExecuteClaim(r)
      PROVE  \A f \in Execution : Move(execState[f], execState'[f])
  <2>1. req[r].e \in Execution
    BY <1>3 DEF ExecuteClaim, RequestsOK, RequestOK
  <2>2. \A s \in Claimable : Move(s, "Running")
    BY DEF Move, Claimable, IsValidExecutionTransition, ExecutionSuccessors
  <2> QED BY <1>3, <2>1, <2>2, MoveOne DEF ExecuteClaim, Move
<1>4. ASSUME NEW r \in Slot, HACancel(r)
      PROVE  \A f \in Execution : Move(execState[f], execState'[f])
  <2>1. req[r].e \in Execution
    BY <1>4 DEF HACancel, RequestsOK, RequestOK
  <2>2. \A s \in PreSideEffect : Move(s, "Canceled")
    BY DEF Move, PreSideEffect, IsValidExecutionTransition, ExecutionSuccessors
  <2> QED BY <1>4, <2>1, <2>2, MoveOne DEF HACancel, Move
<1>5. CASE UNCHANGED execState
  BY <1>5 DEF Move
<1> QED
  BY <1>1, <1>2, <1>3, <1>4, <1>5 DEF Next, Step, RecordAction, vars, rowVars,
     LoadExecution, LoadContract, ExecuteAdapter, VerifyAdapter,
     CompensateAdapter, Emit, MarkObligation, CloseOutbox, Abort

\* No step of any handler or reconciler leaves the matrix of the store seam,
\* the claim and the HA cancellation, which bypass its test, included.
THEOREM MovesAlongMatrix == Spec => MovesAreValid
<1> DEFINE Valid == \A e \in Execution :
              execState'[e] = execState[e] \/ execState[e] = None
                \/ IsValidExecutionTransition(execState[e], execState'[e])
<1>1. TypeOK /\ RequestsOK /\ [Next]_vars => [Valid]_vars
  BY MoveStep DEF Move
<1> QED BY <1>1, TypeSafety, PTL DEF Spec, MovesAreValid

------------------------------------------------------------------------------
(* The claim *)

\* States in which no handler has claimed the execution yet, or never will.
Unclaimed == PreSideEffect \cup {None, "Canceled"}

\* No move leads back to an unclaimed state.
LEMMA UnclaimedIsLost ==
  ASSUME NEW s \in ExecutionState \cup {None}, NEW t \in Unclaimed, Move(s, t)
  PROVE  s \in Unclaimed
BY DEF Unclaimed, Move, IsValidExecutionTransition, ExecutionSuccessors,
   ExecutionState, PreSideEffect, None

\* What one slot's step may do to the requests: the others keep theirs, only
\* execute claims, and a contract state it holds was read from a contract row.
SlotStep(r) ==
  /\ \A s \in Slot \ {r} : req'[s] = req[s]
  /\ req'[r].pc = "claimed" => ExecuteClaim(r) /\ req'[r].e = req[r].e
  /\ req'[r].pc # "idle" /\ req'[r].cs # None =>
       \/ req[r].pc # "idle" /\ req'[r].e = req[r].e /\ req'[r].cs = req[r].cs
       \/ contractState[req'[r].e] # None

\* Every step is a slot's step.
LEMMA EveryStepIsASlots ==
  ASSUME TypeOK, RequestsOK, Next
  PROVE  \E r \in Slot : SlotStep(r)
<1>0. Idle.pc = "idle"
  BY DEF Idle
<1>a. ASSUME NEW r \in Slot, Finish(r)
      PROVE  SlotStep(r)
  BY <1>0, <1>a DEF Finish, SlotStep, TypeOK
<1>1. ASSUME NEW r \in Request, NEW e \in Execution, Authorize(r, e)
      PROVE  SlotStep(r)
  <2>1. PICK s \in {"Authorized", "Prepared"} :
          req' = [req EXCEPT ![r] =
            [Idle EXCEPT !.op = "authorize", !.e = e, !.es = s,
               !.pc = "recorded", !.key = <<"authorize", s, None>>,
               !.owed = <<"ActionProposalSubmitted">>]]
    BY <1>1 DEF Authorize
  <2>2. /\ \A s2 \in Slot \ {r} : req'[s2] = req[s2]
        /\ req'[r].pc = "recorded" /\ req'[r].cs = None
    BY <2>1 DEF TypeOK, Idle, Slot
  <2> QED BY <2>2 DEF SlotStep
<1>2. ASSUME NEW r \in Slot, NEW op \in HandlerOp \cup {"ha"},
             NEW e \in Execution, LoadExecution(r, op, e)
      PROVE  SlotStep(r)
  <2>1. /\ \A s \in Slot \ {r} : req'[s] = req[s]
        /\ req'[r].pc \in {"loaded", "ready"} /\ req'[r].cs = None
    BY <1>2 DEF LoadExecution, TypeOK, Idle
  <2> QED BY <2>1 DEF SlotStep
<1>3. ASSUME NEW r \in Slot, LoadContract(r)
      PROVE  SlotStep(r)
  <2>1. CASE Finish(r)
    BY <2>1, <1>a
  <2>2. CASE /\ contractState[req[r].e] # None
             /\ req' = [req EXCEPT ![r].pc = "ready",
                                   ![r].cs = contractState[req[r].e]]
    <3>1. /\ \A s \in Slot \ {r} : req'[s] = req[s]
          /\ req'[r].pc = "ready" /\ req'[r].e = req[r].e
      BY <2>2 DEF TypeOK, RequestRecord
    <3> QED BY <2>2, <3>1 DEF SlotStep
  <2> QED BY <1>3, <2>1, <2>2 DEF LoadContract
<1>4. ASSUME NEW r \in Slot, RecordAction(r)
      PROVE  SlotStep(r)
  <2>1. PICK prev, name, es, cs, lk, kinds :
           RecordTransition(r, prev, name, es, cs, lk, kinds)
    BY <1>4, RecordActionIsLegal
  <2>2. req[r].pc # "idle"
    BY <1>4 DEF RecordAction, Prepare, ExecuteRecord, VerifyRecord, Commit,
       Cancel, CompensateRecord, HARecover
  <2>3. CASE Owe(r, <<name, es, cs>>, kinds)
    <3>1. /\ \A s \in Slot \ {r} : req'[s] = req[s]
          /\ req'[r].pc = "recorded" /\ req'[r].e = req[r].e
          /\ req'[r].cs = req[r].cs
      BY <2>3 DEF TypeOK, RequestRecord, Owe
    <3> QED BY <2>2, <3>1 DEF SlotStep
  <2> QED BY <2>1, <2>3, <1>a DEF RecordTransition
<1>5. ASSUME NEW r \in Slot, ExecuteClaim(r)
      PROVE  SlotStep(r)
  <2>1. CASE req' = [req EXCEPT ![r].pc = "claimed"]
    <3>1. /\ \A s \in Slot \ {r} : req'[s] = req[s]
          /\ req'[r].e = req[r].e /\ req'[r].cs = req[r].cs
      BY <2>1 DEF TypeOK, RequestRecord
    <3>2. req[r].pc # "idle"
      BY <1>5 DEF ExecuteClaim
    <3> QED BY <1>5, <3>1, <3>2 DEF SlotStep
  <2> QED BY <1>5, <1>a, <2>1 DEF ExecuteClaim
<1>6. ASSUME NEW r \in Slot,
             ExecuteAdapter(r) \/ VerifyAdapter(r) \/ CompensateAdapter(r)
      PROVE  SlotStep(r)
  <2>1. ASSUME NEW out, req' = [req EXCEPT ![r].pc = "called", ![r].out = out]
        PROVE  SlotStep(r)
    <3>1. /\ \A s \in Slot \ {r} : req'[s] = req[s]
          /\ req'[r].pc = "called"
          /\ req'[r].e = req[r].e /\ req'[r].cs = req[r].cs
      BY <2>1 DEF TypeOK, RequestRecord
    <3>2. req[r].pc # "idle"
      BY <1>6 DEF ExecuteAdapter, VerifyAdapter, CompensateAdapter
    <3> QED BY <3>1, <3>2 DEF SlotStep
  <2> QED BY <1>6, <1>a, <2>1 DEF ExecuteAdapter, VerifyAdapter,
          CompensateAdapter
<1>7. ASSUME NEW r \in Slot, HACancel(r)
      PROVE  SlotStep(r)
  <2>1. CASE Owe(r, NoKey, <<"ErrorRaised">>)
    <3>1. /\ \A s \in Slot \ {r} : req'[s] = req[s]
          /\ req'[r].pc = "recorded" /\ req'[r].e = req[r].e
          /\ req'[r].cs = req[r].cs
      BY <2>1 DEF TypeOK, RequestRecord, Owe
    <3>2. req[r].pc # "idle"
      BY <1>7 DEF HACancel
    <3> QED BY <3>1, <3>2 DEF SlotStep
  <2> QED BY <1>7, <1>a, <2>1 DEF HACancel
<1>8. ASSUME NEW r \in Slot, Emit(r)
      PROVE  SlotStep(r)
  <2>1. CASE req' = [req EXCEPT ![r].pc = "appended"]
    <3>1. req[r].pc = "recorded"
      BY <1>8 DEF Emit
    <3>2. /\ \A s \in Slot \ {r} : req'[s] = req[s]
          /\ req'[r].e = req[r].e /\ req'[r].cs = req[r].cs
          /\ req'[r].pc = "appended"
      BY <2>1 DEF TypeOK, RequestRecord
    <3> QED BY <3>1, <3>2 DEF SlotStep
  <2> QED BY <1>8, <1>a, <2>1 DEF Emit, Appended
<1>9. ASSUME NEW r \in Slot, Amends(r) \/ Abort(r)
      PROVE  SlotStep(r)
  <2>1. CASE Finish(r)
    BY <1>a, <2>1
  <2>2. CASE Amends(r)
    BY <1>a, <2>2, RequestsAmended DEF SlotStep
  <2> QED BY <1>9, <2>1, <2>2 DEF Abort
<1> QED
  BY <1>1, <1>2, <1>3, <1>4, <1>5, <1>6, <1>7, <1>8, <1>9 DEF Next, Step,
     RecordAction, Slot, Amends

\* The inductive invariant of the claim.  A slot between its claim and its
\* adapter call is the only one there, the adapter has not been called, and the
\* recorded lineage is complete.
Claimed(r, e) == req[r].pc = "claimed" /\ req[r].e = e

ClaimInv ==
  \A e \in Execution :
    /\ executeCalls[e] <= 1
    /\ execState[e] \in Unclaimed => executeCalls[e] = 0
    /\ executeCalls[e] > 0 => MinimumLineage \subseteq events[e]
    /\ \A r \in Slot : Claimed(r, e) =>
         /\ execState[e] \notin Unclaimed
         /\ executeCalls[e] = 0
         /\ MinimumLineage \subseteq events[e]
         /\ \A s \in Slot : Claimed(s, e) => s = r

\* Initially nothing is claimed and no adapter has been called.
LEMMA ClaimInit == Init => ClaimInv
BY DEF Init, ClaimInv, Claimed, Idle

\* Provenance is append-only.
LEMMA EventsGrow ==
  ASSUME TypeOK, RequestsOK, [Next]_vars
  PROVE  \A e \in Execution : events[e] \subseteq events'[e]
<1>1. ASSUME NEW r \in Slot, Emit(r)
      PROVE  \A e \in Execution : events[e] \subseteq events'[e]
  <2>1. req[r].e \in Execution
    BY <1>1 DEF Emit, RequestsOK, RequestOK
  <2>2. \/ UNCHANGED events
        \/ events' = [events EXCEPT ![req[r].e] = @ \cup {Head(req[r].owed)}]
    BY <1>1 DEF Emit
  <2> QED BY <2>1, <2>2 DEF TypeOK
<1>2. CASE UNCHANGED events
  BY <1>2
<1>3. ASSUME NEW r \in Slot, RecordAction(r)
      PROVE  UNCHANGED events
  BY <1>3 DEF RecordAction, Prepare, ExecuteRecord, VerifyRecord, Commit,
     Cancel, CompensateRecord, HARecover
<1>4. ASSUME NEW r \in Slot,
             \/ LoadContract(r) \/ ExecuteClaim(r) \/ ExecuteAdapter(r)
             \/ VerifyAdapter(r) \/ CompensateAdapter(r) \/ HACancel(r)
             \/ MarkObligation(r) \/ CloseOutbox(r) \/ Abort(r)
      PROVE  UNCHANGED events
  BY <1>4 DEF LoadContract, ExecuteClaim, ExecuteAdapter, VerifyAdapter,
     CompensateAdapter, HACancel, MarkObligation, CloseOutbox, Abort
<1> QED BY <1>1, <1>2, <1>3, <1>4 DEF Next, Step, RecordAction, vars,
        Authorize, LoadExecution

\* Every step keeps the invariant of the claim.
LEMMA ClaimStep ==
  ASSUME TypeOK, RequestsOK, TypeOK', ClaimInv, [Next]_vars
  PROVE  ClaimInv'
<1>1. CASE UNCHANGED vars
  BY <1>1 DEF vars, ClaimInv, Claimed
<1>2. CASE Next
  <2>1. PICK r \in Slot : SlotStep(r)
    BY <1>2, EveryStepIsASlots
  <2>2. \A e \in Execution : execState'[e] \in Unclaimed => execState[e] \in Unclaimed
    BY MoveStep, UnclaimedIsLost DEF TypeOK
  <2>3. \A e \in Execution : events[e] \subseteq events'[e]
    BY EventsGrow
  <2>4. \A e \in Execution : executeCalls[e] \in Nat /\ executeCalls'[e] \in Nat
    BY DEF TypeOK
  <2>5. CASE ExecuteClaim(r) /\ req'[r].pc = "claimed"
    <3> DEFINE e == req[r].e
    <3>1. e \in Execution /\ req'[r].e = e
      BY <2>1, <2>5 DEF ExecuteClaim, RequestsOK, RequestOK, SlotStep
    <3>2. ~Finish(r)
      BY <2>5 DEF Finish, Idle, TypeOK
    <3>3. /\ MinimumLineage \subseteq events[e] /\ execState[e] \in Claimable
          /\ execState' = [execState EXCEPT ![e] = "Running"]
          /\ UNCHANGED <<executeCalls, events>>
      BY <2>5, <3>2 DEF ExecuteClaim, worldVars
    <3>4. execState[e] \in Unclaimed /\ execState'[e] = "Running"
          /\ "Running" \notin Unclaimed
      BY <3>1, <3>3 DEF TypeOK, Unclaimed, Claimable, PreSideEffect, None
    <3>5. executeCalls[e] = 0 /\ \A s \in Slot : ~Claimed(s, e)
      BY <3>1, <3>4 DEF ClaimInv
    <3>6. \A s \in Slot, f \in Execution :
            Claimed(s, f)' <=> Claimed(s, f) \/ (s = r /\ f = e)
      BY <2>1, <2>5, <3>1 DEF SlotStep, Claimed, ExecuteClaim
    <3> HIDE DEF e
    <3>7. ASSUME NEW f \in Execution, f # e
          PROVE  execState'[f] = execState[f]
      BY <3>1, <3>3, <3>7 DEF TypeOK
    <3> QED BY <3>1, <3>3, <3>4, <3>5, <3>6, <3>7 DEF ClaimInv
  <2>6. CASE ~(ExecuteClaim(r) /\ req'[r].pc = "claimed")
    <3>1. \A s \in Slot, f \in Execution : Claimed(s, f)' => Claimed(s, f)
      BY <2>1, <2>6 DEF SlotStep, Claimed
    <3>2. CASE UNCHANGED executeCalls
      BY <3>1, <3>2, <2>2, <2>3, <2>4, UnclaimedIsLost DEF ClaimInv
    <3>3. ASSUME NEW s \in Slot, ExecuteAdapter(s)
          PROVE  ClaimInv'
      <4>1. PICK e \in Execution : e = req[s].e /\ Claimed(s, e)
        BY <3>3 DEF ExecuteAdapter, RequestsOK, RequestOK, Claimed
      <4>2. /\ execState[e] \notin Unclaimed /\ executeCalls[e] = 0
            /\ MinimumLineage \subseteq events[e]
            /\ \A s2 \in Slot : Claimed(s2, e) => s2 = s
        BY <4>1 DEF ClaimInv
      <4>3. executeCalls' = [executeCalls EXCEPT ![e] = @ + 1]
        BY <3>3, <4>1 DEF ExecuteAdapter
      <4>4. executeCalls'[e] = 1
        BY <4>1, <4>2, <4>3 DEF TypeOK
      <4>5. \A f \in Execution : f # e => executeCalls'[f] = executeCalls[f]
        BY <4>1, <4>3 DEF TypeOK
      <4>6. req'[s].pc = "called"
        BY <3>3 DEF ExecuteAdapter, TypeOK, RequestRecord
      <4>7. \A s2 \in Slot : ~Claimed(s2, e)'
        BY <3>1, <4>1, <4>2, <4>6 DEF Claimed
      <4>8. UNCHANGED execState
        BY <3>3 DEF ExecuteAdapter, rowVars
      <4> DEFINE ClaimOK(f) ==
                   /\ executeCalls[f] <= 1
                   /\ execState[f] \in Unclaimed => executeCalls[f] = 0
                   /\ executeCalls[f] > 0 => MinimumLineage \subseteq events[f]
                   /\ \A t \in Slot : Claimed(t, f) =>
                        /\ execState[f] \notin Unclaimed
                        /\ executeCalls[f] = 0
                        /\ MinimumLineage \subseteq events[f]
                        /\ \A u \in Slot : Claimed(u, f) => u = t
      <4>9. ClaimOK(e)'
        BY <4>1, <4>2, <4>4, <4>7, <4>8, <2>3
      <4>10. ASSUME NEW f \in Execution, f # e
             PROVE  ClaimOK(f)'
        <5>1. ClaimOK(f)
          BY DEF ClaimInv
        <5>2. executeCalls'[f] = executeCalls[f] /\ execState' = execState
              /\ events[f] \subseteq events'[f]
          BY <4>5, <4>8, <4>10, <2>3
        <5> QED BY <3>1, <5>1, <5>2
      <4> QED BY <4>9, <4>10 DEF ClaimInv
    <3>4. ASSUME NEW s \in Slot, Step(s)
          PROVE  UNCHANGED executeCalls \/ ExecuteAdapter(s)
      <4>1. CASE LoadContract(s) \/ Prepare(s) \/ ExecuteClaim(s) \/ ExecuteRecord(s)
                 \/ VerifyAdapter(s) \/ VerifyRecord(s)
        BY <4>1 DEF LoadContract, Prepare, ExecuteClaim, ExecuteRecord, VerifyAdapter,
           VerifyRecord, worldVars
      <4>2. CASE Commit(s) \/ Cancel(s) \/ CompensateAdapter(s) \/ CompensateRecord(s)
                 \/ HACancel(s) \/ HARecover(s) \/ Emit(s)
                 \/ MarkObligation(s) \/ CloseOutbox(s)
        BY <4>2 DEF Commit, Cancel, CompensateAdapter, CompensateRecord, HACancel,
           HARecover, Emit, MarkObligation, CloseOutbox, worldVars
      <4> QED BY <3>4, <4>1, <4>2 DEF Step
    <3>5. UNCHANGED executeCalls \/ \E s \in Slot : Step(s)
      BY <1>2 DEF Next, Authorize, LoadExecution, Abort, worldVars
    <3> QED BY <3>2, <3>3, <3>4, <3>5
  <2> QED BY <2>5, <2>6
<1> QED BY <1>1, <1>2

\* The claim invariant holds throughout.
THEOREM ClaimSafety == Spec => []ClaimInv
BY TypeSafety, TypeStep, TypeInit, ClaimInit, ClaimStep, PTL DEF Spec

\* The adapter performs the side effect at most once, whatever requests race.
THEOREM ExecutesOnce == Spec => []ExecutedAtMostOnce
<1>1. ClaimInv => ExecutedAtMostOnce
  BY DEF ClaimInv, ExecutedAtMostOnce
<1> QED BY <1>1, ClaimSafety, PTL

\* A canceled execution never reached its adapter.
THEOREM CancelIsClean == Spec => []CanceledNeverExecuted
<1>1. ClaimInv => CanceledNeverExecuted
  BY DEF ClaimInv, CanceledNeverExecuted, Unclaimed
<1> QED BY <1>1, ClaimSafety, PTL

\* No adapter call without the recorded lineage.
THEOREM LineageBeforeEffect == Spec => []EffectHasLineage
<1>1. ClaimInv => EffectHasLineage
  BY DEF ClaimInv, EffectHasLineage
<1> QED BY <1>1, ClaimSafety, PTL

------------------------------------------------------------------------------
(* The execution row and the contract row agree *)

\* A contract row, once inserted, is never removed: what a slot remembers of it
\* still exists.
ContractsKnown ==
  \A r \in Slot :
    req[r].pc # "idle" /\ req[r].cs # None => contractState[req[r].e] # None

PairInv == StatesPaired /\ ContractsKnown

\* Initially there are no rows.
LEMMA PairInit == Init => PairInv
BY DEF Init, PairInv, StatesPaired, LegalPair, ContractsKnown, Idle

\* What one write of the two rows does to the pairs.
PairWrite(e, es, cs) ==
  /\ execState' = [execState EXCEPT ![e] = es]
  /\ contractState' = [contractState EXCEPT ![e] = cs]
  /\ LegalPair(es, cs)
  /\ contractState[e] # None => cs # None

\* A legal write keeps all pairs legal and removes no contract.
LEMMA PairWriteOK ==
  ASSUME TypeOK, StatesPaired, NEW e \in Execution, NEW es, NEW cs,
         PairWrite(e, es, cs)
  PROVE  /\ StatesPaired'
         /\ \A f \in Execution : contractState[f] # None => contractState'[f] # None
BY DEF TypeOK, StatesPaired, PairWrite

\* Every step writes a legal pair or no row at all.
LEMMA EveryStepWritesPairs ==
  ASSUME TypeOK, RequestsOK, PairInv, Next
  PROVE  \/ \E e \in Execution, es \in ExecutionState,
               cs \in RollbackState \cup {None} : PairWrite(e, es, cs)
         \/ UNCHANGED <<execState, contractState>>
<1> DEFINE Goal == \/ \E e \in Execution, es \in ExecutionState,
                        cs \in RollbackState \cup {None} : PairWrite(e, es, cs)
                   \/ UNCHANGED <<execState, contractState>>
<1>0. \A e \in Execution : LegalPair(execState[e], contractState[e])
  BY DEF PairInv, StatesPaired
<1>a. ASSUME NEW e \in Execution, NEW es \in ExecutionState,
             execState' = [execState EXCEPT ![e] = es],
             UNCHANGED contractState, LegalPair(es, contractState[e])
      PROVE  Goal
  <2>1. contractState' = [contractState EXCEPT ![e] = contractState[e]]
    BY <1>a DEF TypeOK
  <2>2. PairWrite(e, es, contractState[e])
    BY <1>a, <2>1 DEF PairWrite
  <2> QED BY <2>2 DEF TypeOK
<1>1. ASSUME NEW r \in Request, NEW e \in Execution, Authorize(r, e)
      PROVE  Goal
  <2>1. PICK s \in {"Authorized", "Prepared"} :
          execState' = [execState EXCEPT ![e] = s]
    BY <1>1 DEF Authorize
  <2>2. execState[e] = None /\ UNCHANGED contractState
    BY <1>1 DEF Authorize
  <2>3. s \in ExecutionState /\ LegalPair(s, contractState[e])
    BY <1>0, <2>2 DEF LegalPair, ExecutionState, None
  <2> QED BY <1>a, <2>1, <2>2, <2>3
<1>2. ASSUME NEW r \in Slot, ExecuteClaim(r)
      PROVE  Goal
  <2>1. CASE UNCHANGED execState
    BY <1>2, <2>1 DEF ExecuteClaim
  <2>2. CASE /\ execState[req[r].e] \in Claimable
             /\ execState' = [execState EXCEPT ![req[r].e] = "Running"]
    <3>1. /\ req[r].e \in Execution /\ req[r].cs = "Prepared"
          /\ req[r].pc = "ready" /\ UNCHANGED contractState
      BY <1>2 DEF ExecuteClaim, RequestsOK, RequestOK
    <3>2. contractState[req[r].e] # None
      BY <3>1 DEF PairInv, ContractsKnown, None
    <3>3. LegalPair("Running", contractState[req[r].e])
      BY <1>0, <2>2, <3>1, <3>2 DEF LegalPair, Claimable, None
    <3> QED BY <1>a, <2>2, <3>1, <3>3 DEF ExecutionState
  <2> QED BY <1>2, <2>1, <2>2 DEF ExecuteClaim
<1>3. ASSUME NEW r \in Slot, HACancel(r)
      PROVE  Goal
  <2>1. CASE UNCHANGED execState
    BY <1>3, <2>1 DEF HACancel
  <2>2. CASE /\ execState[req[r].e] = req[r].es
             /\ execState' = [execState EXCEPT ![req[r].e] = "Canceled"]
    <3>1. /\ req[r].e \in Execution /\ req[r].es \in PreSideEffect
          /\ UNCHANGED contractState
      BY <1>3 DEF HACancel, RequestsOK, RequestOK
    <3>2. LegalPair("Canceled", contractState[req[r].e])
      BY <1>0, <2>2, <3>1 DEF LegalPair, PreSideEffect, None
    <3> QED BY <1>a, <2>2, <3>1, <3>2 DEF ExecutionState
  <2> QED BY <1>3, <2>1, <2>2 DEF HACancel
<1>4. ASSUME NEW r \in Slot, RecordAction(r)
      PROVE  Goal
  <2>1. PICK prev, name, es, cs, lk, kinds :
           /\ LegalRecord(req[r], prev, name, es, cs, lk, kinds)
           /\ RecordTransition(r, prev, name, es, cs, lk, kinds)
    BY <1>4, RecordActionIsLegal
  <2>2. req[r].e \in Execution
    BY <1>4 DEF RecordAction, Prepare, ExecuteRecord, VerifyRecord, Commit,
       Cancel, CompensateRecord, HARecover, RequestsOK, RequestOK
  <2> DEFINE e == req[r].e
             cs2 == IF cs = None THEN contractState[e] ELSE cs
  <2>3. CASE ~Recordable(req[r], prev, name, es, cs)
    BY <2>1, <2>3 DEF RecordTransition
  <2>4. CASE Recordable(req[r], prev, name, es, cs)
    <3>1. /\ execState' = [execState EXCEPT ![e] = es]
          /\ contractState' = [contractState EXCEPT ![e] = cs2]
          /\ execState[e] = prev
          /\ cs # None /\ req[r].cs # None => contractState[e] = req[r].cs
      BY <2>1, <2>2, <2>4 DEF RecordTransition, Recordable, TypeOK
    <3>2. es \in ExecutionState /\ cs2 \in RollbackState \cup {None}
      BY <2>1, <2>2 DEF LegalRecord, TypeOK
    <3>3. LegalPair(es, cs2)
      <4>1. CASE Prepares(req[r], prev, name, es, cs, lk)
        BY <4>1 DEF Prepares, LegalPair, None
      <4>2. CASE Cancels(req[r], prev, name, es, cs, lk)
        BY <4>2, <1>0, <2>2, <3>1 DEF Cancels, LegalPair, PreSideEffect, None
      <4>3. CASE Advances(req[r], prev, name, es, cs, lk)
        BY <4>3, <1>0, <2>2, <3>1 DEF Advances, LegalPair, None
      <4> QED BY <2>1, <4>1, <4>2, <4>3 DEF LegalRecord
    <3>4. contractState[e] # None => cs2 # None
      OBVIOUS
    <3>5. PairWrite(e, es, cs2)
      BY <3>1, <3>3, <3>4 DEF PairWrite
    <3> HIDE DEF e, cs2
    <3> QED BY <2>2, <3>2, <3>5 DEF e
  <2> QED BY <2>3, <2>4
<1>5. CASE UNCHANGED <<execState, contractState>>
  BY <1>5
<1>6. ASSUME NEW r \in Slot,
             \/ LoadContract(r) \/ ExecuteAdapter(r) \/ VerifyAdapter(r)
             \/ CompensateAdapter(r) \/ Emit(r) \/ MarkObligation(r)
             \/ CloseOutbox(r) \/ Abort(r)
      PROVE  UNCHANGED <<execState, contractState>>
  BY <1>6 DEF LoadContract, ExecuteAdapter, VerifyAdapter, CompensateAdapter,
     Emit, MarkObligation, CloseOutbox, Abort, rowVars
<1> HIDE DEF Goal
<1>7. Goal
  BY <1>1, <1>2, <1>3, <1>4, <1>5, <1>6 DEF Next, Step, RecordAction, rowVars,
     LoadExecution, Goal
<1> QED BY <1>7 DEF Goal

\* Every step keeps the pairs.
LEMMA PairStep ==
  ASSUME TypeOK, RequestsOK, RequestsOK', PairInv, [Next]_vars
  PROVE  PairInv'
<1>1. CASE UNCHANGED vars
  BY <1>1 DEF vars, PairInv, StatesPaired, LegalPair, ContractsKnown
<1>2. CASE Next
  <2>1. /\ StatesPaired'
        /\ \A f \in Execution : contractState[f] # None => contractState'[f] # None
    <3>1. CASE UNCHANGED <<execState, contractState>>
      BY <3>1 DEF PairInv, StatesPaired
    <3>2. ASSUME NEW e \in Execution, NEW es \in ExecutionState,
                 NEW cs \in RollbackState \cup {None}, PairWrite(e, es, cs)
          PROVE  /\ StatesPaired'
                 /\ \A f \in Execution :
                      contractState[f] # None => contractState'[f] # None
      BY <3>2, PairWriteOK DEF PairInv
    <3> QED BY <1>2, <3>1, <3>2, EveryStepWritesPairs
  <2>2. PICK r \in Slot : SlotStep(r)
    BY <1>2, EveryStepIsASlots
  <2>3. ContractsKnown'
    <3> SUFFICES ASSUME NEW s \in Slot, req'[s].pc # "idle", req'[s].cs # None
                 PROVE  contractState'[req'[s].e] # None
      BY DEF ContractsKnown
    <3>1. req'[s].e \in Execution
      BY DEF RequestsOK, RequestOK
    <3>2. contractState[req'[s].e] # None
      BY <2>2 DEF SlotStep, PairInv, ContractsKnown
    <3> QED BY <2>1, <3>1, <3>2
  <2> QED BY <2>1, <2>3 DEF PairInv
<1> QED BY <1>1, <1>2

\* The execution row and its contract row never disagree about the lifecycle,
\* although handlers read them in two queries and act on what they read later.
THEOREM RowsStayPaired == Spec => []StatesPaired
<1>1. PairInv => StatesPaired
  BY DEF PairInv
<1> QED BY <1>1, TypeInit, TypeStep, PairInit, PairStep, PTL DEF Spec

\* A contract row moves along the matrix: a handler that read it moves it from
\* the state it read, and a prepare that read none finds none or, by the
\* pairing, the row that an equal prepare wrote.
LEMMA ContractMoveStep ==
  ASSUME TypeOK, RequestsOK, StatesPaired, [Next]_vars
  PROVE  \A e \in Execution :
           contractState'[e] = contractState[e] \/ contractState[e] = None
             \/ IsValidRollbackTransition(contractState[e], contractState'[e])
<1> DEFINE Goal == \A e \in Execution :
             contractState'[e] = contractState[e] \/ contractState[e] = None
               \/ IsValidRollbackTransition(contractState[e], contractState'[e])
<1>1. ASSUME NEW r \in Slot, RecordAction(r)
      PROVE  Goal
  <2>1. PICK prev, name, es, cs, lk, kinds :
           /\ LegalRecord(req[r], prev, name, es, cs, lk, kinds)
           /\ RecordTransition(r, prev, name, es, cs, lk, kinds)
    BY <1>1, RecordActionIsLegal
  <2>2. PICK e \in Execution : e = req[r].e
    BY <1>1 DEF RecordAction, Prepare, ExecuteRecord, VerifyRecord, Commit,
       Cancel, CompensateRecord, HARecover, RequestsOK, RequestOK
  <2>3. CASE ~Recordable(req[r], prev, name, es, cs)
    BY <2>1, <2>3 DEF RecordTransition
  <2>4. CASE Recordable(req[r], prev, name, es, cs)
    <3>1. /\ contractState' = [contractState EXCEPT ![e] =
                                 IF cs = None THEN contractState[e] ELSE cs]
          /\ execState[e] = prev
          /\ cs # None /\ req[r].cs # None =>
               /\ contractState[e] = req[r].cs
               /\ IsValidRollbackTransition(req[r].cs, cs)
      BY <2>1, <2>2, <2>4 DEF RecordTransition, Recordable, TypeOK
    <3>2. LegalPair(execState[e], contractState[e])
      BY DEF StatesPaired
    <3>3. \/ cs = None
          \/ contractState[e] = None
          \/ contractState[e] = cs
          \/ IsValidRollbackTransition(contractState[e], cs)
      <4>1. CASE Prepares(req[r], prev, name, es, cs, lk)
        BY <4>1, <3>1, <3>2 DEF Prepares, LegalPair, None
      <4>2. CASE Cancels(req[r], prev, name, es, cs, lk)
        BY <4>2 DEF Cancels
      <4>3. CASE Advances(req[r], prev, name, es, cs, lk)
        BY <4>3, <3>1 DEF Advances
      <4> QED BY <2>1, <4>1, <4>2, <4>3 DEF LegalRecord
    <3> QED BY <3>1, <3>3 DEF TypeOK
  <2> QED BY <2>3, <2>4
<1>2. ASSUME UNCHANGED contractState
      PROVE  Goal
  BY <1>2
<1>3. ASSUME NEW r \in Slot,
             \/ LoadContract(r) \/ ExecuteClaim(r) \/ ExecuteAdapter(r)
             \/ VerifyAdapter(r) \/ CompensateAdapter(r) \/ HACancel(r)
             \/ Emit(r) \/ MarkObligation(r) \/ CloseOutbox(r) \/ Abort(r)
      PROVE  UNCHANGED contractState
  BY <1>3 DEF LoadContract, ExecuteClaim, ExecuteAdapter, VerifyAdapter,
     CompensateAdapter, HACancel, Emit, MarkObligation, CloseOutbox, Abort,
     rowVars
<1>4. ASSUME NEW r \in Slot, NEW op, NEW e \in Execution,
             Authorize(r, e) \/ LoadExecution(r, op, e)
      PROVE  UNCHANGED contractState
  BY <1>4 DEF Authorize, LoadExecution, rowVars
<1>5. ASSUME UNCHANGED vars
      PROVE  Goal
  BY <1>2, <1>5 DEF vars
<1> HIDE DEF Goal
<1>6. ASSUME NEW r \in Slot, Step(r)
      PROVE  Goal
  BY <1>1, <1>2, <1>3, <1>6 DEF Step, RecordAction
<1>7. ASSUME Next
      PROVE  Goal
  BY <1>2, <1>3, <1>4, <1>6, <1>7 DEF Next, Slot
<1> QED BY <1>5, <1>7 DEF Goal

\* No interleaving of handlers and reconcilers takes a contract off its matrix,
\* although each validates a move from a state that it read earlier.
THEOREM ContractMovesAlongMatrix == Spec => ContractMovesAreValid
<1> DEFINE Valid == \A e \in Execution :
             contractState'[e] = contractState[e] \/ contractState[e] = None
               \/ IsValidRollbackTransition(contractState[e], contractState'[e])
<1>1. TypeOK /\ RequestsOK /\ StatesPaired /\ [Next]_vars => [Valid]_vars
  BY ContractMoveStep
<1> QED BY <1>1, TypeSafety, RowsStayPaired, PTL
        DEF Spec, ContractMovesAreValid

------------------------------------------------------------------------------
(* One contract per execution *)

\* The outbox key of a prepare stays taken for as long as the execution can be
\* prepared again, so a second contract is never inserted, and the row that
\* was inserted stays linked until the execution is canceled.
PrepareKeyTaken(e) ==
  \E o \in outbox[e] : o.key = <<"prepare", execState[e], "Prepared">>

ContractOK(e) ==
  /\ contracts[e] = IF contractState[e] = None THEN 0 ELSE 1
  /\ contractState[e] # None =>
       /\ execState[e] \in {"Authorized", "Prepared"} => PrepareKeyTaken(e)
       /\ execState[e] # "Canceled" => linked[e]

ContractInv == \A e \in Execution : ContractOK(e)

\* Initially there are no contracts.
LEMMA ContractInit == Init => ContractInv
BY DEF Init, ContractInv, ContractOK

\* The variables that ContractOK reads.
contractVars == <<execState, linked, contractState, contracts, outbox>>

\* A transaction keeps ContractOK.
LEMMA ContractRecord ==
  ASSUME TypeOK, RequestsOK, ContractInv, NEW r \in Slot, RecordAction(r)
  PROVE  ContractInv'
<1>1. PICK prev, name, es, cs, lk, kinds :
         /\ LegalRecord(req[r], prev, name, es, cs, lk, kinds)
         /\ RecordTransition(r, prev, name, es, cs, lk, kinds)
  BY RecordActionIsLegal
<1>2. PICK e \in Execution : e = req[r].e
  BY DEF RecordAction, Prepare, ExecuteRecord, VerifyRecord, Commit,
     Cancel, CompensateRecord, HARecover, RequestsOK, RequestOK
<1>3. CASE ~Recordable(req[r], prev, name, es, cs)
  <2>1. UNCHANGED contractVars
    BY <1>1, <1>3 DEF RecordTransition, contractVars
  <2> QED BY <2>1 DEF contractVars, ContractInv, ContractOK, PrepareKeyTaken
<1>4. CASE Recordable(req[r], prev, name, es, cs)
  <2> DEFINE key == <<name, es, cs>>
             o == [key |-> key, kinds |-> {kinds[i] : i \in 1..Len(kinds)},
                   marked |-> {}, status |-> "PendingProvenance"]
  <2>1. /\ execState' = [execState EXCEPT ![e] = es]
        /\ linked' = [linked EXCEPT ![e] = lk]
        /\ contractState' = [contractState EXCEPT ![e] =
                               IF cs = None THEN @ ELSE cs]
        /\ contracts' = [contracts EXCEPT ![e] =
                           IF cs # None /\ req[r].cs = None THEN @ + 1 ELSE @]
        /\ AddOutbox(e, key, kinds)
    BY <1>1, <1>2, <1>4 DEF RecordTransition
  <2>2. outbox' = [outbox EXCEPT ![e] = @ \cup {o}]
    BY <2>1 DEF AddOutbox
  <2>3. /\ execState[e] = prev /\ KeyIsFree(e, key)
        /\ cs # None /\ req[r].cs # None => contractState[e] = req[r].cs
    BY <1>2, <1>4 DEF Recordable
  <2>4. o.key = key
    OBVIOUS
  <2> HIDE DEF o
  <2>5. /\ execState'[e] = es /\ linked'[e] = lk
        /\ contractState'[e] = IF cs = None THEN contractState[e] ELSE cs
        /\ contracts'[e] = IF cs # None /\ req[r].cs = None
                             THEN contracts[e] + 1 ELSE contracts[e]
        /\ o \in outbox'[e]
    BY <2>1, <2>2 DEF TypeOK
  <2>6. ContractOK(e)
    BY DEF ContractInv
  <2>7. ContractOK(e)'
    <3>1. CASE Prepares(req[r], prev, name, es, cs, lk)
      <4>1. contractState[e] = None
        BY <3>1, <2>3, <2>6 DEF Prepares, ContractOK, PrepareKeyTaken, KeyIsFree
      <4>2. contracts'[e] = 1 /\ contractState'[e] = "Prepared" /\ linked'[e]
        BY <3>1, <4>1, <2>5, <2>6 DEF Prepares, ContractOK, None
      <4>3. PrepareKeyTaken(e)'
        BY <3>1, <2>4, <2>5 DEF Prepares, PrepareKeyTaken
      <4> QED BY <4>2, <4>3 DEF ContractOK, None
    <3>2. CASE Advances(req[r], prev, name, es, cs, lk)
      <4>1. /\ cs # None /\ req[r].cs # None /\ lk
            /\ es \notin {"Authorized", "Prepared"}
        BY <3>2 DEF Advances, None
      <4>2. contractState[e] # None
        BY <2>3, <4>1
      <4>3. contracts'[e] = 1 /\ contractState'[e] # None /\ linked'[e]
        BY <2>5, <2>6, <4>1, <4>2 DEF ContractOK
      <4> QED BY <2>5, <4>1, <4>3 DEF ContractOK
    <3>3. CASE Cancels(req[r], prev, name, es, cs, lk)
      BY <3>3, <2>5, <2>6 DEF Cancels, ContractOK
    <3> QED BY <1>1, <3>1, <3>2, <3>3 DEF LegalRecord
  <2>8. ASSUME NEW f \in Execution, f # e
        PROVE  ContractOK(f)'
    <3>1. /\ execState'[f] = execState[f] /\ linked'[f] = linked[f]
          /\ contractState'[f] = contractState[f]
          /\ contracts'[f] = contracts[f] /\ outbox'[f] = outbox[f]
      BY <2>1, <2>2, <2>8 DEF TypeOK
    <3> QED BY <3>1 DEF ContractInv, ContractOK, PrepareKeyTaken
  <2> QED BY <2>7, <2>8 DEF ContractInv
<1> QED BY <1>3, <1>4

\* Every step keeps ContractOK.
LEMMA ContractStep ==
  ASSUME TypeOK, RequestsOK, PairInv, ContractInv, [Next]_vars
  PROVE  ContractInv'
<1>1. CASE UNCHANGED contractVars
  BY <1>1 DEF contractVars, ContractInv, ContractOK, PrepareKeyTaken
<1>a. ASSUME NEW e \in Execution, NEW t, execState' = [execState EXCEPT ![e] = t],
             UNCHANGED <<linked, contractState, contracts>>,
             \A f \in Execution : outbox[f] \subseteq outbox'[f],
             contractState[e] # None =>
               /\ t \notin {"Authorized", "Prepared"}
               /\ t # "Canceled" => linked[e]
      PROVE  ContractInv'
  <2>1. ContractOK(e)'
    <3>1. execState'[e] = t
      BY <1>a DEF TypeOK
    <3> QED BY <1>a, <3>1 DEF ContractInv, ContractOK
  <2>2. ASSUME NEW f \in Execution, f # e
        PROVE  ContractOK(f)'
    <3>1. execState'[f] = execState[f]
      BY <1>a, <2>2 DEF TypeOK
    <3> QED BY <1>a, <3>1 DEF ContractInv, ContractOK, PrepareKeyTaken
  <2> QED BY <2>1, <2>2 DEF ContractInv
<1>2. ASSUME NEW r \in Request, NEW e \in Execution, Authorize(r, e)
      PROVE  ContractInv'
  <2>1. PICK s \in {"Authorized", "Prepared"} :
          /\ execState' = [execState EXCEPT ![e] = s]
          /\ AddOutbox(e, <<"authorize", s, None>>, <<"ActionProposalSubmitted">>)
    BY <1>2 DEF Authorize
  <2>2. /\ execState[e] = None
        /\ UNCHANGED <<linked, contractState, contracts>>
    BY <1>2 DEF Authorize
  <2>3. contractState[e] = None
    BY <2>2 DEF PairInv, StatesPaired, LegalPair, None
  <2>4. \A f \in Execution : outbox[f] \subseteq outbox'[f]
    BY <2>1 DEF AddOutbox, TypeOK
  <2> QED BY <1>a, <2>1, <2>2, <2>3, <2>4
<1>3. ASSUME NEW r \in Slot, ExecuteClaim(r)
      PROVE  ContractInv'
  <2>0. req[r].e \in Execution
    BY <1>3 DEF ExecuteClaim, RequestsOK, RequestOK
  <2>1. CASE UNCHANGED execState
    BY <1>1, <1>3, <2>1 DEF ExecuteClaim, contractVars
  <2>2. CASE /\ execState[req[r].e] \in Claimable
             /\ execState' = [execState EXCEPT ![req[r].e] = "Running"]
    <3>1. contractState[req[r].e] # None => linked[req[r].e]
      BY <2>0, <2>2 DEF ContractInv, ContractOK, Claimable
    <3> QED BY <1>a, <1>3, <2>0, <2>2, <3>1 DEF ExecuteClaim
  <2> QED BY <1>3, <2>1, <2>2 DEF ExecuteClaim
<1>4. ASSUME NEW r \in Slot, HACancel(r)
      PROVE  ContractInv'
  <2>0. req[r].e \in Execution
    BY <1>4 DEF HACancel, RequestsOK, RequestOK
  <2>1. CASE UNCHANGED execState
    BY <1>1, <1>4, <2>1 DEF HACancel, contractVars
  <2>2. CASE execState' = [execState EXCEPT ![req[r].e] = "Canceled"]
    BY <1>a, <1>4, <2>0, <2>2 DEF HACancel
  <2> QED BY <1>4, <2>1, <2>2 DEF HACancel
<1>5. ASSUME NEW r \in Slot, Amends(r)
      PROVE  ContractInv'
  <2>2. UNCHANGED <<execState, linked, contractState, contracts>>
    BY <1>5, RecordsAmended DEF rowVars
  <2>4. ASSUME NEW f \in Execution, NEW o \in outbox[f]
        PROVE  \E p \in outbox'[f] : p.key = o.key
    BY <1>5, RecordsAmended
  <2> SUFFICES ASSUME NEW f \in Execution PROVE ContractOK(f)'
    BY DEF ContractInv
  <2>5. ContractOK(f)
    BY DEF ContractInv
  <2>6. ASSUME PrepareKeyTaken(f) PROVE PrepareKeyTaken(f)'
    <3>1. PICK o \in outbox[f] : o.key = <<"prepare", execState[f], "Prepared">>
      BY <2>6 DEF PrepareKeyTaken
    <3>2. PICK p \in outbox'[f] : p.key = o.key
      BY <2>4
    <3> QED BY <2>2, <3>1, <3>2 DEF PrepareKeyTaken
  <2> QED BY <2>2, <2>5, <2>6 DEF ContractOK
<1>6. ASSUME NEW r \in Slot,
             \/ LoadContract(r) \/ ExecuteAdapter(r) \/ VerifyAdapter(r)
             \/ CompensateAdapter(r) \/ Emit(r) \/ Abort(r)
      PROVE  UNCHANGED contractVars
  BY <1>6 DEF LoadContract, ExecuteAdapter, VerifyAdapter, CompensateAdapter,
     Emit, Abort, rowVars, contractVars
<1>7. ASSUME NEW r \in Slot, NEW op, NEW e \in Execution, LoadExecution(r, op, e)
      PROVE  UNCHANGED contractVars
  BY <1>7 DEF LoadExecution, rowVars, contractVars
<1>8. CASE UNCHANGED vars
  BY <1>1, <1>8 DEF vars, contractVars
<1> QED
  BY <1>1, <1>2, <1>3, <1>4, <1>5, <1>6, <1>7, <1>8, ContractRecord DEF Next,
     Step, RecordAction, Slot, Amends

\* The contract invariant holds throughout.
THEOREM ContractSafety == Spec => []ContractInv
BY TypeInit, TypeStep, PairInit, PairStep, ContractInit, ContractStep, PTL
   DEF Spec

\* However many prepares race, an execution has at most one contract.
THEOREM AtMostOneContract == Spec => []OneContract
<1>1. ContractInv => OneContract
  BY DEF ContractInv, ContractOK, OneContract
<1> QED BY <1>1, ContractSafety, PTL

\* A live execution never loses the pointer to its contract.
THEOREM ContractStaysLinked == Spec => []ContractLinked
<1>1. ContractInv => ContractLinked
  BY DEF ContractInv, ContractOK, ContractLinked
<1> QED BY <1>1, ContractSafety, PTL

------------------------------------------------------------------------------
(* What the handlers write, row by row *)

\* The moves of the pair of rows from (es0, cs0) to (es, cs), each with the
\* name its outbox record carries and what the writing request knows.  cs is
\* None when the contract row is left alone.
RowMove(q, es0, cs0, name, es, cs) ==
  \/ /\ name = "prepare" /\ es0 \in {"Authorized", "Prepared"} /\ es = es0
     /\ cs0 \in {None, "Prepared"} /\ cs = "Prepared"
  \/ /\ name = "cancel" /\ es0 \in PreSideEffect /\ es = "Canceled"
     /\ cs = None
  \/ /\ es0 = "Running" /\ cs0 = "Prepared"
     /\ \/ name = "ha-recovery" /\ es = "RecoveryRequired" /\ cs = es
        \/ /\ q.op = "execute" /\ q.pc = "called"
           /\ \/ /\ name = "execute" /\ es = "AwaitingVerification"
                 /\ cs = "ExecutedAwaitingVerify"
              \/ /\ name = "execute-recovery" /\ es = "RecoveryRequired"
                 /\ cs = es
  \/ /\ es0 = "AwaitingVerification" /\ cs0 = "ExecutedAwaitingVerify"
     /\ \/ /\ name = "verify" /\ q.op = "verify" /\ q.pc = "called"
           /\ q.out = "Applied"
           /\ es \in {es0, "Committed"} /\ cs = "Verified"
        \/ name = "verify" /\ es = "Failed" /\ cs = es
        \/ name = "verify-recovery" /\ es = "RecoveryRequired" /\ cs = es
        \/ name = "compensate" /\ es = "Failed" /\ cs = es
  \/ /\ es0 = "AwaitingVerification" /\ cs0 = "Verified" /\ name = "commit"
     /\ es = "Committed" /\ cs = es
  \/ /\ es0 = "RecoveryRequired" /\ cs0 = es0 /\ name = "compensate"
     /\ es = "RecoveryRequired" /\ cs = es
  \/ /\ \/ es0 = "AwaitingVerification" /\ cs0 = "ExecutedAwaitingVerify"
        \/ es0 = "RecoveryRequired" /\ cs0 = es0
     /\ name = "compensate" /\ q.op = "compensate" /\ q.pc = "called"
     /\ q.out = "Recovered" /\ es = "Compensated" /\ cs = es

NewRecord(name, es, cs, kinds) ==
  [key |-> <<name, es, cs>>, kinds |-> {kinds[i] : i \in 1..Len(kinds)},
   marked |-> {}, status |-> "PendingProvenance"]

\* One committed transaction of slot r.
Writes(r, e, name, es, cs, kinds) ==
  /\ e = req[r].e
  /\ name \in TransitionName /\ es \in ExecutionState
  /\ cs \in RollbackState \cup {None}
  /\ kinds \in Seq(EventKind) /\ kinds # <<>>
  /\ KeyIsFree(e, <<name, es, cs>>)
  /\ execState' = [execState EXCEPT ![e] = es]
  /\ contractState' = [contractState EXCEPT ![e] =
                         IF cs = None THEN contractState[e] ELSE cs]
  /\ outbox' = [outbox EXCEPT ![e] = @ \cup {NewRecord(name, es, cs, kinds)}]
  /\ Owe(r, <<name, es, cs>>, kinds)

\* A handler's transaction commits one of these moves or changes nothing.
LEMMA RecordWrites ==
  ASSUME TypeOK, RequestsOK, PairInv, NEW r \in Slot, RecordAction(r)
  PROVE  /\ UNCHANGED <<worldVars, events>>
         /\ \/ Finish(r) /\ UNCHANGED <<execState, contractState, outbox>>
            \/ \E e \in Execution : \E name, es, cs, kinds :
                 /\ Writes(r, e, name, es, cs, kinds)
                 /\ RowMove(req[r], execState[e], contractState[e], name, es, cs)
<1> DEFINE Goal ==
             \/ Finish(r) /\ UNCHANGED <<execState, contractState, outbox>>
             \/ \E e \in Execution : \E name, es, cs, kinds :
                  /\ Writes(r, e, name, es, cs, kinds)
                  /\ RowMove(req[r], execState[e], contractState[e], name, es, cs)
<1>1. UNCHANGED <<worldVars, events>>
  BY DEF RecordAction, Prepare, ExecuteRecord, VerifyRecord, Commit,
     Cancel, CompensateRecord, HARecover
<1> SUFFICES Goal
  BY <1>1
<1>2. PICK e \in Execution : e = req[r].e
  BY DEF RecordAction, Prepare, ExecuteRecord, VerifyRecord, Commit,
     Cancel, CompensateRecord, HARecover, RequestsOK, RequestOK
<1>3. LegalPair(execState[e], contractState[e])
  BY DEF PairInv, StatesPaired
<1>4. RequestOK(req[r])
  BY DEF RequestsOK
\* The shape of a transaction, given the move it makes.
<1>5. ASSUME NEW prev, NEW name, NEW es, NEW cs, NEW lk, NEW kinds,
             RecordTransition(r, prev, name, es, cs, lk, kinds),
             name \in TransitionName, es \in ExecutionState,
             cs \in RollbackState \cup {None},
             kinds \in Seq(EventKind), kinds # <<>>,
             Recordable(req[r], prev, name, es, cs) =>
               RowMove(req[r], execState[e], contractState[e], name, es, cs)
      PROVE  Goal
  <2>1. CASE ~Recordable(req[r], prev, name, es, cs)
    BY <1>5, <2>1 DEF RecordTransition
  <2>2. CASE Recordable(req[r], prev, name, es, cs)
    <3>1. /\ execState' = [execState EXCEPT ![e] = es]
          /\ contractState' = [contractState EXCEPT ![e] =
                                 IF cs = None THEN contractState[e] ELSE cs]
          /\ outbox' = [outbox EXCEPT ![e] =
                          @ \cup {NewRecord(name, es, cs, kinds)}]
          /\ Owe(r, <<name, es, cs>>, kinds)
          /\ KeyIsFree(e, <<name, es, cs>>)
      BY <1>2, <1>5, <2>2 DEF RecordTransition, Recordable, AddOutbox, NewRecord
    <3>2. Writes(r, e, name, es, cs, kinds)
      BY <1>2, <1>5, <3>1 DEF Writes
    <3> QED BY <1>2, <1>5, <2>2, <3>2
  <2> QED BY <2>1, <2>2
<1> USE EventKinds, EventLists DEF TransitionName, ExecutionState, RollbackState
<1> HIDE DEF Goal
<1>6. CASE Prepare(r)
  <2>1. RecordTransition(r, req[r].es, "prepare", req[r].es, "Prepared", TRUE,
                         <<"SideEffectPrepared", "ToolCallPrepared">>)
    BY <1>6 DEF Prepare
  <2>2. req[r].es \in {"Authorized", "Prepared"}
    BY <1>4, <1>6 DEF Prepare, RequestOK
  <2>3. Recordable(req[r], req[r].es, "prepare", req[r].es, "Prepared") =>
          RowMove(req[r], execState[e], contractState[e], "prepare", req[r].es,
                  "Prepared")
    BY <1>2, <1>3, <2>2 DEF Recordable, RowMove, LegalPair, None
  <2> QED BY <1>5, <2>1, <2>2, <2>3
<1>7. CASE ExecuteRecord(r)
  <2>1. req[r].op = "execute" /\ req[r].pc = "called" /\ req[r].cs = "Prepared"
    BY <1>4, <1>7 DEF ExecuteRecord, RequestOK
  <2>2. \/ RecordTransition(r, "Running", "execute", "AwaitingVerification",
                            "ExecutedAwaitingVerify", req[r].lk,
                            <<"ToolCallExecuted">>)
        \/ RecordTransition(r, "Running", "execute-recovery",
                            "RecoveryRequired", "RecoveryRequired", req[r].lk,
                            <<"ErrorRaised">>)
    BY <1>7 DEF ExecuteRecord
  <2>3. /\ Recordable(req[r], "Running", "execute", "AwaitingVerification",
                      "ExecutedAwaitingVerify") =>
             RowMove(req[r], execState[e], contractState[e], "execute",
                     "AwaitingVerification", "ExecutedAwaitingVerify")
        /\ Recordable(req[r], "Running", "execute-recovery",
                      "RecoveryRequired", "RecoveryRequired") =>
             RowMove(req[r], execState[e], contractState[e], "execute-recovery",
                     "RecoveryRequired", "RecoveryRequired")
    BY <1>2, <2>1 DEF Recordable, RowMove, None
  <2> QED BY <1>5, <2>2, <2>3
<1>8. CASE VerifyRecord(r)
  <2>1. /\ req[r].op = "verify" /\ req[r].pc = "called"
        /\ req[r].cs = "ExecutedAwaitingVerify"
        /\ req[r].es \in {"Running", "AwaitingVerification"}
    BY <1>4, <1>8 DEF VerifyRecord, RequestOK
  <2>2. ASSUME NEW name, NEW es, NEW cs, cs # None,
               Recordable(req[r], req[r].es, name, es, cs)
        PROVE  /\ execState[e] = "AwaitingVerification"
               /\ req[r].es = "AwaitingVerification"
               /\ contractState[e] = "ExecutedAwaitingVerify"
    BY <1>2, <1>3, <2>1, <2>2 DEF Recordable, LegalPair, None
  <2>3. CASE /\ req[r].out = "Applied"
             /\ RecordTransition(r, req[r].es, "verify", "Committed", "Verified",
                   req[r].lk, <<"SideEffectVerified", "SideEffectCommitted">>)
    <3>1. Recordable(req[r], req[r].es, "verify", "Committed", "Verified") =>
            RowMove(req[r], execState[e], contractState[e], "verify",
                    "Committed", "Verified")
      BY <2>1, <2>2, <2>3 DEF RowMove, None
    <3> QED BY <1>5, <2>3, <3>1
  <2>4. CASE /\ req[r].out = "Applied"
             /\ RecordTransition(r, req[r].es, "verify", req[r].es, "Verified",
                                 req[r].lk, <<"SideEffectVerified">>)
    <3>1. Recordable(req[r], req[r].es, "verify", req[r].es, "Verified") =>
            RowMove(req[r], execState[e], contractState[e], "verify",
                    req[r].es, "Verified")
      BY <2>1, <2>2, <2>4 DEF RowMove, None
    <3> QED BY <1>5, <2>1, <2>4, <3>1
  <2>5. CASE RecordTransition(r, req[r].es, "verify", "Failed", "Failed",
                              req[r].lk, <<"SideEffectVerified">>)
    <3>1. Recordable(req[r], req[r].es, "verify", "Failed", "Failed") =>
            RowMove(req[r], execState[e], contractState[e], "verify",
                    "Failed", "Failed")
      BY <2>1, <2>2 DEF RowMove, None
    <3> QED BY <1>5, <2>5, <3>1
  <2>6. CASE RecordTransition(r, req[r].es, "verify-recovery",
                              "RecoveryRequired", "RecoveryRequired",
                              req[r].lk, <<"ErrorRaised">>)
    <3>1. Recordable(req[r], req[r].es, "verify-recovery",
                     "RecoveryRequired", "RecoveryRequired") =>
            RowMove(req[r], execState[e], contractState[e], "verify-recovery",
                    "RecoveryRequired", "RecoveryRequired")
      BY <2>1, <2>2 DEF RowMove, None
    <3> QED BY <1>5, <2>6, <3>1
  <2> QED BY <1>8, <2>3, <2>4, <2>5, <2>6 DEF VerifyRecord
<1>9. CASE Commit(r)
  <2>1. req[r].cs = "Verified" /\ req[r].es \notin ExecutionTerminal
    BY <1>4, <1>9 DEF Commit, RequestOK
  <2>2. Recordable(req[r], req[r].es, "commit", "Committed", "Committed") =>
          RowMove(req[r], execState[e], contractState[e], "commit",
                  "Committed", "Committed")
    BY <1>2, <1>3, <2>1 DEF Recordable, RowMove, LegalPair, None,
       ExecutionTerminal
  <2>3. RecordTransition(r, req[r].es, "commit", "Committed", "Committed",
                         req[r].lk, <<"SideEffectCommitted">>)
    BY <1>9 DEF Commit
  <2> QED BY <1>5, <2>2, <2>3
<1>10. CASE Cancel(r)
  <2>1. req[r].es \in PreSideEffect
    BY <1>4, <1>10 DEF Cancel, RequestOK
  <2>2. Recordable(req[r], req[r].es, "cancel", "Canceled", None) =>
          RowMove(req[r], execState[e], contractState[e], "cancel",
                  "Canceled", None)
    BY <1>2, <2>1 DEF Recordable, RowMove, None
  <2>3. RecordTransition(r, req[r].es, "cancel", "Canceled", None, req[r].lk,
                         <<"SideEffectRolledBack">>)
    BY <1>10 DEF Cancel
  <2> QED BY <1>5, <2>2, <2>3
<1>11. CASE CompensateRecord(r)
  <2>1. /\ req[r].op = "compensate" /\ req[r].pc = "called"
        /\ req[r].cs \in {"ExecutedAwaitingVerify", "RecoveryRequired"}
        /\ req[r].es \in {"Running", "AwaitingVerification", "RecoveryRequired"}
    BY <1>4, <1>11 DEF CompensateRecord, RequestOK
  <2>2. ASSUME NEW name, NEW es, NEW cs, cs # None,
               Recordable(req[r], req[r].es, name, es, cs)
        PROVE  /\ req[r].es = execState[e]
               /\ \/ /\ execState[e] = "AwaitingVerification"
                     /\ contractState[e] = "ExecutedAwaitingVerify"
                  \/ /\ execState[e] = "RecoveryRequired"
                     /\ contractState[e] = "RecoveryRequired"
    BY <1>2, <1>3, <2>1, <2>2 DEF Recordable, LegalPair, None
  <2>3. CASE /\ req[r].out = "Recovered"
             /\ RecordTransition(r, req[r].es, "compensate", "Compensated",
                   "Compensated", req[r].lk, <<"SideEffectCompensated">>)
    <3>1. Recordable(req[r], req[r].es, "compensate", "Compensated",
                     "Compensated") =>
            RowMove(req[r], execState[e], contractState[e], "compensate",
                    "Compensated", "Compensated")
      BY <2>1, <2>2, <2>3 DEF RowMove, None
    <3> QED BY <1>5, <2>3, <3>1
  <2>4. ASSUME NEW s \in {"RecoveryRequired", "Failed"},
               s = "RecoveryRequired" <=> req[r].es = "RecoveryRequired",
               RecordTransition(r, req[r].es, "compensate", s, s, req[r].lk,
                                <<"ErrorRaised">>)
        PROVE  Goal
    <3>1. Recordable(req[r], req[r].es, "compensate", s, s) =>
            RowMove(req[r], execState[e], contractState[e], "compensate", s, s)
      BY <2>1, <2>2, <2>4 DEF RowMove, None
    <3> QED BY <1>5, <2>4, <3>1
  <2> QED BY <1>11, <2>3, <2>4 DEF CompensateRecord
<1>12. CASE HARecover(r)
  <2>1. req[r].cs = "Prepared"
    BY <1>4, <1>12 DEF HARecover, RequestOK
  <2>2. Recordable(req[r], "Running", "ha-recovery", "RecoveryRequired",
                   "RecoveryRequired") =>
          RowMove(req[r], execState[e], contractState[e], "ha-recovery",
                  "RecoveryRequired", "RecoveryRequired")
    BY <1>2, <2>1 DEF Recordable, RowMove, None
  <2>3. RecordTransition(r, "Running", "ha-recovery", "RecoveryRequired",
                         "RecoveryRequired", req[r].lk, <<"ErrorRaised">>)
    BY <1>12 DEF HARecover
  <2> QED BY <1>5, <2>2, <2>3
<1> QED
  BY <1>6, <1>7, <1>8, <1>9, <1>10, <1>11, <1>12 DEF RecordAction

\* No key is ever removed from the outbox.
LEMMA KeysStay ==
  ASSUME TypeOK, RequestsOK, PairInv, [Next]_vars
  PROVE  \A f \in Execution : \A o \in outbox[f] :
           \E p \in outbox'[f] : p.key = o.key
<1> DEFINE Goal == \A f \in Execution : \A o \in outbox[f] :
                     \E p \in outbox'[f] : p.key = o.key
<1>1. CASE UNCHANGED outbox
  BY <1>1
<1>2. ASSUME NEW r \in Slot, NEW e \in Execution, Authorize(r, e)
      PROVE  Goal
  <2>1. \A f \in Execution : outbox[f] \subseteq outbox'[f]
    BY <1>2 DEF Authorize, AddOutbox, TypeOK
  <2> QED BY <2>1
<1>3. ASSUME NEW r \in Slot, Amends(r)
      PROVE  Goal
  BY <1>3, RecordsAmended
<1>4. ASSUME NEW r \in Slot, RecordAction(r)
      PROVE  Goal
  <2>1. CASE UNCHANGED outbox
    BY <1>1, <2>1
  <2>2. ASSUME NEW e \in Execution, NEW name, NEW es, NEW cs, NEW kinds,
               Writes(r, e, name, es, cs, kinds)
        PROVE  Goal
    <3>1. \A f \in Execution : outbox[f] \subseteq outbox'[f]
      BY <2>2 DEF Writes, TypeOK
    <3> QED BY <3>1
  <2> HIDE DEF Goal
  <2> QED BY <1>4, <2>1, <2>2, RecordWrites
<1>5. ASSUME NEW r \in Slot,
             \/ LoadContract(r) \/ ExecuteClaim(r) \/ ExecuteAdapter(r)
             \/ VerifyAdapter(r) \/ CompensateAdapter(r) \/ HACancel(r)
             \/ Emit(r) \/ Abort(r)
      PROVE  UNCHANGED outbox
  BY <1>5 DEF LoadContract, ExecuteClaim, ExecuteAdapter, VerifyAdapter,
     CompensateAdapter, HACancel, Emit, Abort
<1>6. ASSUME NEW r \in Slot, NEW op, NEW e \in Execution, LoadExecution(r, op, e)
      PROVE  UNCHANGED outbox
  BY <1>6 DEF LoadExecution
<1>7. CASE UNCHANGED vars
  BY <1>1, <1>7 DEF vars
<1> QED BY <1>1, <1>2, <1>3, <1>4, <1>5, <1>6, <1>7 DEF Next, Step,
        RecordAction, Slot, Amends

------------------------------------------------------------------------------
(* The declared outcome and the world *)

\* The HA reconciler took the execution from a handler.
HaTook(e) == \E o \in outbox[e] : o.key[1] = "ha-recovery"

\* No first call of the adapter is to come, or the HA reconciler stopped
\* waiting for it.
Settled(e) == executeCalls[e] > 0 \/ HaTook(e)

\* An outcome that a row declares was true when it was written, if the adapter's
\* answer was, and has only been changed by a compensation or by the handler
\* that HA gave up on.
StillApplied(e) == compensateCalled[e] \/ misreported[e] \/ effect[e]
StillUndone(e) == HaTook(e) \/ misreported[e] \/ ~effect[e]
WorldRowOK(e) ==
  /\ execState[e] = "AwaitingVerification" => executeCalls[e] > 0
  /\ execState[e] \in {"RecoveryRequired", "Compensated"} => Settled(e)
  /\ contractState[e] \in {"Verified", "Committed"} => StillApplied(e)
  /\ execState[e] = "Compensated" => StillUndone(e)

\* So is the answer of the adapter that a request is about to record.
WorldRequestOK(q) ==
  /\ q.pc = "called" /\ q.op = "execute" => executeCalls[q.e] > 0
  /\ q.pc = "called" /\ q.op = "verify" /\ q.out = "Applied" => StillApplied(q.e)
  /\ q.pc \in {"ready", "called"} /\ q.op = "compensate" =>
       execState[q.e] \notin Unclaimed /\ Settled(q.e)
  /\ q.pc = "called" /\ q.op = "compensate" /\ q.out = "Recovered" =>
       StillUndone(q.e)

WorldInv ==
  /\ \A e \in Execution : WorldRowOK(e)
  /\ \A r \in Slot : WorldRequestOK(req[r])

\* Initially nothing is declared and nobody waits for an answer.
LEMMA WorldInit == Init => WorldInv
BY DEF Init, WorldInv, WorldRowOK, WorldRequestOK, Idle, None

\* How the world may change: calls are counted, a compensation and a wrong
\* answer are remembered, only a compensation takes an effect away, and only the first call of execute
\* puts one in place.
WorldGrows(e) ==
  /\ executeCalls[e] > 0 => executeCalls'[e] > 0
  /\ HaTook(e) => HaTook(e)'
  /\ compensateCalled[e] => compensateCalled'[e]
  /\ misreported[e] => misreported'[e]
  /\ effect[e] => effect'[e] \/ compensateCalled'[e]
  /\ ~effect[e] => ~effect'[e] \/ executeCalls[e] = 0
  /\ execState[e] \notin Unclaimed => execState'[e] \notin Unclaimed

\* Every step changes the world that way only.
LEMMA WorldGrowsStep ==
  ASSUME TypeOK, RequestsOK, TypeOK', PairInv, ClaimInv, [Next]_vars
  PROVE  \A e \in Execution : WorldGrows(e)
<1>1. \A e \in Execution :
        /\ HaTook(e) => HaTook(e)'
        /\ execState[e] \notin Unclaimed => execState'[e] \notin Unclaimed
  <2>1. \A e \in Execution : HaTook(e) => HaTook(e)'
    BY KeysStay DEF HaTook
  <2>2. \A e \in Execution :
          execState[e] \notin Unclaimed => execState'[e] \notin Unclaimed
    BY MoveStep, UnclaimedIsLost DEF TypeOK
  <2> QED BY <2>1, <2>2
<1>2. CASE UNCHANGED worldVars
  BY <1>1, <1>2 DEF worldVars, WorldGrows
<1>3. ASSUME NEW r \in Slot, ExecuteAdapter(r)
      PROVE  \A e \in Execution : WorldGrows(e)
  <2>1. PICK e \in Execution : e = req[r].e /\ Claimed(r, e)
    BY <1>3 DEF ExecuteAdapter, RequestsOK, RequestOK, Claimed
  <2>2. executeCalls[e] = 0
    BY <2>1 DEF ClaimInv
  <2>3. PICK applied \in BOOLEAN : effect' = [effect EXCEPT ![e] = @ \/ applied]
    BY <1>3, <2>1 DEF ExecuteAdapter
  <2>4. /\ executeCalls' = [executeCalls EXCEPT ![e] = @ + 1]
        /\ UNCHANGED <<compensateCalled, misreported>>
    BY <1>3, <2>1 DEF ExecuteAdapter
  <2>5. ASSUME NEW f \in Execution
        PROVE  /\ executeCalls[f] > 0 => executeCalls'[f] > 0
               /\ effect[f] => effect'[f]
               /\ ~effect[f] => ~effect'[f] \/ executeCalls[f] = 0
    <3>1. CASE f = e
      BY <2>2, <2>3, <3>1 DEF TypeOK
    <3>2. CASE f # e
      BY <2>3, <2>4, <3>2 DEF TypeOK
    <3> QED BY <3>1, <3>2
  <2> QED BY <1>1, <2>4, <2>5 DEF WorldGrows
<1>4. ASSUME NEW r \in Slot, CompensateAdapter(r)
      PROVE  \A e \in Execution : WorldGrows(e)
  <2>1. PICK e \in Execution : e = req[r].e
    BY <1>4 DEF CompensateAdapter, RequestsOK, RequestOK
  <2>2. PICK still \in {FALSE, effect[e]} : effect' = [effect EXCEPT ![e] = still]
    BY <1>4, <2>1 DEF CompensateAdapter
  <2>3. /\ compensateCalled' = [compensateCalled EXCEPT ![e] = TRUE]
        /\ UNCHANGED executeCalls
    BY <1>4, <2>1 DEF CompensateAdapter
  <2>5. \A f \in Execution : misreported[f] => misreported'[f]
    BY <1>4, <2>1 DEF CompensateAdapter, TypeOK
  <2>4. ASSUME NEW f \in Execution
        PROVE  /\ compensateCalled[f] => compensateCalled'[f]
               /\ effect[f] => effect'[f] \/ compensateCalled'[f]
               /\ ~effect[f] => ~effect'[f]
    <3>1. CASE f = e
      BY <2>2, <2>3, <3>1 DEF TypeOK
    <3>2. CASE f # e
      BY <2>2, <2>3, <3>2 DEF TypeOK
    <3> QED BY <3>1, <3>2
  <2> QED BY <1>1, <2>3, <2>4, <2>5 DEF WorldGrows
<1>9. ASSUME NEW r \in Slot, VerifyAdapter(r)
      PROVE  \A e \in Execution : WorldGrows(e)
  <2>1. UNCHANGED <<executeCalls, effect, compensateCalled>>
    BY <1>9 DEF VerifyAdapter
  <2>2. \A f \in Execution : misreported[f] => misreported'[f]
    BY <1>9 DEF VerifyAdapter, TypeOK
  <2> QED BY <1>1, <2>1, <2>2 DEF WorldGrows
<1>5. ASSUME NEW r \in Slot, RecordAction(r)
      PROVE  UNCHANGED worldVars
  BY <1>5, RecordWrites
<1>6. ASSUME NEW r \in Slot,
             \/ LoadContract(r) \/ ExecuteClaim(r) \/ HACancel(r)
             \/ Emit(r) \/ MarkObligation(r) \/ CloseOutbox(r) \/ Abort(r)
      PROVE  UNCHANGED worldVars
  BY <1>6 DEF LoadContract, ExecuteClaim, HACancel, Emit, MarkObligation,
     CloseOutbox, Abort
<1>7. ASSUME NEW r \in Slot, NEW op, NEW e \in Execution,
             Authorize(r, e) \/ LoadExecution(r, op, e)
      PROVE  UNCHANGED worldVars
  BY <1>7 DEF Authorize, LoadExecution
<1>8. CASE UNCHANGED vars
  BY <1>2, <1>8 DEF vars, worldVars
<1> QED BY <1>2, <1>3, <1>4, <1>5, <1>6, <1>7, <1>8, <1>9 DEF Next, Step,
        RecordAction, Slot

\* Rows and requests that a step leaves alone stay true of the world.
LEMMA WorldFrame ==
  ASSUME TypeOK, TypeOK', RequestsOK, WorldInv,
         \A e \in Execution : WorldGrows(e)
  PROVE  /\ \A e \in Execution :
              /\ execState'[e] = execState[e] /\ contractState'[e] = contractState[e]
              => WorldRowOK(e)'
         /\ \A r \in Slot : req'[r] = req[r] => WorldRequestOK(req[r])'
<1>0. \A e \in Execution : executeCalls[e] \in Nat /\ executeCalls'[e] \in Nat
  BY DEF TypeOK
<1>1. \A e \in Execution : Settled(e) => Settled(e)'
  BY DEF WorldGrows, Settled
<1>2. ASSUME NEW e \in Execution, Settled(e), StillUndone(e)
      PROVE  StillUndone(e)'
  BY <1>0, <1>2 DEF WorldGrows, Settled, StillUndone
<1>3. ASSUME NEW e \in Execution, StillApplied(e)
      PROVE  StillApplied(e)'
  BY <1>3 DEF WorldGrows, StillApplied
<1>4. ASSUME NEW e \in Execution,
             execState'[e] = execState[e], contractState'[e] = contractState[e]
      PROVE  WorldRowOK(e)'
  <2>1. WorldRowOK(e)
    BY DEF WorldInv
  <2>2. execState[e] = "AwaitingVerification" => executeCalls'[e] > 0
    BY <2>1 DEF WorldRowOK, WorldGrows
  <2> QED BY <1>1, <1>2, <1>3, <1>4, <2>1, <2>2 DEF WorldRowOK
<1>5. ASSUME NEW r \in Slot, req'[r] = req[r]
      PROVE  WorldRequestOK(req[r])'
  <2>1. WorldRequestOK(req[r])
    BY DEF WorldInv
  <2>2. CASE req[r].pc = "idle"
    BY <1>5, <2>2 DEF WorldRequestOK
  <2>3. CASE req[r].pc # "idle"
    <3>1. PICK e \in Execution : e = req[r].e
      BY <2>3 DEF RequestsOK, RequestOK
    <3>2. /\ executeCalls[e] > 0 => executeCalls'[e] > 0
          /\ execState[e] \notin Unclaimed => execState'[e] \notin Unclaimed
      BY DEF WorldGrows
    <3> QED BY <1>1, <1>2, <1>3, <1>5, <2>1, <3>1, <3>2 DEF WorldRequestOK
  <2> QED BY <2>2, <2>3
<1> QED BY <1>4, <1>5

\* What a step of slot r owes: the row it writes and its own request.
LEMMA WorldOne ==
  ASSUME TypeOK, TypeOK', RequestsOK, WorldInv,
         \A e \in Execution : WorldGrows(e),
         NEW r \in Slot, \A s \in Slot \ {r} : req'[s] = req[s],
         WorldRequestOK(req[r])',
         NEW e \in Execution,
         \A f \in Execution \ {e} :
           execState'[f] = execState[f] /\ contractState'[f] = contractState[f],
         \/ WorldRowOK(e)'
         \/ execState'[e] = execState[e] /\ contractState'[e] = contractState[e]
  PROVE  WorldInv'
<1>1. \A f \in Execution : WorldRowOK(f)'
  BY WorldFrame
<1>2. \A s \in Slot : WorldRequestOK(req[s])'
  BY WorldFrame
<1> QED BY <1>1, <1>2 DEF WorldInv

\* A transaction declares only what is true of the world.
LEMMA WorldRecord ==
  ASSUME TypeOK, RequestsOK, TypeOK', PairInv, WorldInv,
         \A e \in Execution : WorldGrows(e), NEW r \in Slot, RecordAction(r)
  PROVE  WorldInv'
<1>1. UNCHANGED <<executeCalls, effect, compensateCalled, misreported>>
  BY RecordWrites DEF worldVars
<1>2. CASE Finish(r) /\ UNCHANGED <<execState, contractState, outbox>>
  <2>1. /\ \A s \in Slot \ {r} : req'[s] = req[s]
        /\ req'[r].pc = "idle"
    BY <1>2 DEF Finish, Idle, TypeOK
  <2>2. WorldRequestOK(req[r])'
    BY <2>1 DEF WorldRequestOK
  <2>3. \A s \in Slot : WorldRequestOK(req[s])'
    BY <2>1, <2>2, WorldFrame
  <2>4. \A f \in Execution : WorldRowOK(f)'
    BY <1>2, WorldFrame
  <2> QED BY <2>3, <2>4 DEF WorldInv
<1>3. ASSUME NEW e \in Execution, NEW name, NEW es, NEW cs, NEW kinds,
             Writes(r, e, name, es, cs, kinds),
             RowMove(req[r], execState[e], contractState[e], name, es, cs)
      PROVE  WorldInv'
  <2>1. /\ \A s \in Slot \ {r} : req'[s] = req[s]
        /\ req'[r].pc = "recorded"
    BY <1>3 DEF Writes, Owe, TypeOK, RequestRecord
  <2>2. WorldRequestOK(req[r])'
    BY <2>1 DEF WorldRequestOK
  <2>3. /\ execState'[e] = es
        /\ contractState'[e] = IF cs = None THEN contractState[e] ELSE cs
        /\ \A f \in Execution \ {e} :
             execState'[f] = execState[f] /\ contractState'[f] = contractState[f]
        /\ NewRecord(name, es, cs, kinds) \in outbox'[e]
    BY <1>3 DEF Writes, TypeOK
  <2>4. WorldRowOK(e) /\ WorldRequestOK(req[r]) /\ req[r].e = e
    BY <1>3 DEF WorldInv, Writes
  <2>5. Settled(e) => Settled(e)'
    BY <1>1 DEF Settled, WorldGrows
  <2>6. name = "ha-recovery" => HaTook(e)'
    <3>1. NewRecord(name, es, cs, kinds).key[1] = name
      BY DEF NewRecord
    <3> QED BY <2>3, <3>1 DEF HaTook
  <2>7. HaTook(e) => HaTook(e)'
    BY DEF WorldGrows
  <2>8. executeCalls[e] > 0 => Settled(e)'
    BY <1>1 DEF Settled
  <2>9. HaTook(e)' => Settled(e)'
    BY DEF Settled
  <2>11. /\ StillApplied(e) => StillApplied(e)'
         /\ StillUndone(e) => StillUndone(e)'
    BY <1>1, <2>7 DEF StillApplied, StillUndone
  <2>10. WorldRowOK(e)'
    BY <1>1, <1>3, <2>3, <2>4, <2>5, <2>6, <2>7, <2>8, <2>9, <2>11
       DEF RowMove, WorldRowOK, WorldRequestOK, None
  <2> QED BY <2>1, <2>2, <2>3, <2>10, WorldOne
<1> QED BY <1>2, <1>3, RecordWrites

\* Every step keeps what rows and requests say true of the world.
LEMMA WorldStep ==
  ASSUME TypeOK, RequestsOK, TypeOK', PairInv, ClaimInv, WorldInv, [Next]_vars
  PROVE  WorldInv'
<1>0. \A e \in Execution : WorldGrows(e)
  BY WorldGrowsStep
<1>a. ASSUME NEW r \in Slot, \A s \in Slot \ {r} : req'[s] = req[s],
             UNCHANGED <<execState, contractState>>, WorldRequestOK(req[r])'
      PROVE  WorldInv'
  <2>1. \A s \in Slot : WorldRequestOK(req[s])'
    BY <1>0, <1>a, WorldFrame
  <2>2. \A f \in Execution : WorldRowOK(f)'
    BY <1>0, <1>a, WorldFrame
  <2> QED BY <2>1, <2>2 DEF WorldInv
<1>b. ASSUME NEW r \in Slot, Finish(r)
      PROVE  (\A s \in Slot \ {r} : req'[s] = req[s]) /\ WorldRequestOK(req[r])'
  <2>1. (\A s \in Slot \ {r} : req'[s] = req[s]) /\ req'[r].pc = "idle"
    BY <1>b DEF Finish, Idle, TypeOK
  <2> QED BY <2>1 DEF WorldRequestOK
<1>c. \A s \in ExecutionState : s \notin {"AwaitingVerification",
         "RecoveryRequired", "Compensated"} =>
         \A e \in Execution :
           /\ execState'[e] = s /\ contractState'[e] = contractState[e]
           => WorldRowOK(e)'
  BY <1>0 DEF WorldInv, WorldRowOK, WorldGrows, StillApplied
<1>1. ASSUME NEW r \in Request, NEW e \in Execution, Authorize(r, e)
      PROVE  WorldInv'
  <2>1. PICK s \in {"Authorized", "Prepared"} :
          /\ execState' = [execState EXCEPT ![e] = s]
          /\ req' = [req EXCEPT ![r] =
               [Idle EXCEPT !.op = "authorize", !.e = e, !.es = s,
                  !.pc = "recorded", !.key = <<"authorize", s, None>>,
                  !.owed = <<"ActionProposalSubmitted">>]]
    BY <1>1 DEF Authorize
  <2>2. r \in Slot
    BY DEF Slot
  <2>3. /\ \A s2 \in Slot \ {r} : req'[s2] = req[s2]
        /\ req'[r].pc = "recorded"
    BY <2>1, <2>2 DEF TypeOK, Idle
  <2>4. WorldRequestOK(req[r])'
    BY <2>3 DEF WorldRequestOK
  <2>5. /\ UNCHANGED contractState /\ execState'[e] = s
        /\ \A f \in Execution \ {e} : execState'[f] = execState[f]
    BY <1>1, <2>1 DEF Authorize, TypeOK
  <2>6. WorldRowOK(e)'
    BY <1>c, <2>5 DEF ExecutionState
  <2> QED BY <1>0, <2>2, <2>3, <2>4, <2>5, <2>6, WorldOne
<1>2. ASSUME NEW r \in Slot, NEW op \in HandlerOp \cup {"ha"},
             NEW e \in Execution, LoadExecution(r, op, e)
      PROVE  WorldInv'
  <2>1. /\ \A s \in Slot \ {r} : req'[s] = req[s]
        /\ req'[r].pc \in {"loaded", "ready"} /\ req'[r].op = op
        /\ req'[r].pc = "ready" => op # "compensate"
    BY <1>2 DEF LoadExecution, TypeOK, Idle, NeedsContract
  <2>2. WorldRequestOK(req[r])'
    BY <2>1 DEF WorldRequestOK
  <2> QED BY <1>2, <1>a, <2>1, <2>2 DEF LoadExecution, rowVars
<1>3. ASSUME NEW r \in Slot, LoadContract(r)
      PROVE  WorldInv'
  <2>0. UNCHANGED <<execState, contractState, executeCalls, outbox>>
    BY <1>3 DEF LoadContract, rowVars, worldVars
  <2>1. CASE Finish(r)
    BY <1>a, <1>b, <2>0, <2>1
  <2>2. CASE /\ AcceptsPair(req[r].op, req[r].e, req[r].es, contractState[req[r].e])
             /\ req' = [req EXCEPT ![r].pc = "ready",
                                   ![r].cs = contractState[req[r].e]]
    <3>1. /\ \A s \in Slot \ {r} : req'[s] = req[s]
          /\ req'[r].pc = "ready" /\ req'[r].op = req[r].op
          /\ req'[r].e = req[r].e
      BY <2>2 DEF TypeOK, RequestRecord
    <3>2. PICK e \in Execution : e = req[r].e
      BY <1>3 DEF LoadContract, RequestsOK, RequestOK
    <3>3. ASSUME req[r].op = "compensate"
          PROVE  execState[e] \notin Unclaimed /\ Settled(e)
      <4>1. contractState[e] \in {"ExecutedAwaitingVerify", "RecoveryRequired"}
        BY <2>2, <3>2, <3>3 DEF AcceptsPair, CompensateAcceptsPair
      <4>2. execState[e] \in {"AwaitingVerification", "RecoveryRequired"}
        BY <4>1 DEF PairInv, StatesPaired, LegalPair, None
      <4>3. Settled(e)
        BY <4>2 DEF WorldInv, WorldRowOK, Settled
      <4> QED BY <4>2, <4>3 DEF Unclaimed, PreSideEffect, None
    <3>4. Settled(e)' <=> Settled(e)
      BY <2>0 DEF Settled, HaTook
    <3>5. WorldRequestOK(req[r])'
      BY <2>0, <3>1, <3>2, <3>3, <3>4 DEF WorldRequestOK
    <3> QED BY <1>a, <2>0, <3>1, <3>5
  <2> QED BY <1>3, <2>1, <2>2 DEF LoadContract
<1>4. ASSUME NEW r \in Slot, ExecuteClaim(r)
      PROVE  WorldInv'
  <2>0. UNCHANGED contractState /\ req[r].e \in Execution
    BY <1>4 DEF ExecuteClaim, RequestsOK, RequestOK
  <2>1. CASE Finish(r) /\ UNCHANGED execState
    BY <1>a, <1>b, <2>0, <2>1
  <2>2. CASE /\ execState' = [execState EXCEPT ![req[r].e] = "Running"]
             /\ req' = [req EXCEPT ![r].pc = "claimed"]
    <3>1. /\ \A s \in Slot \ {r} : req'[s] = req[s]
          /\ req'[r].pc = "claimed"
      BY <2>2 DEF TypeOK, RequestRecord
    <3>2. WorldRequestOK(req[r])'
      BY <3>1 DEF WorldRequestOK
    <3>3. /\ execState'[req[r].e] = "Running"
          /\ \A f \in Execution \ {req[r].e} : execState'[f] = execState[f]
      BY <2>0, <2>2 DEF TypeOK
    <3>4. PICK e \in Execution : e = req[r].e /\ WorldRowOK(e)'
      <4>1. PICK e \in Execution : e = req[r].e
        BY <2>0
      <4> QED BY <1>c, <2>0, <3>3, <4>1 DEF ExecutionState
    <3> QED BY <1>0, <2>0, <3>1, <3>2, <3>3, <3>4, WorldOne
  <2> QED BY <1>4, <2>1, <2>2 DEF ExecuteClaim
<1>5. ASSUME NEW r \in Slot, HACancel(r)
      PROVE  WorldInv'
  <2>0. UNCHANGED contractState /\ req[r].e \in Execution
    BY <1>5 DEF HACancel, RequestsOK, RequestOK
  <2>1. CASE Finish(r) /\ UNCHANGED execState
    BY <1>a, <1>b, <2>0, <2>1
  <2>2. CASE /\ execState' = [execState EXCEPT ![req[r].e] = "Canceled"]
             /\ Owe(r, NoKey, <<"ErrorRaised">>)
    <3>1. /\ \A s \in Slot \ {r} : req'[s] = req[s]
          /\ req'[r].pc = "recorded"
      BY <2>2 DEF TypeOK, RequestRecord, Owe
    <3>2. WorldRequestOK(req[r])'
      BY <3>1 DEF WorldRequestOK
    <3>3. /\ execState'[req[r].e] = "Canceled"
          /\ \A f \in Execution \ {req[r].e} : execState'[f] = execState[f]
      BY <2>0, <2>2 DEF TypeOK
    <3>4. PICK e \in Execution : e = req[r].e /\ WorldRowOK(e)'
      <4>1. PICK e \in Execution : e = req[r].e
        BY <2>0
      <4> QED BY <1>c, <2>0, <3>3, <4>1 DEF ExecutionState
    <3> QED BY <1>0, <2>0, <3>1, <3>2, <3>3, <3>4, WorldOne
  <2> QED BY <1>5, <2>1, <2>2 DEF HACancel
<1>6. ASSUME NEW r \in Slot, ExecuteAdapter(r)
      PROVE  WorldInv'
  <2>0. /\ UNCHANGED <<execState, contractState>>
        /\ req[r].e \in Execution /\ req[r].op = "execute"
        /\ executeCalls' = [executeCalls EXCEPT ![req[r].e] = @ + 1]
    BY <1>6 DEF ExecuteAdapter, RequestsOK, RequestOK, rowVars
  <2>1. /\ \A s \in Slot \ {r} : req'[s] = req[s]
        /\ req'[r].pc = "called" /\ req'[r].op = "execute"
        /\ req'[r].e = req[r].e
    BY <1>6, <2>0 DEF ExecuteAdapter, TypeOK, RequestRecord
  <2>2. executeCalls'[req[r].e] > 0
    BY <2>0 DEF TypeOK
  <2>3. WorldRequestOK(req[r])'
    BY <2>1, <2>2 DEF WorldRequestOK
  <2> QED BY <1>a, <2>0, <2>1, <2>3
<1>7. ASSUME NEW r \in Slot, VerifyAdapter(r)
      PROVE  WorldInv'
  <2>0. /\ UNCHANGED <<execState, contractState, effect>>
        /\ req[r].op = "verify"
    BY <1>7 DEF VerifyAdapter, rowVars
  <2>1. PICK e \in Execution : e = req[r].e
    BY <1>7 DEF VerifyAdapter, RequestsOK, RequestOK
  <2>2. PICK out \in {"Applied", "NotApplied", "Indeterminate"} :
          /\ req' = [req EXCEPT ![r].pc = "called", ![r].out = out]
          /\ misreported' = [misreported EXCEPT ![e] =
                               @ \/ (out = "Applied" /\ ~effect[e])]
    BY <1>7, <2>1 DEF VerifyAdapter
  <2>3. /\ \A s \in Slot \ {r} : req'[s] = req[s]
        /\ req'[r].op = "verify" /\ req'[r].e = e /\ req'[r].out = out
    BY <2>0, <2>1, <2>2 DEF TypeOK, RequestRecord
  <2>4. out = "Applied" => effect'[e] \/ misreported'[e]
    BY <2>0, <2>2 DEF TypeOK
  <2>5. WorldRequestOK(req[r])'
    BY <2>3, <2>4 DEF WorldRequestOK, StillApplied
  <2> QED BY <1>a, <2>0, <2>3, <2>5
<1>8. ASSUME NEW r \in Slot, CompensateAdapter(r)
      PROVE  WorldInv'
  <2>0. /\ UNCHANGED <<execState, contractState, executeCalls, outbox>>
        /\ req[r].op = "compensate" /\ req[r].pc = "ready"
    BY <1>8 DEF CompensateAdapter, rowVars
  <2>1. CASE Finish(r)
    BY <1>a, <1>b, <2>0, <2>1
  <2>2. PICK e \in Execution : e = req[r].e
    BY <1>8 DEF CompensateAdapter, RequestsOK, RequestOK
  <2>3. ASSUME NEW out \in {"Recovered", "Incomplete"},
               req' = [req EXCEPT ![r].pc = "called", ![r].out = out],
               out = "Recovered" => ~effect'[e] \/ misreported'[e]
        PROVE  WorldInv'
    <3>1. /\ \A s \in Slot \ {r} : req'[s] = req[s]
          /\ req'[r].op = "compensate" /\ req'[r].e = e
          /\ req'[r].out = out
      BY <2>0, <2>2, <2>3 DEF TypeOK, RequestRecord
    <3>2. execState[e] \notin Unclaimed /\ Settled(e)
      BY <2>0, <2>2 DEF WorldInv, WorldRequestOK
    <3>4. Settled(e)' <=> Settled(e)
      BY <2>0 DEF Settled, HaTook
    <3>6. WorldRequestOK(req[r])'
      BY <2>0, <2>3, <3>1, <3>2, <3>4 DEF WorldRequestOK, StillUndone
    <3> QED BY <1>a, <2>0, <3>1, <3>6
  <2>4. ASSUME NEW still \in {FALSE, effect[e]},
               effect' = [effect EXCEPT ![e] = still],
               misreported' = [misreported EXCEPT ![e] = @ \/ still]
        PROVE  ~effect'[e] \/ misreported'[e]
    BY <2>4 DEF TypeOK
  <2>5. \/ Finish(r)
        \/ /\ req' = [req EXCEPT ![r].pc = "called", ![r].out = "Recovered"]
           /\ ~effect'[e] \/ misreported'[e]
        \/ req' = [req EXCEPT ![r].pc = "called", ![r].out = "Incomplete"]
    BY <1>8, <2>2, <2>4 DEF CompensateAdapter
  <2> QED BY <2>1, <2>3, <2>5
<1>9. ASSUME NEW r \in Slot, Emit(r)
      PROVE  WorldInv'
  <2>0. UNCHANGED <<execState, contractState>> /\ req[r].pc = "recorded"
    BY <1>9 DEF Emit, rowVars
  <2>1. CASE Finish(r)
    BY <1>a, <1>b, <2>0, <2>1
  <2>2. CASE req' = [req EXCEPT ![r].pc = "appended"]
    <3>1. /\ \A s \in Slot \ {r} : req'[s] = req[s]
          /\ req'[r].pc = "appended"
      BY <2>0, <2>2 DEF TypeOK, RequestRecord
    <3>2. WorldRequestOK(req[r])'
      BY <3>1 DEF WorldRequestOK
    <3> QED BY <1>a, <2>0, <3>1, <3>2
  <2> QED BY <1>9, <2>1, <2>2 DEF Emit, Appended
<1>10. ASSUME NEW r \in Slot, Amends(r) \/ Abort(r)
       PROVE  WorldInv'
  <2>0. UNCHANGED <<execState, contractState>>
    BY <1>10, RecordsAmended DEF Abort, rowVars
  <2>1. CASE Finish(r)
    BY <1>a, <1>b, <2>0, <2>1
  <2>2. CASE /\ \A s \in Slot \ {r} : req'[s] = req[s]
             /\ req'[r].pc \in {"recorded", "written"}
    <3>1. WorldRequestOK(req[r])'
      BY <2>2 DEF WorldRequestOK
    <3> QED BY <1>a, <2>0, <2>2, <3>1
  <2> QED BY <1>10, <2>1, <2>2, RequestsAmended DEF Abort
<1>11. CASE UNCHANGED vars
  <2>1. \A s \in Slot : WorldRequestOK(req[s])'
    BY <1>0, <1>11, WorldFrame DEF vars
  <2>2. \A f \in Execution : WorldRowOK(f)'
    BY <1>0, <1>11, WorldFrame DEF vars
  <2> QED BY <2>1, <2>2 DEF WorldInv
<1>12. ASSUME NEW r \in Slot, RecordAction(r)
       PROVE  WorldInv'
  BY <1>0, <1>12, WorldRecord
<1> QED
  BY <1>1, <1>2, <1>3, <1>4, <1>5, <1>6, <1>7, <1>8, <1>9, <1>10, <1>11, <1>12
     DEF Next, Step, RecordAction, Slot, Amends

\* The world invariant holds throughout.
THEOREM WorldSafety == Spec => []WorldInv
BY TypeInit, TypeStep, PairInit, PairStep, ClaimInit, ClaimStep, WorldInit,
   WorldStep, PTL DEF Spec

\* Whenever the adapters' answers were true, a committed execution's effect is in
\* place unless a compensation was asked for, and a compensated one's is gone
\* unless the HA reconciler took it from a handler that was still to call the
\* adapter.
THEOREM OutcomesAreTrue == Spec => []OutcomeMatchesEffect
<1>1. StatesPaired /\ WorldInv => CommittedApplied
  BY DEF StatesPaired, LegalPair, WorldInv, WorldRowOK, StillApplied,
     CommittedApplied, None
<1>2. WorldInv => CompensatedUndone
  BY DEF WorldInv, WorldRowOK, StillUndone, HaTook, CompensatedUndone
<1> QED BY <1>1, <1>2, RowsStayPaired, WorldSafety, PTL DEF OutcomeMatchesEffect

------------------------------------------------------------------------------
(* The detailed lifecycle implements the governed effect *)

\* The initial rows are an initial governed effect.
LEMMA EffectInit == Init => Effect!Init
<1> SUFFICES ASSUME Init PROVE Effect!Init
  OBVIOUS
<1>1. \A e \in Execution : PhaseOf(execState[e]) = "absent"
  BY DEF Init, PhaseOf, PreSideEffect, None
<1>2. \A e \in Execution : (executeCalls[e] > 0) = FALSE
  BY DEF Init
<1>3. [e \in Execution |-> PhaseOf(execState[e])] = [e \in Execution |-> "absent"]
  BY <1>1
<1>4. [e \in Execution |-> executeCalls[e] > 0] = [e \in Execution |-> FALSE]
  BY <1>2, Zenon
<1> QED BY <1>3, <1>4 DEF Init, Effect!Init

\* A write of one execution row that leaves the world alone moves the phase of
\* that execution and of no other.
LEMMA PhaseMoves ==
  ASSUME TypeOK, NEW e \in Execution, NEW es,
         execState' = [execState EXCEPT ![e] = es], UNCHANGED worldVars
  PROVE  /\ [f \in Execution |-> PhaseOf(execState[f])]' =
              [[f \in Execution |-> PhaseOf(execState[f])] EXCEPT ![e] = PhaseOf(es)]
         /\ [f \in Execution |-> PhaseOf(execState[f])][e] = PhaseOf(execState[e])
         /\ [f \in Execution |-> executeCalls[f] > 0]' =
              [f \in Execution |-> executeCalls[f] > 0]
         /\ [f \in Execution |-> executeCalls[f] > 0][e] = (executeCalls[e] > 0)
         /\ effect' = effect
<1>1. \A f \in Execution :
        PhaseOf(execState'[f]) = IF f = e THEN PhaseOf(es) ELSE PhaseOf(execState[f])
  BY DEF TypeOK
<1>2. [f \in Execution |-> PhaseOf(execState[f])]' =
              [[f \in Execution |-> PhaseOf(execState[f])] EXCEPT ![e] = PhaseOf(es)]
  BY <1>1
<1> QED BY <1>2 DEF worldVars

\* Such a write is a step of the governed effect when its phases are.
LEMMA PhaseStep ==
  ASSUME TypeOK, NEW e \in Execution, NEW es,
         execState' = [execState EXCEPT ![e] = es], UNCHANGED worldVars,
         LET from == PhaseOf(execState[e])
             to == PhaseOf(es)
         IN  \/ from = to
             \/ from = "absent" /\ to = "pending"
             \/ from = "pending" /\ to \in {"withdrawn", "active"}
             \/ /\ from = "active" /\ to \in {"committed", "failed", "undone"}
                /\ executeCalls[e] > 0
             \/ from = "active" /\ to = "recovery"
             \/ from = "recovery" /\ to = "undone"
  PROVE  [Effect!Next]_(Effect!vars)
<1> DEFINE phase == [f \in Execution |-> PhaseOf(execState[f])]
           from == PhaseOf(execState[e])
           to == PhaseOf(es)
<1>1. /\ phase' = [phase EXCEPT ![e] = to] /\ phase[e] = from
      /\ UNCHANGED <<[f \in Execution |-> executeCalls[f] > 0], effect>>
      /\ [f \in Execution |-> executeCalls[f] > 0][e] = (executeCalls[e] > 0)
  BY PhaseMoves
<1>2. \A p \in {from} : Effect!Move(e, p, to)
  BY <1>1 DEF Effect!Move
<1>3. CASE from = to
  <2>1. phase' = phase
    BY <1>1, <1>3
  <2> QED BY <1>1, <2>1 DEF Effect!vars
<1>4. CASE from = "absent" /\ to = "pending"
  <2>1. Effect!Admit(e)
    BY <1>2, <1>4 DEF Effect!Admit
  <2> QED BY <2>1 DEF Effect!Next
<1>5. CASE from = "pending" /\ to = "withdrawn"
  <2>1. Effect!Withdraw(e)
    BY <1>2, <1>5 DEF Effect!Withdraw
  <2> QED BY <2>1 DEF Effect!Next
<1>6. CASE from = "pending" /\ to = "active"
  <2>1. Effect!Begin(e)
    BY <1>2, <1>6 DEF Effect!Begin
  <2> QED BY <2>1 DEF Effect!Next
<1>7. CASE /\ from = "active" /\ to \in {"committed", "failed", "undone"}
           /\ executeCalls[e] > 0
  <2>1. Effect!Settle(e)
    BY <1>1, <1>2, <1>7 DEF Effect!Settle
  <2> QED BY <2>1 DEF Effect!Next
<1>8. CASE from = "active" /\ to = "recovery"
  <2>1. Effect!Escalate(e)
    BY <1>2, <1>8 DEF Effect!Escalate
  <2> QED BY <2>1 DEF Effect!Next
<1>9. CASE from = "recovery" /\ to = "undone"
  <2>1. Effect!Recover(e)
    BY <1>2, <1>9 DEF Effect!Recover
  <2> QED BY <2>1 DEF Effect!Next
<1> HIDE DEF from, to, phase
<1>10. \/ from = to
       \/ from = "absent" /\ to = "pending"
       \/ from = "pending" /\ to \in {"withdrawn", "active"}
       \/ /\ from = "active" /\ to \in {"committed", "failed", "undone"}
          /\ executeCalls[e] > 0
       \/ from = "active" /\ to = "recovery"
       \/ from = "recovery" /\ to = "undone"
  BY DEF from, to
<1> QED BY <1>3, <1>4, <1>5, <1>6, <1>7, <1>8, <1>9, <1>10

\* Steps that leave executions and world alone are invisible.
LEMMA EffectStutter ==
  ASSUME UNCHANGED <<execState, effect, executeCalls>>
  PROVE  [Effect!Next]_(Effect!vars)
BY DEF Effect!vars

\* Every state a claimed execution may be in has begun.
LEMMA ClaimedHasBegun ==
  ASSUME NEW s \in ExecutionState, s \notin Unclaimed
  PROVE  PhaseOf(s) \in Effect!Begun
BY DEF ExecutionState, Unclaimed, PreSideEffect, PhaseOf, Effect!Begun, None

\* Every step of the lifecycle is a step of the governed effect or a stutter.
LEMMA EffectStep ==
  ASSUME TypeOK, RequestsOK, PairInv, ClaimInv, WorldInv, [Next]_vars
  PROVE  [Effect!Next]_(Effect!vars)
<1>1. ASSUME NEW r \in Slot, NEW e \in Execution, Authorize(r, e)
      PROVE  [Effect!Next]_(Effect!vars)
  <2>1. PICK s \in {"Authorized", "Prepared"} :
          execState' = [execState EXCEPT ![e] = s]
    BY <1>1 DEF Authorize
  <2>2. execState[e] = None /\ UNCHANGED worldVars
    BY <1>1 DEF Authorize
  <2>3. PhaseOf(execState[e]) = "absent" /\ PhaseOf(s) = "pending"
    BY <2>2 DEF PhaseOf, PreSideEffect, None
  <2> QED BY <2>1, <2>2, <2>3, PhaseStep
<1>2. ASSUME NEW r \in Slot, ExecuteClaim(r)
      PROVE  [Effect!Next]_(Effect!vars)
  <2>1. UNCHANGED worldVars
    BY <1>2 DEF ExecuteClaim
  <2>2. CASE UNCHANGED execState
    BY <2>1, <2>2, EffectStutter DEF worldVars
  <2>3. CASE /\ execState[req[r].e] \in Claimable
             /\ execState' = [execState EXCEPT ![req[r].e] = "Running"]
    <3>1. PICK e \in Execution : e = req[r].e
      BY <1>2 DEF ExecuteClaim, RequestsOK, RequestOK
    <3>2. PhaseOf(execState[e]) = "pending" /\ PhaseOf("Running") = "active"
      BY <2>3, <3>1 DEF PhaseOf, Claimable, PreSideEffect, None
    <3> QED BY <2>1, <2>3, <3>1, <3>2, PhaseStep
  <2> QED BY <1>2, <2>2, <2>3 DEF ExecuteClaim
<1>3. ASSUME NEW r \in Slot, HACancel(r)
      PROVE  [Effect!Next]_(Effect!vars)
  <2>1. UNCHANGED worldVars
    BY <1>3 DEF HACancel
  <2>2. CASE UNCHANGED execState
    BY <2>1, <2>2, EffectStutter DEF worldVars
  <2>3. CASE /\ execState[req[r].e] = req[r].es /\ req[r].es \in PreSideEffect
             /\ execState' = [execState EXCEPT ![req[r].e] = "Canceled"]
    <3>1. PICK e \in Execution : e = req[r].e
      BY <1>3 DEF HACancel, RequestsOK, RequestOK
    <3>2. PhaseOf(execState[e]) = "pending" /\ PhaseOf("Canceled") = "withdrawn"
      BY <2>3, <3>1 DEF PhaseOf, PreSideEffect, None
    <3> QED BY <2>1, <2>3, <3>1, <3>2, PhaseStep
  <2> QED BY <1>3, <2>2, <2>3 DEF HACancel
<1>4. ASSUME NEW r \in Slot, RecordAction(r)
      PROVE  [Effect!Next]_(Effect!vars)
  <2>1. UNCHANGED worldVars
    BY <1>4, RecordWrites
  <2>2. CASE UNCHANGED execState
    BY <2>1, <2>2, EffectStutter DEF worldVars
  <2>3. ASSUME NEW e \in Execution, NEW name, NEW es, NEW cs,
               execState' = [execState EXCEPT ![e] = es],
               RowMove(req[r], execState[e], contractState[e], name, es, cs)
        PROVE  [Effect!Next]_(Effect!vars)
    <3>1. execState[e] = "AwaitingVerification" => executeCalls[e] > 0
      BY DEF WorldInv, WorldRowOK
    <3>2. \/ PhaseOf(execState[e]) = PhaseOf(es)
          \/ PhaseOf(execState[e]) = "pending" /\ PhaseOf(es) = "withdrawn"
          \/ PhaseOf(execState[e]) = "active" /\ PhaseOf(es) = "recovery"
          \/ PhaseOf(execState[e]) = "recovery" /\ PhaseOf(es) = "undone"
          \/ /\ PhaseOf(execState[e]) = "active"
             /\ PhaseOf(es) \in {"committed", "failed", "undone"}
             /\ execState[e] = "AwaitingVerification"
      BY <2>3 DEF RowMove, PhaseOf, PreSideEffect, None
    <3> QED BY <2>1, <2>3, <3>1, <3>2, PhaseStep
  <2>4. CASE \E e \in Execution : \E name, es, cs, kinds :
               /\ Writes(r, e, name, es, cs, kinds)
               /\ RowMove(req[r], execState[e], contractState[e], name, es, cs)
    <3>1. PICK e \in Execution : \E name, es, cs, kinds :
               /\ Writes(r, e, name, es, cs, kinds)
               /\ RowMove(req[r], execState[e], contractState[e], name, es, cs)
      BY <2>4
    <3>2. PICK name, es, cs, kinds :
               /\ Writes(r, e, name, es, cs, kinds)
               /\ RowMove(req[r], execState[e], contractState[e], name, es, cs)
      BY <3>1
    <3>3. execState' = [execState EXCEPT ![e] = es]
      BY <3>2 DEF Writes
    <3> QED BY <2>3, <3>2, <3>3
  <2> QED BY <1>4, <2>2, <2>4, RecordWrites
<1>5. ASSUME NEW r \in Slot, ExecuteAdapter(r)
      PROVE  [Effect!Next]_(Effect!vars)
  <2>1. PICK e \in Execution : e = req[r].e /\ Claimed(r, e)
    BY <1>5 DEF ExecuteAdapter, RequestsOK, RequestOK, Claimed
  <2>2. executeCalls[e] = 0 /\ execState[e] \notin Unclaimed
    BY <2>1 DEF ClaimInv
  <2>3. PhaseOf(execState[e]) \in Effect!Begun
    BY <2>2, ClaimedHasBegun DEF TypeOK, Unclaimed
  <2>4. \E done \in BOOLEAN : effect' = [effect EXCEPT ![e] = @ \/ done]
    BY <1>5, <2>1 DEF ExecuteAdapter
  <2>5. /\ executeCalls' = [executeCalls EXCEPT ![e] = @ + 1]
        /\ UNCHANGED execState
    BY <1>5, <2>1 DEF ExecuteAdapter, rowVars
  <2> DEFINE acted == [f \in Execution |-> executeCalls[f] > 0]
  <2>6. ~acted[e] /\ acted'[e] = TRUE
    <3>1. executeCalls'[e] = 1 /\ acted'[e] = (executeCalls'[e] > 0)
      BY <2>2, <2>5 DEF TypeOK
    <3>2. (executeCalls'[e] > 0) = TRUE
      BY <3>1
    <3>3. acted'[e] = TRUE
      BY <3>1, <3>2, Zenon
    <3>4. ~(executeCalls[e] > 0) /\ acted[e] = (executeCalls[e] > 0)
      BY <2>2
    <3> HIDE DEF acted
    <3> QED BY <3>3, <3>4, Zenon
  <2>7. acted' = [acted EXCEPT ![e] = TRUE]
    <3>1. \A f \in Execution : f # e => executeCalls'[f] = executeCalls[f]
      BY <2>5 DEF TypeOK
    <3>2. \A f \in Execution : f # e => acted'[f] = acted[f]
      BY <3>1
    <3>3. \A f \in Execution : acted'[f] = [acted EXCEPT ![e] = TRUE][f]
      BY <2>6, <3>2
    <3>4. /\ acted' = [f \in Execution |-> acted'[f]]
          /\ [acted EXCEPT ![e] = TRUE] =
               [f \in Execution |-> [acted EXCEPT ![e] = TRUE][f]]
      OBVIOUS
    <3> HIDE DEF acted
    <3> QED BY <3>3, <3>4, Zenon
  <2>8. Effect!Act(e)
    <3>1. [f \in Execution |-> PhaseOf(execState[f])][e] \in Effect!Begun
      BY <2>3
    <3>2. UNCHANGED [f \in Execution |-> PhaseOf(execState[f])]
      BY <2>5
    <3> QED BY <2>4, <2>6, <2>7, <3>1, <3>2 DEF Effect!Act
  <2> QED BY <2>8 DEF Effect!Next
<1>6. ASSUME NEW r \in Slot, CompensateAdapter(r)
      PROVE  [Effect!Next]_(Effect!vars)
  <2>1. PICK e \in Execution : e = req[r].e
    BY <1>6 DEF CompensateAdapter, RequestsOK, RequestOK
  <2>2. req[r].op = "compensate" /\ req[r].pc = "ready"
    BY <1>6 DEF CompensateAdapter
  <2>3. PhaseOf(execState[e]) \in Effect!Begun
    BY <2>1, <2>2, ClaimedHasBegun DEF WorldInv, WorldRequestOK, TypeOK, Unclaimed
  <2>4. UNCHANGED <<execState, executeCalls>>
    BY <1>6 DEF CompensateAdapter, rowVars
  <2>5. \/ effect' = [effect EXCEPT ![e] = FALSE]
        \/ effect' = [effect EXCEPT ![e] = effect[e]]
    BY <1>6, <2>1 DEF CompensateAdapter
  <2>6. CASE effect' = [effect EXCEPT ![e] = FALSE]
    <3>1. Effect!Undo(e)
      BY <2>3, <2>4, <2>6 DEF Effect!Undo
    <3> QED BY <3>1 DEF Effect!Next
  <2>7. CASE effect' = [effect EXCEPT ![e] = effect[e]]
    <3>1. effect' = effect
      BY <2>7 DEF TypeOK
    <3> QED BY <2>4, <3>1 DEF Effect!vars
  <2> QED BY <2>5, <2>6, <2>7
<1>7. ASSUME NEW r \in Slot,
             \/ LoadContract(r) \/ VerifyAdapter(r)
             \/ Emit(r) \/ MarkObligation(r) \/ CloseOutbox(r) \/ Abort(r)
      PROVE  [Effect!Next]_(Effect!vars)
  <2>1. UNCHANGED <<execState, effect, executeCalls>>
    BY <1>7 DEF LoadContract, VerifyAdapter, Emit, MarkObligation, CloseOutbox,
       Abort, rowVars, worldVars
  <2> QED BY <2>1, EffectStutter
<1>8. ASSUME NEW r \in Slot, NEW op, NEW e \in Execution, LoadExecution(r, op, e)
      PROVE  [Effect!Next]_(Effect!vars)
  <2>1. UNCHANGED <<execState, effect, executeCalls>>
    BY <1>8 DEF LoadExecution, rowVars, worldVars
  <2> QED BY <2>1, EffectStutter
<1>9. CASE UNCHANGED vars
  <2>1. UNCHANGED <<execState, effect, executeCalls>>
    BY <1>9 DEF vars
  <2> QED BY <2>1, EffectStutter
<1> QED
  BY <1>1, <1>2, <1>3, <1>4, <1>5, <1>6, <1>7, <1>8, <1>9 DEF Next, Step,
     RecordAction, Slot

\* The handlers and the HA reconciler implement the governed effect: for every
\* set of executions and slots, each initial state maps to an initial one and
\* each step, a crash included, to a step of GovernedEffect or to none.
THEOREM LifecycleImplementsEffect == Spec => ImplementsGovernedEffect
<1>1. Init => Effect!Init
  BY EffectInit
<1>2. TypeOK /\ RequestsOK /\ PairInv /\ ClaimInv /\ WorldInv /\ [Next]_vars =>
        [Effect!Next]_(Effect!vars)
  BY EffectStep
<1> QED BY <1>1, <1>2, TypeInit, TypeStep, PairInit, PairStep, ClaimInit,
        ClaimStep, WorldInit, WorldStep, PTL
        DEF Spec, ImplementsGovernedEffect, Effect!Spec

------------------------------------------------------------------------------
(* Answers stay recordable *)

\* A key that was used tells how far the contract has come, and contracts never
\* go back: this is why the keys an execution still waits for are free.
AnswerOK(key, cs) ==
  /\ key[1] \in {"execute", "execute-recovery", "ha-recovery"} =>
       cs \notin {None, "Prepared"}
  /\ key[1] \in {"verify", "verify-recovery", "compensate"} =>
       cs \notin {None, "Prepared", "ExecutedAwaitingVerify"}
  /\ key[1] = "commit" => cs = "Committed"
  /\ key = <<"compensate", "Compensated", "Compensated">> => cs = "Compensated"

AnswerInv ==
  \A e \in Execution : \A o \in outbox[e] : AnswerOK(o.key, contractState[e])

\* Initially no key is used.
LEMMA AnswerInit == Init => AnswerInv
BY DEF Init, AnswerInv

\* Every step uses keys in the order of the lifecycle.
LEMMA AnswerStep ==
  ASSUME TypeOK, RequestsOK, PairInv, AnswerInv, [Next]_vars
  PROVE  AnswerInv'
<1>1. CASE UNCHANGED <<outbox, contractState>>
  BY <1>1 DEF AnswerInv
<1>2. ASSUME NEW r \in Slot, NEW e \in Execution, Authorize(r, e)
      PROVE  AnswerInv'
  <2>1. PICK s \in {"Authorized", "Prepared"} :
          AddOutbox(e, <<"authorize", s, None>>, <<"ActionProposalSubmitted">>)
    BY <1>2 DEF Authorize
  <2>2. UNCHANGED contractState
    BY <1>2 DEF Authorize
  <2>3. \A f \in Execution : \A p \in outbox'[f] :
          p \in outbox[f] \/ p.key = <<"authorize", s, None>>
    BY <2>1 DEF AddOutbox, TypeOK
  <2>4. \A cs : AnswerOK(<<"authorize", s, None>>, cs)
    BY DEF AnswerOK
  <2> QED BY <2>2, <2>3, <2>4 DEF AnswerInv
<1>3. ASSUME NEW r \in Slot, Amends(r)
      PROVE  AnswerInv'
  <2>1. UNCHANGED contractState
    BY <1>3, RecordsAmended DEF rowVars
  <2>2. \A f \in Execution : \A p \in outbox'[f] :
          \E o \in outbox[f] : p.key = o.key
    BY <1>3, RecordsAmended
  <2> QED BY <2>1, <2>2 DEF AnswerInv
<1>4. ASSUME NEW r \in Slot, RecordAction(r)
      PROVE  AnswerInv'
  <2>1. ASSUME NEW e \in Execution, NEW name, NEW es, NEW cs, NEW kinds,
               Writes(r, e, name, es, cs, kinds),
               RowMove(req[r], execState[e], contractState[e], name, es, cs)
        PROVE  AnswerInv'
    <3> DEFINE key == <<name, es, cs>>
               cs2 == IF cs = None THEN contractState[e] ELSE cs
    <3>1. /\ \A f \in Execution : contractState'[f] =
               IF f = e THEN cs2 ELSE contractState[f]
          /\ \A f \in Execution : \A p \in outbox'[f] :
               \/ p \in outbox[f]
               \/ f = e /\ p = NewRecord(name, es, cs, kinds)
      BY <2>1 DEF Writes, TypeOK
    <3>2. NewRecord(name, es, cs, kinds).key = key
      BY DEF NewRecord
    <3>3. AnswerOK(key, cs2)
      BY <2>1 DEF RowMove, AnswerOK, None
    <3>4. ASSUME NEW k, AnswerOK(k, contractState[e])
          PROVE  AnswerOK(k, cs2)
      BY <2>1, <3>4 DEF RowMove, AnswerOK, None
    <3> HIDE DEF key, cs2
    <3> QED BY <3>1, <3>2, <3>3, <3>4 DEF AnswerInv
  <2>2. CASE UNCHANGED <<outbox, contractState>>
    BY <1>1, <2>2
  <2> QED BY <1>4, <2>1, <2>2, RecordWrites
<1>5. ASSUME NEW r \in Slot,
             \/ LoadContract(r) \/ ExecuteClaim(r) \/ ExecuteAdapter(r)
             \/ VerifyAdapter(r) \/ CompensateAdapter(r) \/ HACancel(r)
             \/ Emit(r) \/ Abort(r)
      PROVE  UNCHANGED <<outbox, contractState>>
  BY <1>5 DEF LoadContract, ExecuteClaim, ExecuteAdapter, VerifyAdapter,
     CompensateAdapter, HACancel, Emit, Abort, rowVars
<1>6. ASSUME NEW r \in Slot, NEW op, NEW e \in Execution, LoadExecution(r, op, e)
      PROVE  UNCHANGED <<outbox, contractState>>
  BY <1>6 DEF LoadExecution, rowVars
<1>7. CASE UNCHANGED vars
  BY <1>1, <1>7 DEF vars
<1> QED BY <1>1, <1>2, <1>3, <1>4, <1>5, <1>6, <1>7 DEF Next, Step,
        RecordAction, Slot, Amends

\* However often handlers were retried, the key of every answer that would move
\* an execution on is still free.
THEOREM AnswersAreNeverLockedOut == Spec => []AnswersStayRecordable
<1>1. StatesPaired /\ AnswerInv => AnswersStayRecordable
  <2> SUFFICES ASSUME StatesPaired, AnswerInv, NEW e \in Execution,
                      NEW k \in AwaitedKeys(execState[e], contractState[e]),
                      NEW o \in outbox[e], o.key = k
               PROVE  FALSE
    BY DEF AnswersStayRecordable, KeyIsFree
  <2>1. AnswerOK(k, contractState[e]) /\ LegalPair(execState[e], contractState[e])
    BY DEF AnswerInv, StatesPaired
  <2>2. /\ contractState[e] = "Prepared" =>
             k[1] \in {"execute", "execute-recovery"}
        /\ contractState[e] = "ExecutedAwaitingVerify" =>
             k[1] \in {"verify", "verify-recovery", "compensate"}
        /\ contractState[e] = "Verified" => k[1] = "commit"
        /\ contractState[e] = "RecoveryRequired" =>
             k = <<"compensate", "Compensated", "Compensated">>
        /\ contractState[e] \in {"Prepared", "ExecutedAwaitingVerify",
                                 "Verified", "RecoveryRequired"}
    BY DEF AwaitedKeys
  <2> QED BY <2>1, <2>2 DEF AnswerOK, None
<1> QED BY <1>1, RowsStayPaired, TypeInit, TypeStep, PairInit, PairStep,
        AnswerInit, AnswerStep, PTL DEF Spec

\* What the HA sweep finds: a Running execution has the linked, Prepared contract
\* that the sweep asks for, and a sweep that has read both rows can record its
\* recovery for as long as the execution is Running.
SweepsGetThrough ==
  /\ \A e \in Execution :
       execState[e] = "Running" => linked[e] /\ contractState[e] = "Prepared"
  /\ \A r \in Slot :
       /\ req[r].op = "ha" /\ req[r].pc = "ready" /\ req[r].es = "Running"
       /\ execState[req[r].e] = "Running"
       => Recordable(req[r], "Running", "ha-recovery", "RecoveryRequired",
                     "RecoveryRequired")

\* The tests of the sweep's transaction follow from the pairing of the rows and
\* from the keys that were used so far.
LEMMA SweepPasses ==
  ASSUME TypeOK, RequestsOK, StatesPaired, ContractLinked, AnswerInv
  PROVE  SweepsGetThrough
<1>1. ASSUME NEW e \in Execution, execState[e] = "Running"
      PROVE  linked[e] /\ contractState[e] = "Prepared"
  <2>1. contractState[e] = "Prepared"
    BY <1>1 DEF StatesPaired, LegalPair, None
  <2> QED BY <1>1, <2>1 DEF ContractLinked, None
<1>2. /\ IsValidExecutionTransition("Running", "RecoveryRequired")
      /\ IsValidRollbackTransition("Prepared", "RecoveryRequired")
  BY DEF IsValidExecutionTransition, IsValidRollbackTransition,
     ExecutionSuccessors, RollbackSuccessors
<1>3. ASSUME NEW r \in Slot, req[r].op = "ha", req[r].pc = "ready",
             req[r].es = "Running", execState[req[r].e] = "Running"
      PROVE  Recordable(req[r], "Running", "ha-recovery", "RecoveryRequired",
                        "RecoveryRequired")
  <2>1. req[r].e \in Execution /\ req[r].cs = "Prepared"
    BY <1>3 DEF RequestsOK, RequestOK
  <2>2. contractState[req[r].e] = "Prepared"
    BY <1>1, <1>3, <2>1
  <2>3. \A o \in outbox[req[r].e] : AnswerOK(o.key, "Prepared")
    BY <2>1, <2>2 DEF AnswerInv
  <2>4. ~AnswerOK(<<"ha-recovery", "RecoveryRequired", "RecoveryRequired">>,
                  "Prepared")
    BY DEF AnswerOK
  <2>5. KeyIsFree(req[r].e,
                  <<"ha-recovery", "RecoveryRequired", "RecoveryRequired">>)
    BY <2>3, <2>4 DEF KeyIsFree
  <2> QED BY <1>2, <1>3, <2>1, <2>2, <2>5 DEF Recordable
<1> QED BY <1>1, <1>3 DEF SweepsGetThrough

\* ha_reconciler: an execution that a dead handler left Running can be recovered
\* by every sweep that finds it so, whatever was attempted on it before: no used
\* key, no missing link and no odd pair of rows turns the sweep away.
THEOREM SweepsAreNeverLockedOut == Spec => []SweepsGetThrough
<1>1. TypeOK /\ RequestsOK /\ StatesPaired /\ ContractLinked /\ AnswerInv =>
        SweepsGetThrough
  BY SweepPasses
<1> QED BY <1>1, RowsStayPaired, ContractStaysLinked, TypeInit, TypeStep,
        PairInit, PairStep, AnswerInit, AnswerStep, PTL DEF Spec

------------------------------------------------------------------------------
(* Provenance debts *)

Kinds(s) == {s[i] : i \in 1..Len(s)}

\* An execution that does not exist has no record, what a record says is written
\* is in the log, and a lifecycle state has the record that owes its events.
DebtRowOK(e) ==
  /\ execState[e] = None => outbox[e] = {}
  /\ \A o \in outbox[e] :
       /\ o.marked \subseteq events[e]
       /\ o.status = "Reconciled" => o.kinds \subseteq events[e]
  /\ execState[e] \notin {None, "Running", "Canceled"} =>
       \E o \in outbox[e] : o.key[2] = execState[e]

\* A request that is to close a record still holds every event that is not
\* marked in it, and the one it is about to mark is in the log.
Paying == {"recorded", "appended", "written"}
DebtRequestOK(q) ==
  /\ q.pc = "appended" => Head(q.owed) \in events[q.e]
  /\ q.pc = "written" => Len(q.owed) = 0
  /\ q.pc \in {"appended", "written"} => q.key # NoKey
  /\ q.pc \in Paying =>
       /\ q.key # NoKey => \E o \in outbox[q.e] : o.key = q.key
       /\ \A o \in outbox[q.e] :
            o.key = q.key => o.kinds \subseteq o.marked \cup Kinds(q.owed)

DebtInv ==
  /\ \A e \in Execution : DebtRowOK(e)
  /\ \A r \in Slot : DebtRequestOK(req[r])

\* Initially there are no debts.
LEMMA DebtInit == Init => DebtInv
BY DEF Init, DebtInv, DebtRowOK, DebtRequestOK, Paying, Idle, None

\* Marking the first owed event leaves the rest owed.
LEMMA MarkPays ==
  ASSUME NEW s \in Seq(EventKind), s # <<>>
  PROVE  /\ Kinds(s) \subseteq {Head(s)} \cup Kinds(Tail(s))
         /\ Len(s) = 1 => Kinds(s) \subseteq {Head(s)}
<1>1. Len(s) \in Nat /\ Len(s) > 0
  OBVIOUS
<1>2. Tail(s) \in Seq(EventKind) /\ Len(Tail(s)) = Len(s) - 1
  BY <1>1
<1>3. ASSUME NEW i \in 1..Len(s)
      PROVE  s[i] \in {Head(s)} \cup Kinds(Tail(s))
  <2>1. CASE i = 1
    BY <2>1
  <2>2. CASE i # 1
    <3>1. i - 1 \in 1..Len(Tail(s))
      BY <1>1, <1>2, <2>2
    <3>2. Tail(s)[i - 1] = s[i]
      BY <1>1, <1>2, <2>2
    <3>3. s[i] \in Kinds(Tail(s))
      BY <3>1, <3>2 DEF Kinds
    <3> QED BY <3>3
  <2> QED BY <2>1, <2>2
<1>4. Kinds(s) \subseteq {Head(s)} \cup Kinds(Tail(s))
  BY <1>3 DEF Kinds
<1>5. Len(s) = 1 => Kinds(s) \subseteq {Head(s)}
  BY <1>1 DEF Kinds
<1> QED BY <1>4, <1>5

\* No outbox record has the key of the HA cancellation.
LEMMA NoKeyIsNotAKey == NoKey \notin Key
BY DEF NoKey, Key, TransitionName, None

\* Steps that add no record and close none keep what other slots owe, since
\* events only grow.
LEMMA DebtFrame ==
  ASSUME TypeOK, RequestsOK, DebtInv, UNCHANGED outbox,
         \A e \in Execution : events[e] \subseteq events'[e]
  PROVE  /\ \A e \in Execution :
              execState'[e] \in {execState[e], "Running", "Canceled"} =>
                DebtRowOK(e)'
         /\ \A r \in Slot : req'[r] = req[r] => DebtRequestOK(req[r])'
<1>1. ASSUME NEW e \in Execution,
             execState'[e] \in {execState[e], "Running", "Canceled"}
      PROVE  DebtRowOK(e)'
  BY <1>1 DEF DebtInv, DebtRowOK, None
<1>2. ASSUME NEW r \in Slot, req'[r] = req[r]
      PROVE  DebtRequestOK(req[r])'
  <2>1. CASE req[r].pc = "idle"
    BY <1>2, <2>1 DEF DebtRequestOK, Paying
  <2>2. CASE req[r].pc # "idle"
    <3>1. PICK e \in Execution : e = req[r].e
      BY <2>2 DEF RequestsOK, RequestOK
    <3>2. DebtRequestOK(req[r])
      BY DEF DebtInv
    <3>3. events[e] \subseteq events'[e]
      OBVIOUS
    <3> QED BY <1>2, <3>1, <3>2, <3>3 DEF DebtRequestOK, Paying
  <2> QED BY <2>1, <2>2
<1> QED BY <1>1, <1>2

\* Slot r writes the new record o, which owes kinds, under the free key key.
Adds(r, e, es, key, kinds, o) ==
  /\ r \in Slot /\ e \in Execution /\ key \in Key /\ kinds \in Seq(EventKind)
  /\ es # None /\ key[2] = es /\ KeyIsFree(e, key)
  /\ o.key = key /\ o.kinds = Kinds(kinds) /\ o.marked = {}
  /\ o.status = "PendingProvenance"
  /\ execState' = [execState EXCEPT ![e] = es]
  /\ outbox' = [outbox EXCEPT ![e] = @ \cup {o}]
  /\ \A s \in Slot \ {r} : req'[s] = req[s]
  /\ req'[r].pc = "recorded" /\ req'[r].e = e /\ req'[r].key = key
  /\ req'[r].owed = kinds

\* A new record under a free key is a new debt of the slot that wrote it and
\* of no other.
LEMMA DebtAdds ==
  ASSUME TypeOK, RequestsOK, DebtInv, UNCHANGED events,
         NEW r, NEW e, NEW es, NEW key, NEW kinds, NEW o,
         Adds(r, e, es, key, kinds, o)
  PROVE  DebtInv'
<1> USE DEF Adds
<1>1. /\ outbox'[e] = outbox[e] \cup {o} /\ execState'[e] = es
      /\ \A f \in Execution \ {e} :
           outbox'[f] = outbox[f] /\ execState'[f] = execState[f]
  BY DEF TypeOK
<1>2. \A f \in Execution : DebtRowOK(f)'
  <2>1. DebtRowOK(e)'
    <3>1. DebtRowOK(e)
      BY DEF DebtInv
    <3> QED BY <1>1, <3>1 DEF DebtRowOK
  <2>2. ASSUME NEW f \in Execution \ {e}
        PROVE  DebtRowOK(f)'
    <3>1. DebtRowOK(f)
      BY DEF DebtInv
    <3> QED BY <1>1, <3>1 DEF DebtRowOK
  <2> QED BY <2>1, <2>2
<1>3. DebtRequestOK(req[r])'
  BY <1>1 DEF DebtRequestOK, KeyIsFree, Paying
<1>4. ASSUME NEW s \in Slot \ {r}
      PROVE  DebtRequestOK(req[s])'
  <2>0. DebtRequestOK(req[s]) /\ req'[s] = req[s]
    BY DEF DebtInv
  <2>1. CASE req[s].pc = "idle"
    BY <2>0, <2>1 DEF DebtRequestOK, Paying
  <2>2. CASE req[s].pc # "idle" /\ req[s].e # e
    <3>1. PICK f \in Execution : f = req[s].e
      BY <2>2 DEF RequestsOK, RequestOK
    <3>2. outbox'[f] = outbox[f] /\ events'[f] = events[f]
      BY <1>1, <2>2, <3>1
    <3> QED BY <2>0, <3>1, <3>2 DEF DebtRequestOK
  <2>3. CASE req[s].e = e
    <3>1. req[s].pc \in Paying => req[s].key # key
      BY <2>0, <2>3, NoKeyIsNotAKey DEF DebtRequestOK, KeyIsFree
    <3> QED BY <1>1, <2>0, <2>3, <3>1 DEF DebtRequestOK
  <2> QED BY <2>1, <2>2, <2>3
<1> QED BY <1>2, <1>3, <1>4 DEF DebtInv

\* Every step pays a debt before it closes its record.
LEMMA DebtStep ==
  ASSUME TypeOK, RequestsOK, TypeOK', PairInv, DebtInv, [Next]_vars
  PROVE  DebtInv'
<1>0. \A e \in Execution : events[e] \subseteq events'[e]
  BY EventsGrow
<1>a. ASSUME NEW r \in Slot, \A s \in Slot \ {r} : req'[s] = req[s],
             UNCHANGED outbox,
             \A e \in Execution :
               execState'[e] \in {execState[e], "Running", "Canceled"},
             DebtRequestOK(req[r])'
      PROVE  DebtInv'
  <2>1. \A s \in Slot : DebtRequestOK(req[s])'
    BY <1>0, <1>a, DebtFrame
  <2>2. \A f \in Execution : DebtRowOK(f)'
    BY <1>0, <1>a, DebtFrame
  <2> QED BY <2>1, <2>2 DEF DebtInv
<1>b. ASSUME NEW r \in Slot, Finish(r)
      PROVE  (\A s \in Slot \ {r} : req'[s] = req[s]) /\ DebtRequestOK(req[r])'
  <2>1. (\A s \in Slot \ {r} : req'[s] = req[s]) /\ req'[r].pc = "idle"
    BY <1>b DEF Finish, Idle, TypeOK
  <2> QED BY <2>1 DEF DebtRequestOK, Paying
<1>1. ASSUME NEW r \in Slot, NEW e \in Execution, Authorize(r, e)
      PROVE  DebtInv'
  <2>1. PICK s \in {"Authorized", "Prepared"} :
          /\ execState' = [execState EXCEPT ![e] = s]
          /\ AddOutbox(e, <<"authorize", s, None>>, <<"ActionProposalSubmitted">>)
          /\ req' = [req EXCEPT ![r] =
               [Idle EXCEPT !.op = "authorize", !.e = e, !.es = s,
                  !.pc = "recorded", !.key = <<"authorize", s, None>>,
                  !.owed = <<"ActionProposalSubmitted">>]]
    BY <1>1 DEF Authorize
  <2> DEFINE key == <<"authorize", s, None>>
             kinds == <<"ActionProposalSubmitted">>
             o == NewRecord("authorize", s, None, kinds)
  <2>2. /\ \A s2 \in Slot \ {r} : req'[s2] = req[s2]
        /\ req'[r].pc = "recorded" /\ req'[r].e = e /\ req'[r].key = key
        /\ req'[r].owed = kinds
    BY <2>1 DEF TypeOK, Idle
  <2>3. KeyIsFree(e, key) /\ UNCHANGED events
    BY <1>1 DEF Authorize, DebtInv, DebtRowOK, KeyIsFree
  <2>4. outbox' = [outbox EXCEPT ![e] = @ \cup {o}]
    BY <2>1 DEF AddOutbox, NewRecord
  <2>5. /\ o.key = key /\ o.kinds = Kinds(kinds)
        /\ o.marked = {} /\ o.status = "PendingProvenance"
    BY DEF NewRecord, Kinds
  <2>6. /\ key \in Key /\ key[2] = s /\ s # None
        /\ kinds \in Seq(EventKind)
    BY DEF Key, TransitionName, ExecutionState, EventKind, None
  <2> HIDE DEF key, kinds, o
  <2>7. Adds(r, e, s, key, kinds, o)
    BY <2>1, <2>2, <2>3, <2>4, <2>5, <2>6 DEF Adds
  <2> QED BY <2>3, <2>7, DebtAdds
<1>2. ASSUME NEW r \in Slot, RecordAction(r)
      PROVE  DebtInv'
  <2>0. UNCHANGED events
    BY <1>2, RecordWrites
  <2>1. CASE Finish(r) /\ UNCHANGED <<execState, contractState, outbox>>
    BY <1>a, <1>b, <2>1
  <2>2. ASSUME NEW e \in Execution, NEW name, NEW es, NEW cs, NEW kinds,
               Writes(r, e, name, es, cs, kinds)
        PROVE  DebtInv'
    <3> DEFINE key == <<name, es, cs>>
               o == NewRecord(name, es, cs, kinds)
    <3>1. /\ \A s \in Slot \ {r} : req'[s] = req[s]
          /\ req'[r].pc = "recorded" /\ req'[r].e = e /\ req'[r].key = key
          /\ req'[r].owed = kinds
      BY <2>2 DEF Writes, Owe, TypeOK, RequestRecord
    <3>2. /\ KeyIsFree(e, key) /\ execState' = [execState EXCEPT ![e] = es]
          /\ outbox' = [outbox EXCEPT ![e] = @ \cup {o}]
          /\ kinds \in Seq(EventKind)
      BY <2>2 DEF Writes
    <3>3. /\ o.key = key /\ o.kinds = Kinds(kinds)
          /\ o.marked = {} /\ o.status = "PendingProvenance"
      BY DEF NewRecord, Kinds
    <3>4. key \in Key /\ key[2] = es /\ es # None
      BY <2>2 DEF Writes, Key, ExecutionState, None
    <3> HIDE DEF key, o
    <3>5. Adds(r, e, es, key, kinds, o)
      BY <3>1, <3>2, <3>3, <3>4 DEF Adds
    <3> QED BY <2>0, <3>5, DebtAdds
  <2> QED BY <1>2, <2>1, <2>2, RecordWrites
<1>3. ASSUME NEW r \in Slot, NEW op, NEW e \in Execution, LoadExecution(r, op, e)
      PROVE  DebtInv'
  <2>1. /\ \A s \in Slot \ {r} : req'[s] = req[s]
        /\ req'[r].pc \in {"loaded", "ready"}
    BY <1>3 DEF LoadExecution, TypeOK, Idle
  <2>2. DebtRequestOK(req[r])'
    BY <2>1 DEF DebtRequestOK, Paying
  <2> QED BY <1>3, <1>a, <2>1, <2>2 DEF LoadExecution, rowVars
<1>4. ASSUME NEW r \in Slot,
             \/ LoadContract(r) \/ ExecuteAdapter(r) \/ VerifyAdapter(r)
             \/ CompensateAdapter(r)
      PROVE  DebtInv'
  <2>0. UNCHANGED <<execState, outbox>>
    BY <1>4 DEF LoadContract, ExecuteAdapter, VerifyAdapter,
       CompensateAdapter, rowVars
  <2>1. CASE Finish(r)
    BY <1>a, <1>b, <2>0, <2>1
  <2>2. CASE \/ \E cs : req' = [req EXCEPT ![r].pc = "ready", ![r].cs = cs]
             \/ \E out : req' = [req EXCEPT ![r].pc = "called", ![r].out = out]
    <3>1. /\ \A s \in Slot \ {r} : req'[s] = req[s]
          /\ req'[r].pc \in {"ready", "called"}
      BY <2>2 DEF TypeOK, RequestRecord
    <3>2. DebtRequestOK(req[r])'
      BY <3>1 DEF DebtRequestOK, Paying
    <3> QED BY <1>a, <2>0, <3>1, <3>2
  <2> QED BY <1>4, <2>1, <2>2 DEF LoadContract, ExecuteAdapter, VerifyAdapter,
          CompensateAdapter
<1>5. ASSUME NEW r \in Slot, ExecuteClaim(r) \/ HACancel(r)
      PROVE  DebtInv'
  <2>0. UNCHANGED outbox /\ req[r].e \in Execution /\ req[r].pc = "ready"
    BY <1>5 DEF ExecuteClaim, HACancel, RequestsOK, RequestOK
  <2>1. CASE Finish(r) /\ UNCHANGED execState
    BY <1>a, <1>b, <2>0, <2>1
  <2>2. CASE /\ execState' = [execState EXCEPT ![req[r].e] = "Running"]
             /\ req' = [req EXCEPT ![r].pc = "claimed"]
    <3>1. /\ \A s \in Slot \ {r} : req'[s] = req[s]
          /\ req'[r].pc = "claimed"
      BY <2>2 DEF TypeOK, RequestRecord
    <3>2. DebtRequestOK(req[r])'
      BY <3>1 DEF DebtRequestOK, Paying
    <3>3. \A e \in Execution : execState'[e] \in {execState[e], "Running"}
      BY <2>2 DEF TypeOK
    <3> QED BY <1>a, <2>0, <3>1, <3>2, <3>3
  <2>3. CASE /\ execState' = [execState EXCEPT ![req[r].e] = "Canceled"]
             /\ Owe(r, NoKey, <<"ErrorRaised">>)
    <3>1. /\ \A s \in Slot \ {r} : req'[s] = req[s]
          /\ req'[r].pc = "recorded" /\ req'[r].key = NoKey
          /\ req'[r].e = req[r].e
      BY <2>3 DEF TypeOK, RequestRecord, Owe
    <3>2. \A o \in outbox'[req[r].e] : o.key # NoKey
      BY <2>0, NoKeyIsNotAKey DEF TypeOK, OutboxRecord
    <3>3. DebtRequestOK(req[r])'
      BY <3>1, <3>2 DEF DebtRequestOK, Paying
    <3>4. \A e \in Execution : execState'[e] \in {execState[e], "Canceled"}
      BY <2>3 DEF TypeOK
    <3> QED BY <1>a, <2>0, <3>1, <3>3, <3>4
  <2> QED BY <1>5, <2>1, <2>2, <2>3 DEF ExecuteClaim, HACancel
<1>6. ASSUME NEW r \in Slot, Emit(r)
      PROVE  DebtInv'
  <2>0. /\ UNCHANGED <<execState, outbox>> /\ req[r].pc = "recorded"
    BY <1>6 DEF Emit, rowVars
  <2>1. CASE Finish(r)
    BY <1>a, <1>b, <2>0, <2>1
  <2>2. CASE /\ events' = [events EXCEPT ![req[r].e] = @ \cup {Head(req[r].owed)}]
             /\ req[r].key # NoKey
             /\ req' = [req EXCEPT ![r].pc = "appended"]
    <3>0. PICK e \in Execution : e = req[r].e
      BY <2>0 DEF RequestsOK, RequestOK
    <3>1. /\ \A s \in Slot \ {r} : req'[s] = req[s]
          /\ req'[r].pc = "appended" /\ req'[r].e = e
          /\ req'[r].key = req[r].key /\ req'[r].owed = req[r].owed
      BY <2>2, <3>0 DEF TypeOK, RequestRecord
    <3>2. Head(req[r].owed) \in events'[e]
      BY <2>2, <3>0 DEF TypeOK
    <3>3. DebtRequestOK(req[r])
      BY DEF DebtInv
    <3>4. DebtRequestOK(req[r])'
      BY <2>0, <2>2, <3>0, <3>1, <3>2, <3>3 DEF DebtRequestOK, Paying
    <3> QED BY <1>a, <2>0, <3>1, <3>4
  <2> QED BY <1>6, <2>1, <2>2 DEF Emit, Appended
<1>7. ASSUME NEW r \in Slot, Amends(r)
      PROVE  DebtInv'
  <2>0. UNCHANGED <<execState, events>> /\ req[r].e \in Execution
    BY <1>7, RecordsAmended DEF rowVars
  <2>1. req[r].pc = "appended" => Head(req[r].owed) \in events[req[r].e]
    BY DEF DebtInv, DebtRequestOK
  <2>2. \A s \in Slot \ {r} : req'[s] = req[s]
    BY <1>7, <1>b, RequestsAmended
  <2>3. \A f \in Execution :
           /\ \A o \in outbox[f] : \E p \in outbox'[f] : p.key = o.key
           /\ \A p \in outbox'[f] : \E o \in outbox[f] : AmendedFrom(r, f, o, p)
    BY <1>7, RecordsAmended
  <2>4. ASSUME NEW f \in Execution
        PROVE  DebtRowOK(f)'
    <3>1. DebtRowOK(f)
      BY DEF DebtInv
    <3>2. ASSUME NEW p \in outbox'[f]
          PROVE  /\ p.marked \subseteq events'[f]
                 /\ p.status = "Reconciled" => p.kinds \subseteq events'[f]
      <4>1. PICK o \in outbox[f] : AmendedFrom(r, f, o, p)
        BY <2>3
      <4>2. /\ o.marked \subseteq events[f]
            /\ o.status = "Reconciled" => o.kinds \subseteq events[f]
        BY <3>1 DEF DebtRowOK
      <4> QED BY <2>0, <2>1, <4>1, <4>2 DEF AmendedFrom
    <3>3. execState'[f] = None => outbox'[f] = {}
      BY <2>0, <2>3, <3>1 DEF DebtRowOK
    <3>4. ASSUME NEW o \in outbox[f] PROVE \E p \in outbox'[f] : p.key = o.key
      BY <2>3
    <3>5. execState'[f] \notin {None, "Running", "Canceled"} =>
            \E p \in outbox'[f] : p.key[2] = execState'[f]
      BY <2>0, <3>1, <3>4 DEF DebtRowOK
    <3> QED BY <3>2, <3>3, <3>5 DEF DebtRowOK
  <2>5. ASSUME NEW s \in Slot, NEW f \in Execution, f = req[s].e,
               req[s].pc \in Paying
        PROVE  /\ req[s].key # NoKey => \E p \in outbox'[f] : p.key = req[s].key
               /\ \A p \in outbox'[f] :
                    p.key = req[s].key => p.kinds \subseteq p.marked \cup Kinds(req[s].owed)
    <3>0. DebtRequestOK(req[s])
      BY DEF DebtInv
    <3>1. ASSUME req[s].key # NoKey
          PROVE  \E p \in outbox'[f] : p.key = req[s].key
      <4>1. PICK o \in outbox[f] : o.key = req[s].key
        BY <2>5, <3>0, <3>1 DEF DebtRequestOK
      <4> QED BY <2>3, <4>1
    <3>2. ASSUME NEW p \in outbox'[f], p.key = req[s].key
          PROVE  p.kinds \subseteq p.marked \cup Kinds(req[s].owed)
      <4>1. PICK o \in outbox[f] : p.key = o.key /\ p.kinds = o.kinds
                                   /\ o.marked \subseteq p.marked
        BY <2>3 DEF AmendedFrom
      <4>2. o.kinds \subseteq o.marked \cup Kinds(req[s].owed)
        BY <2>5, <3>0, <3>2, <4>1 DEF DebtRequestOK
      <4> QED BY <4>1, <4>2
    <3> QED BY <3>1, <3>2
  <2>6. ASSUME NEW s \in Slot \ {r}
        PROVE  DebtRequestOK(req[s])'
    <3>0. DebtRequestOK(req[s]) /\ req'[s] = req[s]
      BY <2>2 DEF DebtInv
    <3>1. CASE req[s].pc \notin Paying
      BY <3>0, <3>1 DEF DebtRequestOK, Paying
    <3>2. CASE req[s].pc \in Paying
      <4>1. PICK f \in Execution : f = req[s].e
        BY <3>2 DEF RequestsOK, RequestOK, Paying
      <4>2. /\ req[s].key # NoKey => \E p \in outbox'[f] : p.key = req[s].key
            /\ \A p \in outbox'[f] : p.key = req[s].key =>
                 p.kinds \subseteq p.marked \cup Kinds(req[s].owed)
        BY <2>5, <3>2, <4>1
      <4> QED BY <2>0, <3>0, <4>1, <4>2 DEF DebtRequestOK
    <3> QED BY <3>1, <3>2
  <2>7. DebtRequestOK(req[r])'
    <3>1. CASE Finish(r)
      BY <1>b, <3>1
    <3>2. CASE /\ req[r].pc = "appended"
               /\ req'[r].e = req[r].e /\ req'[r].key = req[r].key
               /\ \/ /\ req'[r].pc = "recorded"
                     /\ req'[r].owed = Tail(req[r].owed)
                  \/ /\ req'[r].pc = "written" /\ Len(req[r].owed) = 1
                     /\ req'[r].owed = <<>>
      <4>1. PICK f \in Execution : f = req[r].e
        BY <2>0
      <4>2. DebtRequestOK(req[r])
        BY DEF DebtInv
      <4>3. /\ req[r].key # NoKey
            /\ \E p \in outbox'[f] : p.key = req[r].key
            /\ \A p \in outbox'[f] : p.key = req[r].key =>
                 p.kinds \subseteq p.marked \cup Kinds(req[r].owed)
        BY <2>5, <3>2, <4>1, <4>2 DEF DebtRequestOK, Paying
      <4>4. \A p \in outbox'[f] :
              p.key = req[r].key => Head(req[r].owed) \in p.marked
        BY <2>3, <3>2, <4>1 DEF AmendedFrom
      <4>5. /\ Kinds(req[r].owed) \subseteq
                 {Head(req[r].owed)} \cup Kinds(Tail(req[r].owed))
            /\ Len(req[r].owed) = 1 => Kinds(req[r].owed) \subseteq {Head(req[r].owed)}
        <5>1. req[r].owed \in Seq(EventKind) /\ req[r].owed # <<>>
          BY <3>2 DEF RequestsOK, RequestOK, TypeOK, RequestRecord
        <5> QED BY <5>1, MarkPays
      <4>6. \A p \in outbox'[f] : p.key = req'[r].key =>
              p.kinds \subseteq p.marked \cup Kinds(req'[r].owed)
        BY <3>2, <4>3, <4>4, <4>5
      <4>7. req'[r].pc = "written" => Len(req'[r].owed) = 0
        BY <3>2
      <4> QED BY <3>2, <4>1, <4>3, <4>6, <4>7 DEF DebtRequestOK
    <3> QED BY <1>7, <3>1, <3>2, RequestsAmended
  <2> QED BY <2>4, <2>6, <2>7 DEF DebtInv
<1>8. ASSUME NEW r \in Slot, Abort(r)
      PROVE  DebtInv'
  BY <1>8, <1>a, <1>b DEF Abort, rowVars
<1>9. CASE UNCHANGED vars
  <2>1. \A s \in Slot : DebtRequestOK(req[s])'
    BY <1>0, <1>9, DebtFrame DEF vars
  <2>2. \A f \in Execution : DebtRowOK(f)'
    BY <1>0, <1>9, DebtFrame DEF vars
  <2> QED BY <2>1, <2>2 DEF DebtInv
<1> QED
  BY <1>1, <1>2, <1>3, <1>4, <1>5, <1>6, <1>7, <1>8, <1>9 DEF Next, Step,
     RecordAction, Slot, Amends

\* Crashes lose no provenance debt: every lifecycle state has the record that
\* owes its events, a record says written only of what is in the log and is not
\* closed before everything is, and a handler at the end of its list can close it.
THEOREM DebtsAreKept == Spec => []DebtsRecorded
<1>1. DebtInv => ReconciledIsWritten /\ StateHasRecord
  BY DEF DebtInv, DebtRowOK, ReconciledIsWritten, StateHasRecord
<1>2. DebtInv => ListsAreComplete
  <2> SUFFICES ASSUME DebtInv, NEW r \in Slot, req[r].pc = "written"
               PROVE  \E o \in outbox[req[r].e] :
                        o.key = req[r].key /\ o.kinds \subseteq o.marked
    BY DEF ListsAreComplete
  <2>1. DebtRequestOK(req[r])
    BY DEF DebtInv
  <2>2. Kinds(req[r].owed) = {}
    BY <2>1 DEF DebtRequestOK, Kinds
  <2> QED BY <2>1, <2>2 DEF DebtRequestOK, Paying
<1> QED BY <1>1, <1>2, TypeInit, TypeStep, PairInit, PairStep, DebtInit,
        DebtStep, PTL DEF Spec, DebtsRecorded
==============================================================================
