------------------------ MODULE LifecycleOutboxProofs ------------------------
(***************************************************************************)
(* Proofs about LifecycleOutbox for every record, every set of reconciler  *)
(* passes and operators, and every bound on attempts, stalls and crashes.  *)
(***************************************************************************)
EXTENDS LifecycleOutbox, TLAPS

------------------------------------------------------------------------------
(* Types *)

WorkerPoint ==
  {"idle", "drift", "inspect", "renew", "write", "mark", "close", "review",
   "fail", "passing"}

WorkerRecord ==
  [pc : WorkerPoint, i : 1..Len(Obligations), seen : [Kind -> Source],
   source : Source]

HandlerRecord ==
  [pc : {"append", "get", "mark", "getClose", "close", "done"},
   i : 1..Len(Obligations), copy : Record]

OperatorRecord == [pc : {"idle", "retry", "resolve"}, copy : Record]

Lease == [owner : Worker \cup {NoWorker}, live : BOOLEAN]

\* A record owes at least one event, and what it owes are its kinds.
LEMMA KindFacts ==
  ASSUME owed \in Outbox
  PROVE  /\ Len(Obligations) \in Nat \ {0}
         /\ \A i \in 1..Len(Obligations) : Obligations[i] \in Kind
         /\ Parent \in [Kind -> Kind \cup {"earlier", "late", "none"}]
         /\ Tagged \in BOOLEAN
<1>1. Owed(owed)
  BY OutboxAssumption
<1>2. Obligations \in Seq(STRING) /\ Obligations # <<>>
  BY <1>1 DEF Owed, Obligations
<1>3. Len(Obligations) \in Nat \ {0}
  BY <1>2
<1>4. \A i \in 1..Len(Obligations) : Obligations[i] \in Kind
  BY DEF Kind
<1>5. Parent \in [Kind -> Kind \cup {"earlier", "late", "none"}]
  BY <1>1 DEF Owed, Parent, Kind, Obligations
<1>6. Tagged \in BOOLEAN
  BY <1>1 DEF Owed, Tagged
<1> QED BY <1>3, <1>4, <1>5, <1>6

\* The records that actors start from and return to are well typed.
LEMMA IdleTypes ==
  ASSUME owed \in Outbox
  PROVE  /\ Fresh \in Record /\ DoneHandler \in HandlerRecord
         /\ IdleOperator \in OperatorRecord /\ NoLease \in Lease
         /\ \A pc \in WorkerPoint : [IdleWorker EXCEPT !.pc = pc] \in WorkerRecord
         /\ IdleWorker \in WorkerRecord
<1>1. 1 \in 1..Len(Obligations)
  BY KindFacts
<1>2. Fresh \in Record
  BY DEF Fresh, Record, Status, Source
<1>3. DoneHandler \in HandlerRecord /\ IdleOperator \in OperatorRecord
  BY <1>1, <1>2 DEF DoneHandler, HandlerRecord, IdleOperator, OperatorRecord
<1>4. IdleWorker \in WorkerRecord
  BY <1>1, <1>2 DEF IdleWorker, WorkerRecord, WorkerPoint, Fresh, Source
<1>5. \A pc \in WorkerPoint : [IdleWorker EXCEPT !.pc = pc] \in WorkerRecord
  BY <1>4 DEF WorkerRecord
<1>6. NoLease \in Lease
  BY DEF NoLease, Lease
<1> QED BY <1>2, <1>3, <1>4, <1>5, <1>6

\* What the record owes never changes.
LEMMA OwedStays ==
  ASSUME [Next]_vars
  PROVE  /\ owed' = owed /\ Obligations' = Obligations /\ Kind' = Kind
         /\ Parent' = Parent /\ Tagged' = Tagged /\ Record' = Record
         /\ WorkerRecord' = WorkerRecord /\ HandlerRecord' = HandlerRecord
         /\ OperatorRecord' = OperatorRecord /\ Fresh' = Fresh
         /\ IdleWorker' = IdleWorker
<1>1. owed' = owed
  BY DEF Next, vars, HandlerStep, WorkerStep, HandlerAppend, HandlerGet,
     HandlerMark, HandlerClose, HandlerStop, Drift, ParentArrives, Claim,
     CheckDrift, Inspect, Renew, Write, Mark, Close, Review, Fail, PassOn,
     GiveUp, Die, Expire, OperatorGet, OperatorPut, otherRows
<1>2. Obligations' = Obligations /\ Parent' = Parent /\ Tagged' = Tagged
  BY <1>1 DEF Obligations, Parent, Tagged
<1>3. Kind' = Kind
  BY <1>2 DEF Kind
<1>4. Record' = Record /\ Fresh' = Fresh
  BY <1>3 DEF Record, Fresh
<1>5. /\ WorkerRecord' = WorkerRecord /\ HandlerRecord' = HandlerRecord
      /\ OperatorRecord' = OperatorRecord /\ IdleWorker' = IdleWorker
  BY <1>2, <1>3, <1>4 DEF WorkerRecord, HandlerRecord, OperatorRecord, IdleWorker
<1> QED BY <1>1, <1>2, <1>3, <1>4, <1>5

\* TypeOK in the vocabulary of these proofs.
LEMMA TypeIs ==
  TypeOK <=>
    /\ owed \in Outbox /\ rec \in Record /\ lease \in Lease
    /\ own \in [Kind -> {"absent", "bare", "whole"}]
    /\ repairs \in [Kind -> Nat]
    /\ arrived \in BOOLEAN /\ drifted \in BOOLEAN /\ resolved \in BOOLEAN
    /\ handler \in HandlerRecord
    /\ worker \in [Worker -> WorkerRecord]
    /\ operator \in [Operator -> OperatorRecord]
    /\ stalls \in Nat /\ deaths \in Nat /\ orders \in Nat
BY DEF TypeOK, Lease, HandlerRecord, WorkerRecord, WorkerPoint, OperatorRecord

\* Marking an obligation keeps the record a record.
LEMMA MarkTypes ==
  ASSUME NEW r \in Record, NEW k \in Kind, NEW s \in Source
  PROVE  /\ MarkObligation(r, k, s) \in Record
         /\ MarkObligation(r, k, s).status = "ProvenanceWritten"
         /\ MarkObligation(r, k, s).by = [r.by EXCEPT ![k] = s]
         /\ MarkObligation(r, k, s).attempts = r.attempts
BY DEF MarkObligation, Record, Status, Source

\* So do the other updates of a record.
LEMMA RecordUpdates ==
  ASSUME NEW r \in Record, NEW s \in Status
  PROVE  /\ [r EXCEPT !.status = s] \in Record
         /\ [r EXCEPT !.status = s].status = s
         /\ [r EXCEPT !.status = s].by = r.by
         /\ [r EXCEPT !.status = s, !.attempts = @ + 1] \in Record
         /\ [r EXCEPT !.status = s, !.attempts = @ + 1].status = s
         /\ [r EXCEPT !.status = s, !.attempts = @ + 1].by = r.by
         /\ r.by \in [Kind -> Source] /\ r.status \in Status
<1>1. r.attempts + 1 \in Nat
  BY DEF Record
<1> QED BY <1>1 DEF Record

\* And the updates of what a pass holds.
LEMMA WorkerUpdates ==
  ASSUME NEW p \in WorkerRecord, NEW pc \in WorkerPoint, NEW s \in Source
  PROVE  /\ [p EXCEPT !.pc = pc] \in WorkerRecord
         /\ [p EXCEPT !.pc = pc, !.source = s] \in WorkerRecord
         /\ p.i < Len(Obligations) /\ Len(Obligations) \in Nat =>
              [p EXCEPT !.pc = pc, !.i = @ + 1, !.source = s] \in WorkerRecord
<1>1. p.i < Len(Obligations) /\ Len(Obligations) \in Nat =>
        p.i + 1 \in 1..Len(Obligations)
  BY DEF WorkerRecord
<1>2. [p EXCEPT !.pc = pc] \in WorkerRecord
  BY DEF WorkerRecord
<1>3. [p EXCEPT !.pc = pc, !.source = s] \in WorkerRecord
  BY DEF WorkerRecord
<1>4. p.i + 1 \in 1..Len(Obligations) =>
        [p EXCEPT !.pc = pc, !.i = @ + 1, !.source = s] \in WorkerRecord
  BY DEF WorkerRecord
<1> QED BY <1>1, <1>2, <1>3, <1>4


\* The initial state is typed.
LEMMA TypeInit == Init => TypeOK
<1> SUFFICES ASSUME Init PROVE TypeOK
  OBVIOUS
<1>1. owed \in Outbox
  BY DEF Init
<1>2. [pc |-> "append", i |-> 1, copy |-> Fresh] \in HandlerRecord
  BY <1>1, IdleTypes, KindFacts DEF HandlerRecord
<1> QED BY <1>1, <1>2, IdleTypes, TypeIs DEF Init

\* A pass that leaves a record at hand, for whatever reason, is typed.
LEMMA LeaveTypes ==
  ASSUME TypeOK, NEW w \in Worker, NEW pc \in WorkerPoint,
         Leave(w, pc) \/ Goto(w, pc)
  PROVE  worker' \in [Worker -> WorkerRecord]
<1>1. owed \in Outbox /\ worker \in [Worker -> WorkerRecord]
  BY TypeIs
<1>2. CASE Leave(w, pc)
  BY <1>1, <1>2, IdleTypes DEF Leave
<1>3. CASE Goto(w, pc)
  <2>1. [worker[w] EXCEPT !.pc = pc] \in WorkerRecord
    BY <1>1 DEF WorkerRecord
  <2>2. worker' = [worker EXCEPT ![w] = [worker[w] EXCEPT !.pc = pc]]
    BY <1>1, <1>3 DEF Goto
  <2> QED BY <1>1, <2>1, <2>2
<1> QED BY <1>2, <1>3

\* Every step keeps the types.
LEMMA TypeStep == TypeOK /\ [Next]_vars => TypeOK'
<1> SUFFICES ASSUME TypeOK, [Next]_vars PROVE TypeOK'
  OBVIOUS
<1> DEFINE Typed ==
    /\ owed' \in Outbox /\ rec' \in Record /\ lease' \in Lease
    /\ own' \in [Kind -> {"absent", "bare", "whole"}]
    /\ repairs' \in [Kind -> Nat]
    /\ arrived' \in BOOLEAN /\ drifted' \in BOOLEAN /\ resolved' \in BOOLEAN
    /\ handler' \in HandlerRecord
    /\ worker' \in [Worker -> WorkerRecord]
    /\ operator' \in [Operator -> OperatorRecord]
    /\ stalls' \in Nat /\ deaths' \in Nat /\ orders' \in Nat
<1>a. SUFFICES Typed
  <2>1. TypeOK' <=> Typed
    BY OwedStays DEF TypeOK, Lease, HandlerRecord, WorkerRecord, WorkerPoint,
       OperatorRecord
  <2> QED BY <2>1
<1>0. /\ owed \in Outbox /\ rec \in Record /\ lease \in Lease
      /\ own \in [Kind -> {"absent", "bare", "whole"}]
      /\ repairs \in [Kind -> Nat]
      /\ arrived \in BOOLEAN /\ drifted \in BOOLEAN /\ resolved \in BOOLEAN
      /\ handler \in HandlerRecord
      /\ worker \in [Worker -> WorkerRecord]
      /\ operator \in [Operator -> OperatorRecord]
      /\ stalls \in Nat /\ deaths \in Nat /\ orders \in Nat
  BY TypeIs
<1>b. /\ Fresh \in Record /\ DoneHandler \in HandlerRecord
      /\ IdleOperator \in OperatorRecord /\ NoLease \in Lease
      /\ IdleWorker \in WorkerRecord
      /\ Len(Obligations) \in Nat \ {0}
      /\ \A i \in 1..Len(Obligations) : Obligations[i] \in Kind
  BY <1>0, IdleTypes, KindFacts
<1>c. k_h \in Kind /\ handler.copy \in Record /\ handler.i \in 1..Len(Obligations)
  BY <1>0, <1>b DEF k_h, HandlerRecord
<1>d. \A w \in Worker :
        /\ worker[w] \in WorkerRecord /\ worker[w].i \in 1..Len(Obligations)
        /\ Obligations[worker[w].i] \in Kind
        /\ worker[w].seen \in [Kind -> Source] /\ worker[w].source \in Source
  BY <1>0, <1>b DEF WorkerRecord
<1>f. /\ "unwritten" \in Source /\ "handler" \in Source /\ "repair" \in Source
      /\ Open \subseteq Status /\ "Reconciled" \in Status
      /\ "NeedsOperatorReview" \in Status /\ "PendingProvenance" \in Status
      /\ \A pc \in {"idle", "drift", "inspect", "renew", "write", "mark",
                    "close", "review", "fail", "passing"} : pc \in WorkerPoint
  BY DEF Source, Status, Open, WorkerPoint
<1>g. rec \in Record /\ worker \in [Worker -> WorkerRecord] /\ lease \in Lease
  BY <1>0
<1>1. CASE HandlerAppend
  BY <1>0, <1>1, <1>b, <1>c DEF HandlerAppend, HandlerRecord, otherRows,
     peopleVars, faultVars
<1>2. CASE HandlerGet
  BY <1>0, <1>2, <1>b, <1>c DEF HandlerGet, HandlerRecord, otherRows,
     peopleVars, faultVars, logVars
<1>3. CASE HandlerMark
  <2>1. MarkObligation(handler.copy, k_h, "handler") \in Record
    BY <1>c, <1>f, MarkTypes
  <2>2. rec' \in Record
    BY <1>3, <1>g, <2>1 DEF HandlerMark
  <2>3. handler.i < Len(Obligations) => handler.i + 1 \in 1..Len(Obligations)
    BY <1>b, <1>c
  <2>4. handler.i < Len(Obligations) =>
          [pc |-> "append", i |-> handler.i + 1, copy |-> Fresh] \in HandlerRecord
    BY <1>b, <2>3 DEF HandlerRecord
  <2>5. [handler EXCEPT !.pc = "getClose", !.copy = Fresh] \in HandlerRecord
    BY <1>0, <1>b DEF HandlerRecord
  <2>6. handler' \in HandlerRecord
    BY <1>3, <1>b, <2>4, <2>5 DEF HandlerMark
  <2>7. resolved' \in BOOLEAN
    BY <1>0, <1>3 DEF HandlerMark
  <2> QED BY <1>0, <1>3, <2>2, <2>6, <2>7 DEF HandlerMark, otherRows,
          faultVars, logVars
<1>4. CASE HandlerClose
  <2>0. [handler.copy EXCEPT !.status = "Reconciled"] \in Record
    BY <1>c, <1>f, RecordUpdates
  <2>1. rec' \in Record
    BY <1>4, <1>g, <2>0 DEF HandlerClose
  <2>2. resolved' \in BOOLEAN
    BY <1>0, <1>4 DEF HandlerClose
  <2> QED BY <1>0, <1>4, <1>b, <2>1, <2>2 DEF HandlerClose, otherRows,
          faultVars, logVars
<1>5. CASE HandlerStop \/ Drift \/ ParentArrives
  BY <1>0, <1>5, <1>b DEF HandlerStop, Drift, ParentArrives, otherRows,
     peopleVars, faultVars, logVars
<1>6. ASSUME NEW w \in Worker, Claim(w)
      PROVE  Typed
  <2>0. rec.by \in [Kind -> Source]
    BY <1>g DEF Record
  <2>1. [IdleWorker EXCEPT !.pc = "drift", !.seen = rec.by] \in WorkerRecord
    BY <1>b, <2>0 DEF WorkerRecord, WorkerPoint
  <2> QED BY <1>0, <1>6, <2>1 DEF Claim, TakeLease, Lease, otherRows,
          peopleVars, faultVars, logVars
<1>7. ASSUME NEW w \in Worker, CheckDrift(w) \/ Renew(w) \/ GiveUp(w)
      PROVE  Typed
  <2>1. worker' \in [Worker -> WorkerRecord]
    BY <1>7, LeaveTypes DEF CheckDrift, Renew, GiveUp, WorkerPoint
  <2> QED BY <1>0, <1>7, <2>1 DEF CheckDrift, Renew, GiveUp, otherRows,
          peopleVars, faultVars, logVars
<1>8. ASSUME NEW w \in Worker, Inspect(w)
      PROVE  Typed
  <2>1. Accepted(w, Obligations[worker[w].i]) \in Source
    BY <1>d, <1>f DEF Accepted
  <2>2. ASSUME NEW pc \in WorkerPoint, NEW s \in Source,
               worker' = [worker EXCEPT ![w].pc = pc, ![w].source = s]
        PROVE  worker' \in [Worker -> WorkerRecord]
    <3>1. [worker[w] EXCEPT !.pc = pc, !.source = s] \in WorkerRecord
      BY <1>d, WorkerUpdates
    <3>2. worker' = [worker EXCEPT ![w] = [worker[w] EXCEPT !.pc = pc, !.source = s]]
      BY <1>g, <2>2
    <3> QED BY <1>g, <3>1, <3>2
  <2>3. "mark" \in WorkerPoint /\ "renew" \in WorkerPoint /\ "review" \in WorkerPoint
    BY <1>f
  <2>4. Leave(w, "review") => worker' \in [Worker -> WorkerRecord]
    BY <2>3, LeaveTypes
  <2>5. worker' = [worker EXCEPT ![w].pc = "mark",
                     ![w].source = Accepted(w, Obligations[worker[w].i])]
          => worker' \in [Worker -> WorkerRecord]
    BY <2>1, <2>2, <2>3
  <2>6. worker' = [worker EXCEPT ![w].pc = "renew",
                     ![w].source = Accepted(w, Obligations[worker[w].i])]
          => worker' \in [Worker -> WorkerRecord]
    BY <2>1, <2>2, <2>3
  <2>7. worker' = [worker EXCEPT ![w].pc = "renew", ![w].source = "unwritten"]
          => worker' \in [Worker -> WorkerRecord]
    BY <1>f, <2>2, <2>3
  <2>8. worker' \in [Worker -> WorkerRecord]
    BY <1>8, <2>4, <2>5, <2>6, <2>7 DEF Inspect
  <2> QED BY <1>0, <1>8, <2>8 DEF Inspect, otherRows, peopleVars, faultVars,
          logVars
<1>9. ASSUME NEW w \in Worker, Write(w)
      PROVE  Typed
  <2>1. [worker EXCEPT ![w] = [worker[w] EXCEPT !.pc = "mark", !.source = "repair"]]
            \in [Worker -> WorkerRecord]
    BY <1>d, <1>f, <1>g, WorkerUpdates
  <2>2. \/ Goto(w, "mark")
        \/ worker' = [worker EXCEPT ![w] =
                        [worker[w] EXCEPT !.pc = "mark", !.source = "repair"]]
    BY <1>9, <1>g DEF Write
  <2>3. worker' \in [Worker -> WorkerRecord]
    BY <1>f, <2>1, <2>2, LeaveTypes
  <2>4. Obligations[worker[w].i] \in Kind
    BY <1>d
  <2>5. own' \in [Kind -> {"absent", "bare", "whole"}]
    BY <1>0, <1>9, <2>4 DEF Write
  <2>6. repairs' \in [Kind -> Nat]
    BY <1>0, <1>9, <2>4 DEF Write
  <2> QED BY <1>0, <1>9, <2>3, <2>5, <2>6 DEF Write, otherRows, peopleVars,
          faultVars
<1>10. ASSUME NEW w \in Worker, Mark(w)
       PROVE  Typed
  <2>1. MarkObligation(rec, Obligations[worker[w].i], worker[w].source) \in Record
    BY <1>d, <1>g, MarkTypes
  <2>2. rec' \in Record
    BY <1>10, <1>g, <2>1 DEF Mark
  <2>3. worker[w].i < Len(Obligations) =>
          [worker EXCEPT ![w] = [worker[w] EXCEPT !.pc = "inspect", !.i = @ + 1,
             !.source = "unwritten"]] \in [Worker -> WorkerRecord]
    BY <1>b, <1>d, <1>f, <1>g, WorkerUpdates
  <2>4. \/ Leave(w, "fail") \/ Leave(w, "close")
        \/ /\ worker[w].i < Len(Obligations)
           /\ worker' = [worker EXCEPT ![w] = [worker[w] EXCEPT !.pc = "inspect",
                           !.i = @ + 1, !.source = "unwritten"]]
    BY <1>10, <1>g DEF Mark, Leave
  <2>5. worker' \in [Worker -> WorkerRecord]
    BY <1>f, <2>3, <2>4, LeaveTypes
  <2> QED BY <1>0, <1>10, <2>2, <2>5 DEF Mark, otherRows, peopleVars,
          faultVars, logVars
<1>11. ASSUME NEW w \in Worker, Close(w) \/ Review(w) \/ Fail(w)
       PROVE  Typed
  <2>a. rec.status \in Status
    BY <1>g, <1>f, RecordUpdates
  <2>b. [rec EXCEPT !.status = "Reconciled"] \in Record
    BY <1>f, <1>g, RecordUpdates
  <2>c. ASSUME NEW s \in Status,
               \/ rec' = [rec EXCEPT !.status = s, !.attempts = @ + 1]
               \/ rec' = [rec EXCEPT !.attempts = @ + 1, !.status = s]
        PROVE  rec' \in Record
    <3>1. rec.attempts + 1 \in Nat
      BY <1>g DEF Record
    <3> QED BY <1>g, <2>c, <3>1 DEF Record
  <2>d. Close(w) => rec' \in Record
    BY <1>g, <2>b DEF Close
  <2>e. Review(w) => rec' \in Record
    BY <1>f, <1>g, <2>c DEF Review
  <2>f. ASSUME Fail(w) PROVE rec' \in Record
    <3> DEFINE s == IF rec.attempts + 1 >= MaxAttempts
                      THEN "NeedsOperatorReview" ELSE rec.status
    <3>1. s \in Status
      BY <1>f, <2>a
    <3>2. \/ rec' = [rec EXCEPT !.attempts = @ + 1, !.status = s]
          \/ UNCHANGED rec
      BY <2>f DEF Fail
    <3> HIDE DEF s
    <3> QED BY <1>g, <2>c, <3>1, <3>2
  <2>2. rec' \in Record
    BY <1>11, <2>d, <2>e, <2>f
  <2>3. worker' \in [Worker -> WorkerRecord]
    BY <1>11, <1>f, LeaveTypes DEF Close, Review, Fail
  <2>4. lease' \in Lease
    BY <1>11, <1>b, <1>g DEF Close, Review, Fail, ClearLease
  <2> QED BY <1>0, <1>11, <2>2, <2>3, <2>4 DEF Close, Review, Fail,
          otherRows, peopleVars, faultVars, logVars
<1>12. ASSUME NEW w \in Worker, PassOn(w) \/ Die(w)
       PROVE  Typed
  <2>1. worker' \in [Worker -> WorkerRecord]
    <3>1. Leave(w, "idle") /\ "idle" \in WorkerPoint
      BY <1>12, <1>f DEF PassOn, Die
    <3> QED BY <3>1, LeaveTypes
  <2>2. lease' \in Lease
    <3>1. [owner |-> w, live |-> TRUE] \in Lease
      BY DEF Lease
    <3>2. lease' = lease \/ TakeLease(w)
      BY <1>12 DEF PassOn, Die
    <3> QED BY <1>g, <3>1, <3>2 DEF TakeLease
  <2>3. deaths' \in Nat /\ stalls' \in Nat
    BY <1>0, <1>12 DEF PassOn, Die, faultVars
  <2> QED BY <1>0, <1>12, <2>1, <2>2, <2>3 DEF PassOn, Die, otherRows,
          peopleVars, logVars
<1>13. CASE Expire
  <2>1. lease' \in Lease
    BY <1>13, <1>g DEF Expire, Lease
  <2>2. stalls' \in Nat
    BY <1>0, <1>13 DEF Expire
  <2> QED BY <1>0, <1>13, <2>1, <2>2 DEF Expire, otherRows, peopleVars, logVars
<1>14. ASSUME NEW o \in Operator, OperatorGet(o)
       PROVE  Typed
  BY <1>0, <1>14 DEF OperatorGet, OperatorRecord, otherRows, faultVars, logVars
<1>15. ASSUME NEW o \in Operator, OperatorPut(o)
       PROVE  Typed
  <2>1. operator[o].copy \in Record
    BY <1>0 DEF OperatorRecord
  <2>0. /\ [operator[o].copy EXCEPT !.status = "PendingProvenance"] \in Record
        /\ [operator[o].copy EXCEPT !.status = "Reconciled"] \in Record
    BY <1>f, <2>1, RecordUpdates
  <2>2. rec' \in Record
    BY <1>15, <2>0 DEF OperatorPut
  <2>3. resolved' \in BOOLEAN /\ lease' \in Lease
    BY <1>15, <1>b DEF OperatorPut, ClearLease
  <2>4. stalls' \in Nat /\ operator' \in [Operator -> OperatorRecord]
    BY <1>0, <1>15, <1>b DEF OperatorPut
  <2> QED BY <1>0, <1>15, <2>2, <2>3, <2>4 DEF OperatorPut, otherRows, logVars
<1>16. CASE UNCHANGED vars
  BY <1>0, <1>16 DEF vars
<1> HIDE DEF Typed
<1> QED
  BY <1>1, <1>2, <1>3, <1>4, <1>5, <1>6, <1>7, <1>8, <1>9, <1>10, <1>11, <1>12,
     <1>13, <1>14, <1>15, <1>16 DEF Next, HandlerStep, WorkerStep

\* Every variable keeps its type, whatever handler, passes and operators do.
THEOREM TypeSafety == Spec => []TypeOK
BY TypeInit, TypeStep, PTL DEF Spec

------------------------------------------------------------------------------
(* Marks *)

\* The log o, r holds the event that s names for kind k.
SourceProven(s, k, o, r) ==
  /\ s = "handler" => o[k] # "absent"
  /\ s = "repair" => r[k] > 0

Proven(by, o, r) == \A k \in Kind : SourceProven(by[k], k, o, r)

HandlerProven(h, o, r) ==
  /\ Proven(h.copy.by, o, r)
  /\ h.pc \in {"get", "mark"} => o[Obligations[h.i]] # "absent"

PassProven(p, o, r) ==
  /\ Proven(p.seen, o, r)
  /\ p.pc \in {"renew", "write", "mark"} =>
       SourceProven(p.source, Obligations[p.i], o, r)
  /\ p.pc = "mark" => p.source # "unwritten"

(***************************************************************************)
(* NamedIsWritten is not inductive: a mark is written from a copy or by a  *)
(* pass that looked at the log earlier.  Every copy, and every event that  *)
(* an actor is about to name, is backed by the log as well.                *)
(***************************************************************************)
MarkInv ==
  /\ Proven(rec.by, own, repairs)
  /\ HandlerProven(handler, own, repairs)
  /\ \A o \in Operator : Proven(operator[o].copy.by, own, repairs)
  /\ \A w \in Worker : PassProven(worker[w], own, repairs)

\* A record is closed by its obligations or by an operator.
CloseInv == rec.status = "Reconciled" /\ ~resolved => AllSatisfied(rec)

\* The log only grows.
LEMMA LogGrows ==
  ASSUME TypeOK, [Next]_vars
  PROVE  /\ \A k \in Kind :
              /\ own[k] # "absent" => own'[k] # "absent"
              /\ repairs'[k] \in Nat /\ repairs[k] \in Nat /\ repairs'[k] >= repairs[k]
         /\ arrived => arrived'
<1>0. /\ own \in [Kind -> {"absent", "bare", "whole"}] /\ repairs \in [Kind -> Nat]
      /\ handler.i \in 1..Len(Obligations)
      /\ \A w \in Worker : Obligations[worker[w].i] \in Kind
  BY TypeIs, KindFacts DEF HandlerRecord, WorkerRecord
<1>1. \/ UNCHANGED <<own, repairs>>
      \/ HandlerAppend
      \/ \E w \in Worker : Write(w)
  <2>1. CASE HandlerStep
    BY <2>1 DEF HandlerStep, HandlerGet, HandlerMark, HandlerClose, HandlerStop, logVars
  <2>2. CASE Drift \/ ParentArrives \/ Expire \/ UNCHANGED vars
    BY <2>2 DEF Drift, ParentArrives, Expire, vars, logVars
  <2>3. ASSUME NEW w \in Worker, WorkerStep(w) \/ GiveUp(w) \/ Die(w)
        PROVE  UNCHANGED <<own, repairs>> \/ Write(w)
    BY <2>3 DEF WorkerStep, Claim, CheckDrift, Inspect, Renew, Mark, Close, Review,
       Fail, PassOn, GiveUp, Die, logVars
  <2>4. ASSUME NEW o \in Operator, OperatorGet(o) \/ OperatorPut(o)
        PROVE  UNCHANGED <<own, repairs>>
    BY <2>4 DEF OperatorGet, OperatorPut, logVars
  <2> QED
    BY <2>1, <2>2, <2>3, <2>4 DEF Next
<1>2. arrived => arrived'
  BY DEF Next, vars, HandlerStep, WorkerStep, HandlerAppend, HandlerGet,
     HandlerMark, HandlerClose, HandlerStop, Drift, ParentArrives, Claim,
     CheckDrift, Inspect, Renew, Write, Mark, Close, Review, Fail, PassOn,
     GiveUp, Die, Expire, OperatorGet, OperatorPut, otherRows
<1>3. CASE UNCHANGED <<own, repairs>>
  BY <1>0, <1>2, <1>3
<1>4. CASE HandlerAppend
  <2>1. repairs' = repairs
    BY <1>4 DEF HandlerAppend
  <2>2. own' = own \/ \E s \in {"whole", "bare"} : own' = [own EXCEPT ![k_h] = s]
    BY <1>4 DEF HandlerAppend
  <2> QED BY <1>0, <1>2, <2>1, <2>2
<1>5. ASSUME NEW w \in Worker, Write(w)
      PROVE  \A k \in Kind :
               /\ own[k] # "absent" => own'[k] # "absent"
               /\ repairs'[k] \in Nat /\ repairs[k] \in Nat
               /\ repairs'[k] >= repairs[k]
  <2> DEFINE kw == Obligations[worker[w].i]
  <2>1. kw \in Kind
    BY <1>0
  <2>2. \/ own' = [own EXCEPT ![kw] = "whole"] /\ repairs' = repairs
        \/ own' = own /\ repairs' = [repairs EXCEPT ![kw] = @ + 1]
    BY <1>5 DEF Write
  <2> HIDE DEF kw
  <2> QED BY <1>0, <2>1, <2>2
<1> QED BY <1>1, <1>2, <1>3, <1>4, <1>5

\* So what is backed by the log stays backed.
LEMMA ProvenStays ==
  ASSUME TypeOK, [Next]_vars
  PROVE  /\ \A k \in Kind : \A s : SourceProven(s, k, own, repairs) =>
              SourceProven(s, k, own', repairs')
         /\ \A by : Proven(by, own, repairs) => Proven(by, own', repairs')
         /\ \A h \in HandlerRecord : HandlerProven(h, own, repairs) =>
              HandlerProven(h, own', repairs')
         /\ \A p \in WorkerRecord : PassProven(p, own, repairs) =>
              PassProven(p, own', repairs')
<1>1. \A k \in Kind : \A s : SourceProven(s, k, own, repairs) =>
              SourceProven(s, k, own', repairs')
  BY LogGrows DEF SourceProven
<1>2. \A by : Proven(by, own, repairs) => Proven(by, own', repairs')
  BY <1>1 DEF Proven
<1>3. owed \in Outbox
  BY TypeIs
<1>4. ASSUME NEW h \in HandlerRecord, HandlerProven(h, own, repairs)
      PROVE  HandlerProven(h, own', repairs')
  <2>1. Obligations[h.i] \in Kind
    BY <1>3, KindFacts DEF HandlerRecord
  <2> QED BY <1>2, <1>4, <2>1, LogGrows DEF HandlerProven
<1>5. ASSUME NEW p \in WorkerRecord, PassProven(p, own, repairs)
      PROVE  PassProven(p, own', repairs')
  <2>1. Obligations[p.i] \in Kind
    BY <1>3, KindFacts DEF WorkerRecord
  <2> QED BY <1>1, <1>2, <1>5, <2>1 DEF PassProven
<1> QED BY <1>1, <1>2, <1>4, <1>5

\* A copy that names nothing is backed by every log.
LEMMA FreshProven ==
  ASSUME NEW o, NEW r
  PROVE  /\ Proven(Fresh.by, o, r)
         /\ HandlerProven(DoneHandler, o, r)
         /\ Proven(IdleOperator.copy.by, o, r)
         /\ PassProven(IdleWorker, o, r)
         /\ \A pc \in WorkerPoint \ {"renew", "write", "mark"} :
              PassProven([IdleWorker EXCEPT !.pc = pc], o, r)
<1>1. Proven(Fresh.by, o, r)
  BY DEF Fresh, Proven, SourceProven
<1>2. HandlerProven(DoneHandler, o, r) /\ Proven(IdleOperator.copy.by, o, r)
  BY <1>1 DEF DoneHandler, IdleOperator, HandlerProven
<1>3. PassProven(IdleWorker, o, r)
  BY <1>1 DEF IdleWorker, PassProven
<1>4. ASSUME NEW pc \in WorkerPoint \ {"renew", "write", "mark"}
      PROVE  PassProven([IdleWorker EXCEPT !.pc = pc], o, r)
  <2>1. /\ [IdleWorker EXCEPT !.pc = pc].pc = pc
        /\ [IdleWorker EXCEPT !.pc = pc].seen = Fresh.by
    BY DEF IdleWorker
  <2> QED BY <1>1, <1>4, <2>1 DEF PassProven
<1> QED BY <1>1, <1>2, <1>3, <1>4

\* One pass moves and the others keep what they hold.
LEMMA PassMoves ==
  ASSUME TypeOK, [Next]_vars, MarkInv, NEW w \in Worker, NEW q,
         worker' = [worker EXCEPT ![w] = q], PassProven(q, own', repairs')
  PROVE  \A v \in Worker : PassProven(worker'[v], own', repairs')
<1>1. worker \in [Worker -> WorkerRecord]
  BY TypeIs
<1>2. \A v \in Worker : PassProven(worker[v], own', repairs')
  BY <1>1, ProvenStays DEF MarkInv
<1> QED BY <1>1, <1>2

\* In particular when the pass leaves the record.
LEMMA LeaveMoves ==
  ASSUME TypeOK, [Next]_vars, MarkInv, NEW w \in Worker,
         NEW pc \in WorkerPoint \ {"renew", "write", "mark"}, Leave(w, pc)
  PROVE  \A v \in Worker : PassProven(worker'[v], own', repairs')
<1>1. PassProven([IdleWorker EXCEPT !.pc = pc], own', repairs')
  BY FreshProven
<1> QED BY <1>1, PassMoves DEF Leave

\* A pass that goes on holding the same things moves only its program point.
LEMMA GotoMoves ==
  ASSUME TypeOK, [Next]_vars, MarkInv, NEW w \in Worker, NEW pc \in WorkerPoint,
         Goto(w, pc),
         pc \in {"renew", "write", "mark"} =>
           worker[w].pc \in {"renew", "write", "mark"},
         pc = "mark" => worker[w].source # "unwritten"
  PROVE  \A v \in Worker : PassProven(worker'[v], own', repairs')
<1> DEFINE q == [worker[w] EXCEPT !.pc = pc]
<1>1. worker \in [Worker -> WorkerRecord] /\ worker[w] \in WorkerRecord
  BY TypeIs
<1>2. worker' = [worker EXCEPT ![w] = q]
  BY <1>1 DEF Goto
<1>3. /\ q.pc = pc /\ q.seen = worker[w].seen /\ q.source = worker[w].source
      /\ q.i = worker[w].i
  BY <1>1 DEF WorkerRecord
<1>4. PassProven(worker[w], own', repairs')
  BY <1>1, ProvenStays DEF MarkInv
<1> HIDE DEF q
<1>5. PassProven(q, own', repairs')
  BY <1>3, <1>4 DEF PassProven
<1> QED BY <1>2, <1>5, PassMoves

\* Marking with a proven event keeps the marks proven.
LEMMA MarkProven ==
  ASSUME NEW r \in Record, NEW k \in Kind, NEW s \in Source, NEW o, NEW p,
         Proven(r.by, o, p), SourceProven(s, k, o, p)
  PROVE  Proven(MarkObligation(r, k, s).by, o, p)
<1>1. MarkObligation(r, k, s).by = [r.by EXCEPT ![k] = s]
  BY MarkTypes
<1>2. r.by \in [Kind -> Source]
  BY DEF Record
<1>3. ASSUME NEW j \in Kind
      PROVE  SourceProven([r.by EXCEPT ![k] = s][j], j, o, p)
  BY <1>2 DEF Proven
<1> QED BY <1>1, <1>3 DEF Proven

\* What a pass accepts for an obligation is in the log.
LEMMA AcceptedProven ==
  ASSUME TypeOK, MarkInv, NEW w \in Worker, NEW k \in Kind
  PROVE  SourceProven(Accepted(w, k), k, own, repairs)
<1>1. repairs[k] \in Nat
  BY TypeIs
<1>2. SourceProven(worker[w].seen[k], k, own, repairs)
  BY DEF MarkInv, PassProven, Proven
<1>3. CASE worker[w].seen[k] # "unwritten"
  BY <1>2, <1>3 DEF Accepted
<1>4. CASE worker[w].seen[k] = "unwritten" /\ Discoverable(k) # 1
  BY <1>4 DEF Accepted, SourceProven
<1>5. CASE worker[w].seen[k] = "unwritten" /\ Discoverable(k) = 1
  BY <1>1, <1>5 DEF Accepted, SourceProven, Discoverable
<1> QED BY <1>3, <1>4, <1>5

\* The first marks name nothing.
LEMMA MarkInit == Init => MarkInv /\ CloseInv
<1> SUFFICES ASSUME Init PROVE MarkInv /\ CloseInv
  OBVIOUS
<1>1. Proven(Fresh.by, own, repairs)
  BY FreshProven
<1>2. Proven(rec.by, own, repairs) /\ HandlerProven(handler, own, repairs)
  BY <1>1 DEF Init, HandlerProven
<1>3. \A o \in Operator : Proven(operator[o].copy.by, own, repairs)
  BY FreshProven DEF Init
<1>4. \A w \in Worker : PassProven(worker[w], own, repairs)
  BY FreshProven DEF Init
<1>5. CloseInv
  BY DEF Init, CloseInv, Fresh
<1> QED BY <1>2, <1>3, <1>4, <1>5 DEF MarkInv

\* Every step keeps the copies and the marks proven.
LEMMA MarkStep == TypeOK /\ MarkInv /\ [Next]_vars => MarkInv'
<1> SUFFICES ASSUME TypeOK, MarkInv, [Next]_vars PROVE MarkInv'
  OBVIOUS
<1> DEFINE RecP == Proven(rec'.by, own', repairs')
           HandP == HandlerProven(handler', own', repairs')
           OpP == \A o \in Operator : Proven(operator'[o].copy.by, own', repairs')
           PassP == \A w \in Worker : PassProven(worker'[w], own', repairs')
           Goal == RecP /\ HandP /\ OpP /\ PassP
<1>a. SUFFICES Goal
  <2>1. Obligations' = Obligations /\ Kind' = Kind
    BY OwedStays
  <2>2. MarkInv' <=> Goal
    BY <2>1 DEF MarkInv, HandlerProven, PassProven, Proven, SourceProven
  <2> QED BY <2>2
<1>0. /\ owed \in Outbox /\ rec \in Record /\ handler \in HandlerRecord
      /\ worker \in [Worker -> WorkerRecord]
      /\ operator \in [Operator -> OperatorRecord]
      /\ own \in [Kind -> {"absent", "bare", "whole"}]
      /\ repairs \in [Kind -> Nat]
  BY TypeIs
<1>b. /\ k_h \in Kind /\ handler.copy \in Record
      /\ \A w \in Worker : Obligations[worker[w].i] \in Kind /\ worker[w] \in WorkerRecord
      /\ "handler" \in Source /\ "repair" \in Source /\ "unwritten" \in Source
  BY <1>0, KindFacts DEF k_h, HandlerRecord, WorkerRecord, Source
<1>c. /\ \A k \in Kind : \A s : SourceProven(s, k, own, repairs) =>
           SourceProven(s, k, own', repairs')
      /\ \A by : Proven(by, own, repairs) => Proven(by, own', repairs')
  BY ProvenStays
<1>d. Proven(rec.by, own', repairs')
  BY <1>c DEF MarkInv
<1>e. HandlerProven(handler, own', repairs')
  BY <1>0, ProvenStays DEF MarkInv
<1>f. \A o \in Operator : Proven(operator[o].copy.by, own', repairs')
  BY <1>c DEF MarkInv
<1>g. \A w \in Worker : PassProven(worker[w], own', repairs')
  BY <1>0, ProvenStays DEF MarkInv
<1>h. UNCHANGED rec => RecP
  BY <1>d
<1>i. UNCHANGED handler => HandP
  BY <1>e
<1>j. UNCHANGED operator => OpP
  BY <1>f
<1>k. UNCHANGED worker => PassP
  BY <1>g
<1>l. handler' = DoneHandler => HandP
  BY FreshProven
<1>m. \A w \in Worker, pc \in {"idle", "drift", "inspect", "close", "review",
                               "fail", "passing"} : Leave(w, pc) => PassP
  BY LeaveMoves DEF WorkerPoint
<1> HIDE DEF RecP, HandP, OpP, PassP
<1>1. CASE HandlerAppend
  <2>1. UNCHANGED <<rec, operator, worker>>
    BY <1>1 DEF HandlerAppend, peopleVars
  <2>2. CASE handler' = DoneHandler
    BY <2>1, <2>2, <1>h, <1>j, <1>k, <1>l
  <2>3. CASE \E s \in {"whole", "bare"} : /\ own' = [own EXCEPT ![k_h] = s]
                                         /\ handler' = [handler EXCEPT !.pc = "get"]
    <3>1. own'[k_h] # "absent"
      BY <1>0, <1>b, <2>3
    <3>2. handler'.copy = handler.copy /\ handler'.i = handler.i
      BY <1>0, <2>3 DEF HandlerRecord
    <3>3. HandP
      BY <1>e, <3>1, <3>2 DEF HandlerProven, HandP, k_h
    <3> QED BY <2>1, <3>3, <1>h, <1>j, <1>k
  <2> QED BY <1>1, <2>2, <2>3 DEF HandlerAppend
<1>2. CASE HandlerGet
  <2>1. UNCHANGED <<rec, operator, worker, own>>
    BY <1>2 DEF HandlerGet, peopleVars, logVars
  <2>2. /\ handler'.copy = rec /\ handler'.i = handler.i
        /\ handler'.pc \in {"get", "mark"} => handler.pc = "get"
    BY <1>0, <1>2 DEF HandlerGet, HandlerRecord
  <2>3. HandP
    BY <1>d, <1>e, <2>2 DEF HandlerProven, HandP
  <2> QED BY <2>1, <2>3, <1>h, <1>j, <1>k
<1>3. CASE HandlerMark
  <2>1. UNCHANGED <<operator, worker>>
    BY <1>3 DEF HandlerMark
  <2>2. SourceProven("handler", k_h, own', repairs')
    BY <1>3, <1>e DEF HandlerMark, SourceProven, HandlerProven, k_h
  <2>3. Proven(handler.copy.by, own', repairs')
    BY <1>e DEF HandlerProven
  <2>4. Proven(MarkObligation(handler.copy, k_h, "handler").by, own', repairs')
    BY <1>b, <2>2, <2>3, MarkProven
  <2>5. RecP
    BY <1>3, <1>h, <2>4 DEF HandlerMark, RecP
  <2>6. Proven(Fresh.by, own', repairs')
    BY FreshProven
  <2>7. \/ handler' = DoneHandler
        \/ handler'.pc \in {"append", "getClose"} /\ handler'.copy = Fresh
    <3>1. handler \in HandlerRecord
      BY <1>0
    <3>2. \/ handler' = DoneHandler
          \/ handler' = [pc |-> "append", i |-> handler.i + 1, copy |-> Fresh]
          \/ handler' = [handler EXCEPT !.pc = "getClose", !.copy = Fresh]
      BY <1>3 DEF HandlerMark
    <3>3. /\ [handler EXCEPT !.pc = "getClose", !.copy = Fresh].pc = "getClose"
          /\ [handler EXCEPT !.pc = "getClose", !.copy = Fresh].copy = Fresh
      BY <3>1 DEF HandlerRecord
    <3>4. CASE handler' = [pc |-> "append", i |-> handler.i + 1, copy |-> Fresh]
      BY <3>4
    <3>5. CASE handler' = [handler EXCEPT !.pc = "getClose", !.copy = Fresh]
      BY <3>3, <3>5
    <3> QED BY <3>2, <3>4, <3>5
  <2>8. HandP
    BY <1>l, <2>6, <2>7 DEF HandP, HandlerProven
  <2> QED BY <2>1, <2>5, <2>8, <1>j, <1>k
<1>4. CASE HandlerClose
  <2>1. UNCHANGED <<operator, worker>> /\ handler' = DoneHandler
    BY <1>4 DEF HandlerClose
  <2>2. Proven(handler.copy.by, own', repairs')
    BY <1>e DEF HandlerProven
  <2>3. [handler.copy EXCEPT !.status = "Reconciled"].by = handler.copy.by
    BY <1>b DEF Record
  <2>4. RecP
    BY <1>4, <1>h, <2>2, <2>3 DEF HandlerClose, RecP
  <2> QED BY <2>1, <2>4, <1>j, <1>k, <1>l
<1>5. CASE HandlerStop \/ Drift \/ ParentArrives \/ Expire
  <2>1. /\ UNCHANGED <<rec, operator, worker>>
        /\ handler' = DoneHandler \/ handler' = handler
    BY <1>5 DEF HandlerStop, Drift, ParentArrives, Expire, peopleVars
  <2> QED BY <2>1, <1>h, <1>i, <1>j, <1>k, <1>l
<1>6. ASSUME NEW w \in Worker, Claim(w)
      PROVE  Goal
  <2>1. UNCHANGED <<rec, operator, handler>>
    BY <1>6 DEF Claim, peopleVars
  <2> DEFINE q == [IdleWorker EXCEPT !.pc = "drift", !.seen = rec.by]
  <2>2. q.pc = "drift" /\ q.seen = rec.by
    BY DEF IdleWorker
  <2>3. worker' = [worker EXCEPT ![w] = q]
    BY <1>6 DEF Claim
  <2> HIDE DEF q
  <2>4. PassProven(q, own', repairs')
    BY <1>d, <2>2 DEF PassProven
  <2>5. PassP
    BY <2>3, <2>4, PassMoves DEF PassP
  <2> QED BY <2>1, <2>5, <1>h, <1>i, <1>j
<1>7. ASSUME NEW w \in Worker, CheckDrift(w) \/ Renew(w) \/ GiveUp(w)
      PROVE  Goal
  <2>1. UNCHANGED <<rec, operator, handler>>
    BY <1>7 DEF CheckDrift, Renew, GiveUp, peopleVars
  <2>2. \/ \E pc \in {"review", "fail"} : Leave(w, pc)
        \/ Goto(w, "inspect")
        \/ Goto(w, "write") /\ worker[w].pc = "renew"
    BY <1>7 DEF CheckDrift, Renew, GiveUp
  <2>3. Goto(w, "inspect") => PassP
    BY GotoMoves DEF WorkerPoint, PassP
  <2>4. Goto(w, "write") /\ worker[w].pc = "renew" => PassP
    BY GotoMoves DEF WorkerPoint, PassP
  <2>5. PassP
    BY <2>2, <2>3, <2>4, <1>m
  <2> QED BY <2>1, <2>5, <1>h, <1>i, <1>j
<1>8. ASSUME NEW w \in Worker, Inspect(w)
      PROVE  Goal
  <2>1. UNCHANGED <<rec, operator, handler>>
    BY <1>8 DEF Inspect, peopleVars
  <2> DEFINE k == Obligations[worker[w].i]
             s == Accepted(w, k)
  <2>2. SourceProven(s, k, own', repairs') /\ SourceProven("unwritten", k, own', repairs')
    BY <1>b, <1>c, AcceptedProven DEF SourceProven
  <2>3. ASSUME NEW pc, NEW t,
               worker' = [worker EXCEPT ![w].pc = pc, ![w].source = t],
               SourceProven(t, k, own', repairs'), pc = "mark" => t # "unwritten"
        PROVE  PassP
    <3> DEFINE q == [worker[w] EXCEPT !.pc = pc, !.source = t]
    <3>1. worker' = [worker EXCEPT ![w] = q]
      BY <1>0, <2>3
    <3>2. q.pc = pc /\ q.source = t /\ q.seen = worker[w].seen /\ q.i = worker[w].i
      BY <1>b DEF WorkerRecord
    <3>3. Proven(worker[w].seen, own', repairs')
      BY <1>g DEF PassProven
    <3> HIDE DEF q
    <3>4. PassProven(q, own', repairs')
      BY <2>3, <3>2, <3>3 DEF PassProven
    <3> QED BY <3>1, <3>4, PassMoves DEF PassP
  <2>4. \/ Leave(w, "review")
        \/ s # "unwritten" /\ worker' = [worker EXCEPT ![w].pc = "mark", ![w].source = s]
        \/ worker' = [worker EXCEPT ![w].pc = "renew", ![w].source = s]
        \/ worker' = [worker EXCEPT ![w].pc = "renew", ![w].source = "unwritten"]
    BY <1>8 DEF Inspect
  <2> HIDE DEF s, k
  <2>5. PassP
    <3>1. Leave(w, "review") => PassP
      BY <1>m
    <3>2. s # "unwritten" /\ worker' = [worker EXCEPT ![w].pc = "mark", ![w].source = s]
            => PassP
      BY <2>2, <2>3
    <3>3. worker' = [worker EXCEPT ![w].pc = "renew", ![w].source = s] => PassP
      BY <2>2, <2>3
    <3>4. worker' = [worker EXCEPT ![w].pc = "renew", ![w].source = "unwritten"]
            => PassP
      BY <2>2, <2>3
    <3> QED BY <2>4, <3>1, <3>2, <3>3, <3>4
  <2> QED BY <2>1, <2>5, <1>h, <1>i, <1>j
<1>9. ASSUME NEW w \in Worker, Write(w)
      PROVE  Goal
  <2>1. UNCHANGED <<rec, operator, handler>>
    BY <1>9 DEF Write, peopleVars
  <2> DEFINE k == Obligations[worker[w].i]
  <2>2. CASE Goto(w, "mark") /\ worker[w].source # "unwritten"
    <3>1. PassP
      BY <1>9, <2>2, GotoMoves DEF WorkerPoint, PassP, Write
    <3> QED BY <2>1, <3>1, <1>h, <1>i, <1>j
  <2>3. CASE /\ repairs' = [repairs EXCEPT ![k] = @ + 1]
             /\ worker' = [worker EXCEPT ![w].pc = "mark", ![w].source = "repair"]
    <3> DEFINE q == [worker[w] EXCEPT !.pc = "mark", !.source = "repair"]
    <3>1. worker' = [worker EXCEPT ![w] = q]
      BY <1>0, <2>3
    <3>2. q.pc = "mark" /\ q.source = "repair" /\ q.seen = worker[w].seen
          /\ q.i = worker[w].i
      BY <1>b DEF WorkerRecord
    <3>3. Proven(worker[w].seen, own', repairs')
      BY <1>g DEF PassProven
    <3>4. k \in Kind
      BY <1>b
    <3>5. repairs'[k] > 0
      BY <1>0, <2>3, <3>4
    <3> HIDE DEF q
    <3>6. PassProven(q, own', repairs')
      BY <3>2, <3>3, <3>5 DEF PassProven, SourceProven
    <3>7. PassP
      BY <3>1, <3>6, PassMoves DEF PassP
    <3> QED BY <2>1, <3>7, <1>h, <1>i, <1>j
  <2> QED BY <1>9, <2>2, <2>3 DEF Write
<1>10. ASSUME NEW w \in Worker, Mark(w)
       PROVE  Goal
  <2>1. UNCHANGED <<operator, handler>>
    BY <1>10 DEF Mark, peopleVars
  <2> DEFINE k == Obligations[worker[w].i]
  <2>2. k \in Kind /\ worker[w].source \in Source
    BY <1>b DEF WorkerRecord
  <2>3. SourceProven(worker[w].source, k, own', repairs')
    BY <1>10, <1>g DEF PassProven, Mark
  <2>4. Proven(MarkObligation(rec, k, worker[w].source).by, own', repairs')
    BY <1>0, <1>d, <2>2, <2>3, MarkProven
  <2>5. rec' = rec \/ rec' = MarkObligation(rec, k, worker[w].source)
    BY <1>10 DEF Mark
  <2>6. RecP
    BY <1>h, <2>4, <2>5 DEF RecP
  <2>7. CASE Leave(w, "fail") \/ Leave(w, "close")
    BY <2>1, <2>6, <2>7, <1>i, <1>j, <1>m
  <2>8. CASE worker' = [worker EXCEPT ![w].pc = "inspect", ![w].i = @ + 1,
                          ![w].source = "unwritten"]
    <3> DEFINE q == [worker[w] EXCEPT !.pc = "inspect", !.i = @ + 1,
                       !.source = "unwritten"]
    <3>1. worker' = [worker EXCEPT ![w] = q]
      BY <1>0, <2>8
    <3>2. q.pc = "inspect" /\ q.seen = worker[w].seen
      BY <1>b DEF WorkerRecord
    <3>3. Proven(worker[w].seen, own', repairs')
      BY <1>g DEF PassProven
    <3> HIDE DEF q
    <3>4. PassProven(q, own', repairs')
      BY <3>2, <3>3 DEF PassProven
    <3>5. PassP
      BY <3>1, <3>4, PassMoves DEF PassP
    <3> QED BY <2>1, <2>6, <3>5, <1>i, <1>j
  <2> QED BY <1>10, <2>7, <2>8 DEF Mark, Leave
<1>11. ASSUME NEW w \in Worker,
              Close(w) \/ Review(w) \/ Fail(w) \/ PassOn(w) \/ Die(w)
       PROVE  Goal
  <2>1. UNCHANGED <<operator, handler>>
    BY <1>11 DEF Close, Review, Fail, PassOn, Die, peopleVars
  <2>2. \E pc \in {"passing", "fail", "idle"} : Leave(w, pc)
    BY <1>11 DEF Close, Review, Fail, PassOn, Die
  <2>3. PassP
    BY <2>2, <1>m
  <2>4. rec'.by = rec.by
    <3>1. Close(w) => rec'.by = rec.by
      BY <1>0 DEF Close, Record
    <3>2. Review(w) => rec'.by = rec.by
      BY <1>0 DEF Review, Record
    <3>3. Fail(w) => rec'.by = rec.by
      BY <1>0 DEF Fail, Record
    <3>4. PassOn(w) \/ Die(w) => rec'.by = rec.by
      BY DEF PassOn, Die
    <3> QED BY <1>11, <3>1, <3>2, <3>3, <3>4
  <2>5. RecP
    BY <1>d, <2>4 DEF RecP
  <2> QED BY <2>1, <2>3, <2>5, <1>i, <1>j
<1>12. ASSUME NEW o \in Operator, OperatorGet(o)
       PROVE  Goal
  <2>1. UNCHANGED <<rec, handler, worker>>
    BY <1>12 DEF OperatorGet
  <2>2. \A p \in Operator : operator'[p] = operator[p] \/ operator'[p].copy = rec
    BY <1>0, <1>12 DEF OperatorGet
  <2>3. OpP
    BY <1>d, <1>f, <2>2 DEF OpP
  <2> QED BY <2>1, <2>3, <1>h, <1>i, <1>k
<1>13. ASSUME NEW o \in Operator, OperatorPut(o)
       PROVE  Goal
  <2>1. UNCHANGED <<handler, worker>>
    BY <1>13 DEF OperatorPut
  <2>2. \A p \in Operator : operator'[p] = operator[p] \/ operator'[p] = IdleOperator
    BY <1>0, <1>13 DEF OperatorPut
  <2>3. OpP
    BY <1>f, <2>2, FreshProven DEF OpP
  <2>4. operator[o].copy \in Record
    BY <1>0 DEF OperatorRecord
  <2>5. rec'.by = operator[o].copy.by
    BY <1>13, <2>4 DEF OperatorPut, Record
  <2>6. RecP
    BY <1>f, <2>5 DEF RecP
  <2> QED BY <2>1, <2>3, <2>6, <1>i, <1>k
<1>14. CASE UNCHANGED vars
  BY <1>14, <1>h, <1>i, <1>j, <1>k DEF vars
<1> HIDE DEF Goal
<1> QED
  BY <1>1, <1>2, <1>3, <1>4, <1>5, <1>6, <1>7, <1>8, <1>9, <1>10, <1>11, <1>12,
     <1>13, <1>14 DEF Next, HandlerStep, WorkerStep

\* A record is closed only with every obligation satisfied, or by an operator.
LEMMA CloseStep == TypeOK /\ CloseInv /\ [Next]_vars => CloseInv'
<1> SUFFICES ASSUME TypeOK, CloseInv, [Next]_vars, rec'.status = "Reconciled",
                    ~resolved'
             PROVE  \A k \in Kind : rec'.by[k] # "unwritten"
  BY OwedStays DEF CloseInv, AllSatisfied
<1>0. rec \in Record /\ handler.copy \in Record
  BY TypeIs DEF HandlerRecord
<1>a. CASE UNCHANGED <<rec, resolved>>
  BY <1>a DEF CloseInv, AllSatisfied
<1>1. CASE HandlerMark
  <2>1. MarkObligation(handler.copy, k_h, "handler").status = "ProvenanceWritten"
    BY <1>0 DEF MarkObligation, Record
  <2> QED BY <1>1, <1>a, <2>1 DEF HandlerMark
<1>2. CASE HandlerClose
  <2>1. [handler.copy EXCEPT !.status = "Reconciled"].by = handler.copy.by
    BY <1>0 DEF Record
  <2> QED BY <1>2, <1>a, <2>1 DEF HandlerClose, AllSatisfied
<1>3. ASSUME NEW w \in Worker, Mark(w)
      PROVE  \A k \in Kind : rec'.by[k] # "unwritten"
  <2>1. MarkObligation(rec, Obligations[worker[w].i], worker[w].source).status
          = "ProvenanceWritten"
    BY <1>0 DEF MarkObligation, Record
  <2>2. UNCHANGED resolved
    BY <1>3 DEF Mark, peopleVars
  <2> QED BY <1>3, <1>a, <2>1, <2>2 DEF Mark
<1>4. ASSUME NEW w \in Worker, Close(w)
      PROVE  \A k \in Kind : rec'.by[k] # "unwritten"
  <2>1. [rec EXCEPT !.status = "Reconciled"].by = rec.by
    BY <1>0 DEF Record
  <2>2. UNCHANGED resolved
    BY <1>4 DEF Close, peopleVars
  <2> QED BY <1>4, <1>a, <2>1, <2>2 DEF Close, AllSatisfied
<1>5. ASSUME NEW w \in Worker, Review(w)
      PROVE  \A k \in Kind : rec'.by[k] # "unwritten"
  <2>1. [rec EXCEPT !.status = "NeedsOperatorReview", !.attempts = @ + 1].status
          = "NeedsOperatorReview"
    BY <1>0 DEF Record
  <2>2. UNCHANGED resolved
    BY <1>5 DEF Review, peopleVars
  <2> QED BY <1>5, <1>a, <2>1, <2>2 DEF Review
<1>6. ASSUME NEW w \in Worker, Fail(w)
      PROVE  \A k \in Kind : rec'.by[k] # "unwritten"
  <2>1. UNCHANGED resolved
    BY <1>6 DEF Fail, peopleVars
  <2>2. rec'.by = rec.by /\ rec'.status \in {rec.status, "NeedsOperatorReview"}
    BY <1>0, <1>6 DEF Fail, Record
  <2> QED BY <2>1, <2>2 DEF CloseInv, AllSatisfied
<1>7. ASSUME NEW o \in Operator, OperatorPut(o)
      PROVE  \A k \in Kind : rec'.by[k] # "unwritten"
  <2>1. operator[o].copy \in Record
    BY TypeIs DEF OperatorRecord
  <2>2. [operator[o].copy EXCEPT !.status = "PendingProvenance"].status
          = "PendingProvenance"
    BY <2>1 DEF Record
  <2> QED BY <1>7, <2>2 DEF OperatorPut
<1>8. \/ UNCHANGED <<rec, resolved>> \/ HandlerMark \/ HandlerClose
      \/ \E w \in Worker : Mark(w) \/ Close(w) \/ Review(w) \/ Fail(w)
      \/ \E o \in Operator : OperatorPut(o)
  BY DEF Next, vars, HandlerStep, WorkerStep, HandlerAppend, HandlerGet,
     HandlerStop, Drift, ParentArrives, Claim, CheckDrift, Inspect, Renew, Write,
     PassOn, GiveUp, Die, Expire, OperatorGet, peopleVars
<1> QED BY <1>8, <1>a, <1>1, <1>2, <1>3, <1>4, <1>5, <1>6, <1>7

\* What the record says is true: an obligation that names an event names one
\* that is in the log, and a record that was not resolved by an operator is
\* reconciled only when every obligation is, although handler, passes and
\* operators write it back whole from copies they read earlier
\* (mark_provenance_obligation_written, mark_reconciled).
THEOREM MarksProven == Spec => []MarksAreProven
<1>1. TypeOK /\ MarkInv /\ CloseInv => MarksAreProven
  <2> SUFFICES ASSUME TypeOK, MarkInv, CloseInv PROVE MarksAreProven
    OBVIOUS
  <2>1. NamedIsWritten
    BY DEF NamedIsWritten, MarkInv, Proven, SourceProven
  <2>2. ASSUME rec.status = "Reconciled", ~resolved, NEW k \in Kind
        PROVE  rec.by[k] # "unwritten" /\ Written(k) > 0
    <3>1. rec.by[k] # "unwritten"
      BY <2>2 DEF CloseInv, AllSatisfied
    <3>2. repairs[k] \in Nat /\ rec.by[k] \in Source
      BY TypeIs DEF Record
    <3>3. own[k] # "absent" \/ repairs[k] > 0
      BY <2>1, <3>1, <3>2 DEF NamedIsWritten, Source
    <3> QED BY <3>1, <3>2, <3>3 DEF Written
  <2> QED BY <2>1, <2>2 DEF MarksAreProven, ReconciledIsProven
<1> QED BY <1>1, TypeInit, TypeStep, MarkInit, MarkStep, CloseStep, PTL DEF Spec

------------------------------------------------------------------------------
(* Leases *)

Active(w) == worker[w].pc \notin {"idle", "passing"}

(***************************************************************************)
(* A leased record is open, an unexpired lease has an owner and, while no  *)
(* live pass has lost its lease, every pass at work holds it: so at most   *)
(* one is.                                                                 *)
(***************************************************************************)
LeaseOpen == lease.owner # NoWorker => rec.status \in Open
LeaseOwned == lease.live => lease.owner # NoWorker
OneAtWork == stalls = 0 => \A w \in Worker : Active(w) => Holds(w)
LeaseInv == LeaseOpen /\ LeaseOwned /\ OneAtWork

\* No lease, no pass, nothing lost.
LEMMA LeaseInit == Init => LeaseInv
BY DEF Init, LeaseInv, LeaseOpen, LeaseOwned, OneAtWork, NoLease, Active, IdleWorker

\* Who writes the record and the lease.
LEMMA LeaseWriters ==
  ASSUME [Next]_vars
  PROVE  \/ UNCHANGED <<rec, lease>> \/ HandlerMark \/ HandlerClose \/ Expire
         \/ \E w \in Worker : \/ Claim(w) \/ Mark(w) \/ Close(w) \/ Review(w)
                              \/ Fail(w) \/ PassOn(w)
         \/ \E o \in Operator : OperatorPut(o)
BY DEF Next, vars, HandlerStep, WorkerStep, HandlerAppend, HandlerGet,
   HandlerStop, Drift, ParentArrives, CheckDrift, Inspect, Renew, Write,
   GiveUp, Die, OperatorGet

\* A lease is taken on open records only, and whoever closes one gives it up.
LEMMA LeaseStep ==
  ASSUME TypeOK, LeaseInv, [Next]_vars
  PROVE  LeaseOpen' /\ LeaseOwned'
<1> DEFINE Goal == /\ lease'.owner # NoWorker => rec'.status \in Open
                   /\ lease'.live => lease'.owner # NoWorker
<1> SUFFICES Goal
  BY DEF LeaseOpen, LeaseOwned, Open
<1>0. rec \in Record /\ lease \in Lease
  BY TypeIs
<1>1. lease.owner # NoWorker => rec.status \in Open
  BY DEF LeaseInv, LeaseOpen
<1>2. lease.live => lease.owner # NoWorker
  BY DEF LeaseInv, LeaseOwned
<1>3. CASE lease' = NoLease
  BY <1>3 DEF NoLease
<1>4. CASE UNCHANGED <<rec, lease>>
  BY <1>1, <1>2, <1>4
<1>5. CASE HandlerMark \/ HandlerClose
  <2>1. UNCHANGED lease
    BY <1>5 DEF HandlerMark, HandlerClose
  <2>2. lease.owner # NoWorker => UNCHANGED rec
    BY <1>5 DEF HandlerMark, HandlerClose
  <2> QED BY <1>1, <1>2, <2>1, <2>2
<1>6. CASE Expire
  <2>1. lease'.live = FALSE /\ lease'.owner = lease.owner
    BY <1>0, <1>6 DEF Expire, Lease
  <2>2. UNCHANGED rec
    BY <1>6 DEF Expire
  <2> QED BY <1>1, <2>1, <2>2
<1>7. ASSUME NEW w \in Worker, TakeLease(w), UNCHANGED rec, rec.status \in Open
      PROVE  Goal
  BY <1>7, NoWorkerAssumption DEF TakeLease
<1>8. ASSUME NEW w \in Worker, Claim(w) \/ PassOn(w)
      PROVE  Goal
  <2>1. UNCHANGED rec /\ ((rec.status \in Open /\ TakeLease(w)) \/ UNCHANGED lease)
    BY <1>8 DEF Claim, PassOn, Claimable
  <2> QED BY <1>4, <1>7, <2>1
<1>9. ASSUME NEW w \in Worker, Mark(w)
      PROVE  Goal
  <2>1. MarkObligation(rec, Obligations[worker[w].i], worker[w].source).status
          = "ProvenanceWritten"
    BY <1>0 DEF MarkObligation, Record
  <2>2. UNCHANGED lease
    BY <1>9 DEF Mark
  <2>3. rec'.status = rec.status \/ rec'.status = "ProvenanceWritten"
    BY <1>9, <2>1 DEF Mark
  <2> QED BY <1>1, <1>2, <2>2, <2>3 DEF Open
<1>10. ASSUME NEW w \in Worker, Close(w) \/ Review(w) \/ Fail(w)
       PROVE  Goal
  <2>1. UNCHANGED <<rec, lease>> \/ lease' = NoLease
    BY <1>10 DEF Close, Review, Fail, ClearLease
  <2> QED BY <1>3, <1>4, <2>1
<1>11. ASSUME NEW o \in Operator, OperatorPut(o)
       PROVE  Goal
  BY <1>3, <1>11 DEF OperatorPut, ClearLease
<1> HIDE DEF Goal
<1> QED BY <1>4, <1>5, <1>6, <1>8, <1>9, <1>10, <1>11, LeaseWriters

\* Losses are counted and never forgotten.
LEMMA StallsGrow ==
  ASSUME TypeOK, [Next]_vars, stalls' = 0
  PROVE  stalls = 0
<1>0. stalls \in Nat
  BY TypeIs
<1>1. stalls' = stalls \/ stalls' = stalls + 1
  BY DEF Next, vars, HandlerStep, WorkerStep, HandlerAppend, HandlerGet,
     HandlerMark, HandlerClose, HandlerStop, Drift, ParentArrives, Claim,
     CheckDrift, Inspect, Renew, Write, Mark, Close, Review, Fail, PassOn,
     GiveUp, Die, Expire, OperatorGet, OperatorPut, faultVars
<1> QED BY <1>0, <1>1

\* A step of a pass leaves the other passes alone.
LEMMA OthersStay ==
  ASSUME TypeOK, NEW w \in Worker, WorkerStep(w) \/ GiveUp(w) \/ Die(w)
  PROVE  \A v \in Worker \ {w} : worker'[v] = worker[v]
<1>0. worker \in [Worker -> WorkerRecord]
  BY TypeIs
<1>1. \E q : worker' = [worker EXCEPT ![w] = q]
  <2>1. ASSUME NEW pc, Goto(w, pc) PROVE \E q : worker' = [worker EXCEPT ![w] = q]
    BY <1>0, <2>1 DEF Goto
  <2>2. ASSUME NEW pc, Leave(w, pc) PROVE \E q : worker' = [worker EXCEPT ![w] = q]
    BY <2>2 DEF Leave
  <2>3. CASE Claim(w)
    BY <2>3 DEF Claim
  <2>4. CASE CheckDrift(w) \/ Renew(w) \/ Close(w) \/ Review(w) \/ Fail(w)
             \/ PassOn(w) \/ GiveUp(w) \/ Die(w)
    BY <2>1, <2>2, <2>4 DEF CheckDrift, Renew, Close, Review, Fail, PassOn,
       GiveUp, Die
  <2>5. CASE Inspect(w)
    BY <1>0, <2>2, <2>5 DEF Inspect
  <2>6. CASE Write(w)
    BY <1>0, <2>1, <2>6 DEF Write
  <2>7. CASE Mark(w)
    BY <1>0, <2>2, <2>7 DEF Mark
  <2> QED BY <2>3, <2>4, <2>5, <2>6, <2>7 DEF WorkerStep
<1> QED BY <1>0, <1>1

\* Only passes move passes.
LEMMA WorkerMoves ==
  ASSUME [Next]_vars
  PROVE  \/ UNCHANGED worker
         \/ \E w \in Worker : WorkerStep(w) \/ GiveUp(w) \/ Die(w)
BY DEF Next, vars, HandlerStep, HandlerAppend, HandlerGet, HandlerMark,
   HandlerClose, HandlerStop, Drift, ParentArrives, Expire, OperatorGet,
   OperatorPut

\* How one step changes who is at work: a pass begins by its claim and is then
\* at work until it leaves.
LEMMA PassSteps ==
  ASSUME TypeOK, [Next]_vars
  PROVE  \/ UNCHANGED worker
         \/ \E w \in Worker :
              /\ \A v \in Worker \ {w} : worker'[v] = worker[v]
              /\ \/ Claim(w)
                 \/ worker'[w].pc \in {"idle", "passing"}
                 \/ Active(w) /\ UNCHANGED lease
<1>0. worker \in [Worker -> WorkerRecord]
  BY TypeIs
<1>2. ASSUME NEW w \in Worker, WorkerStep(w) \/ GiveUp(w) \/ Die(w)
      PROVE  \/ Claim(w)
             \/ worker'[w].pc \in {"idle", "passing"}
             \/ Active(w) /\ UNCHANGED lease
  <2>1. ASSUME NEW pc \in {"idle", "passing"}, Leave(w, pc)
        PROVE  worker'[w].pc \in {"idle", "passing"}
    BY <1>0, <2>1 DEF Leave, IdleWorker
  <2>2. CASE CheckDrift(w) \/ Renew(w) \/ Inspect(w) \/ Write(w) \/ Mark(w)
             \/ GiveUp(w)
    BY <2>2 DEF CheckDrift, Renew, Inspect, Write, Mark, GiveUp, Active
  <2>3. CASE Close(w) \/ Review(w)
    BY <2>1, <2>3 DEF Close, Review, Active
  <2>4. CASE Fail(w) \/ PassOn(w) \/ Die(w)
    BY <2>1, <2>4 DEF Fail, PassOn, Die
  <2> QED BY <1>2, <2>2, <2>3, <2>4 DEF WorkerStep
<1> QED BY <1>2, OthersStay, WorkerMoves

\* Whoever takes a lease away from a pass at work counts it as lost.
LEMMA WorkStep ==
  ASSUME TypeOK, LeaseInv, [Next]_vars
  PROVE  OneAtWork'
<1> SUFFICES ASSUME stalls' = 0, NEW v \in Worker,
                    worker'[v].pc \notin {"idle", "passing"}
             PROVE  lease'.owner = v /\ lease'.live
  BY DEF OneAtWork, Active, Holds
<1>0. /\ lease \in Lease /\ worker \in [Worker -> WorkerRecord] /\ stalls \in Nat
  BY TypeIs
<1>1. stalls = 0
  BY StallsGrow
<1>2. \A w \in Worker : Active(w) => lease.owner = w /\ lease.live
  BY <1>1 DEF LeaseInv, OneAtWork, Holds
<1>3. CASE Claim(v)
  BY <1>3 DEF Claim, TakeLease
<1>4. ASSUME Active(v), UNCHANGED lease
      PROVE  lease'.owner = v /\ lease'.live
  BY <1>2, <1>4
<1>5. ASSUME ~Claim(v) PROVE Active(v)
  <2>1. worker'[v] = worker[v] => Active(v)
    BY DEF Active
  <2> QED BY <1>5, <2>1, PassSteps
<1>6. ASSUME Active(v), lease' # lease
      PROVE  FALSE
  <2>1. Holds(v) /\ Attended
    BY <1>2, <1>6 DEF Holds, Attended, Active
  <2>2. ~Expire
    BY <1>0, <1>1, <2>1 DEF Expire
  <2>3. \A o \in Operator : ~OperatorPut(o)
    BY <1>0, <1>1, <2>1 DEF OperatorPut
  <2>4. \A w \in Worker : ~Claim(w) /\ (PassOn(w) => UNCHANGED lease)
    BY <2>1 DEF Claim, PassOn, Claimable, Holds
  <2>5. ASSUME NEW w \in Worker, Close(w) \/ Review(w) \/ Fail(w)
        PROVE  FALSE
    <3>1. w = v
      <4>1. Holds(w)
        BY <1>6, <2>5 DEF Close, Review, Fail
      <4> QED BY <2>1, <4>1 DEF Holds
    <3>2. Holds(v)
      BY <2>1
    <3>3. CASE Leave(v, "passing")
      <4>1. worker'[v].pc = "passing"
        BY <1>0, <3>3 DEF Leave, IdleWorker
      <4> QED BY <4>1
    <3>4. CASE Leave(v, "fail") /\ UNCHANGED lease
      BY <1>6, <3>4
    <3> QED BY <2>5, <3>1, <3>3, <3>4 DEF Close, Review, Fail
  <2>6. HandlerMark \/ HandlerClose \/ (\E w \in Worker : Mark(w)) => UNCHANGED lease
    BY DEF HandlerMark, HandlerClose, Mark
  <2> QED BY <1>6, <2>2, <2>3, <2>4, <2>5, <2>6, LeaseWriters
<1> QED BY <1>3, <1>4, <1>5, <1>6

\* The lease invariant is inductive.
LEMMA LeaseKept == TypeOK /\ LeaseInv /\ [Next]_vars => LeaseInv'
BY LeaseStep, WorkStep DEF LeaseInv

\* Once the handler is gone, a record under review stays there until an
\* operator decides: no pass claims it again, marks it or closes it
\* (claim_pending_reconciliation and the fenced updates).
THEOREM ReviewIsFinal == Spec => ReviewNeedsOperator
<1>1. ASSUME TypeOK, LeaseInv, [Next]_vars, rec.status = "NeedsOperatorReview",
             rec'.status # "NeedsOperatorReview", handler.pc = "done"
      PROVE  operator' # operator
  <2>1. lease.owner = NoWorker
    BY <1>1 DEF LeaseInv, LeaseOpen, Open
  <2>2. \A w \in Worker : ~Holds(w)
    BY <2>1, NoWorkerAssumption DEF Holds
  <2>3. rec' # rec
    BY <1>1
  <2>4. ~HandlerMark /\ ~HandlerClose /\ ~Expire
    BY <1>1, <2>3 DEF HandlerMark, HandlerClose, Expire
  <2>5. \A w \in Worker : ~Claim(w) /\ ~PassOn(w) /\ ~Mark(w) /\ ~Close(w)
                          /\ ~Review(w) /\ ~Fail(w)
    BY <2>2, <2>3 DEF Claim, PassOn, Mark, Close, Review, Fail
  <2>6. PICK o \in Operator : OperatorPut(o)
    BY <1>1, <2>3, <2>4, <2>5, LeaseWriters
  <2>7. operator \in [Operator -> OperatorRecord]
    BY <1>1, TypeIs
  <2>8. operator'[o] = IdleOperator
    BY <2>6, <2>7 DEF OperatorPut
  <2>9. operator[o].pc # "idle" /\ IdleOperator.pc = "idle"
    BY <2>6 DEF OperatorPut, IdleOperator
  <2> QED BY <2>8, <2>9
<1>2. TypeOK /\ LeaseInv /\ [Next]_vars =>
        [rec.status = "NeedsOperatorReview" /\ rec'.status # "NeedsOperatorReview"
           /\ handler.pc = "done" => operator' # operator]_vars
  BY <1>1
<1> QED BY <1>2, TypeInit, TypeStep, LeaseInit, LeaseKept, PTL
        DEF Spec, ReviewNeedsOperator

\* What a step without handler and operator may do to the record: nothing once it
\* is settled, and before that it takes no mark and no attempt back.
OnlyAdds ==
  /\ rec.status \notin Open => rec' = rec
  /\ \A k \in Kind : rec.by[k] # "unwritten" => rec'.by[k] # "unwritten"
  /\ rec'.attempts >= rec.attempts

\* An operator's write is seen on the operator.
LEMMA PutIsSeen ==
  ASSUME TypeOK, NEW o \in Operator, OperatorPut(o)
  PROVE  operator' # operator
<1>1. operator \in [Operator -> OperatorRecord]
  BY TypeIs
<1>2. operator'[o] = IdleOperator
  BY <1>1 DEF OperatorPut
<1>3. operator[o].pc # "idle" /\ IdleOperator.pc = "idle"
  BY DEF OperatorPut, IdleOperator
<1> QED BY <1>2, <1>3

\* The writes of a pass add to the record or leave it alone.
LEMMA PassAdds ==
  ASSUME TypeOK, MarkInv, NEW w \in Worker,
         Mark(w) \/ Close(w) \/ Review(w) \/ Fail(w)
  PROVE  /\ rec' = rec \/ Holds(w)
         /\ \A k \in Kind : rec.by[k] # "unwritten" => rec'.by[k] # "unwritten"
         /\ rec'.attempts >= rec.attempts
<1>1. rec \in Record /\ worker[w] \in WorkerRecord /\ rec.attempts \in Nat
  BY TypeIs DEF Record
<1>2. rec' = rec \/ Holds(w)
  BY DEF Mark, Close, Review, Fail
<1>3. CASE rec' = rec
  BY <1>1, <1>2, <1>3
<1>4. CASE Mark(w) /\ rec' # rec
  <2> DEFINE k == Obligations[worker[w].i]
  <2>1. k \in Kind
    BY <1>1 DEF Kind, WorkerRecord
  <2>2. worker[w].source # "unwritten" /\ worker[w].source \in Source
    BY <1>1, <1>4 DEF Mark, MarkInv, PassProven, WorkerRecord
  <2>3. rec' = MarkObligation(rec, k, worker[w].source)
    BY <1>4 DEF Mark
  <2> HIDE DEF k
  <2>4. rec'.by = [rec.by EXCEPT ![k] = worker[w].source]
        /\ rec'.attempts = rec.attempts
    BY <1>1, <2>1, <2>2, <2>3, MarkTypes
  <2>5. rec.by \in [Kind -> Source]
    BY <1>1 DEF Record
  <2> QED BY <1>1, <1>2, <2>2, <2>4, <2>5
<1>5. CASE (Close(w) \/ Review(w) \/ Fail(w)) /\ rec' # rec
  <2>1. /\ rec'.by = rec.by
        /\ rec'.attempts = rec.attempts \/ rec'.attempts = rec.attempts + 1
    BY <1>1, <1>5 DEF Close, Review, Fail, Record
  <2> QED BY <1>1, <1>2, <2>1
<1> QED BY <1>3, <1>4, <1>5

\* With the handler gone and no operator at work a settled record stays as it is,
\* and as long as it is open its marks and its attempts only grow: crashed, stalled
\* and repeated passes never undo what an earlier one recorded, so that the limit
\* MAX_RECONCILIATION_ATTEMPTS counts them all (record_reconciliation_failure).
THEOREM PassesOnlyAdd ==
  Spec => [][handler.pc = "done" /\ operator' = operator => OnlyAdds]_vars
<1>1. ASSUME TypeOK, LeaseInv, MarkInv, [Next]_vars, handler.pc = "done",
             operator' = operator
      PROVE  OnlyAdds
  <2>0. rec.attempts \in Nat
    BY <1>1, TypeIs DEF Record
  <2>1. CASE rec' = rec
    BY <2>0, <2>1 DEF OnlyAdds
  <2>2. CASE rec' # rec
    <3>1. ~HandlerMark /\ ~HandlerClose /\ ~Expire
      BY <1>1, <2>2 DEF HandlerMark, HandlerClose, Expire
    <3>2. \A w \in Worker : ~Claim(w) /\ ~PassOn(w)
      BY <2>2 DEF Claim, PassOn
    <3>3. \A o \in Operator : ~OperatorPut(o)
      BY <1>1, PutIsSeen
    <3>4. PICK w \in Worker : Mark(w) \/ Close(w) \/ Review(w) \/ Fail(w)
      BY <1>1, <2>2, <3>1, <3>2, <3>3, LeaseWriters
    <3>5. /\ Holds(w)
          /\ \A k \in Kind : rec.by[k] # "unwritten" => rec'.by[k] # "unwritten"
          /\ rec'.attempts >= rec.attempts
      BY <1>1, <2>2, <3>4, PassAdds
    <3>6. rec.status \in Open
      BY <1>1, <3>5, NoWorkerAssumption DEF Holds, LeaseInv, LeaseOpen
    <3> QED BY <3>5, <3>6 DEF OnlyAdds
  <2> QED BY <2>1, <2>2
<1>2. TypeOK /\ LeaseInv /\ MarkInv /\ [Next]_vars =>
        [handler.pc = "done" /\ operator' = operator => OnlyAdds]_vars
  BY <1>1
<1> QED BY <1>2, TypeInit, TypeStep, LeaseInit, LeaseKept, MarkInit, MarkStep, PTL
        DEF Spec

------------------------------------------------------------------------------
(* Repairs *)

(***************************************************************************)
(* RepairedOnce and RepairHasParent are decided when a pass inspects the   *)
(* log and come true when it writes: in between the pass must still be     *)
(* right.                                                                  *)
(***************************************************************************)
RepairDue(k) == \A w \in Worker :
  worker[w].pc \in {"renew", "write"} /\ Obligations[worker[w].i] = k =>
    /\ Parents(k) > 0
    /\ stalls = 0 /\ worker[w].source = "unwritten"
         /\ (own[k] = "absent" \/ ~Tagged) => repairs[k] = 0

RepairInv == RepairedOnce /\ RepairHasParent /\ \A k \in Kind : RepairDue(k)

\* A parent that is in the log stays there.
LEMMA ParentStays ==
  ASSUME TypeOK, [Next]_vars, NEW k \in Kind, Parents(k) > 0
  PROVE  Parents(k)' > 0
<1>1. Kind' = Kind /\ Parent' = Parent
  BY OwedStays
<1>2. CASE Parent[k] \in Kind
  <2> DEFINE j == Parent[k]
  <2>1. /\ own[j] # "absent" => own'[j] # "absent"
        /\ repairs'[j] \in Nat /\ repairs[j] \in Nat /\ repairs'[j] >= repairs[j]
    BY <1>2, LogGrows
  <2>2. Written(j) > 0
    BY <1>2 DEF Parents
  <2>3. (IF own'[j] = "absent" THEN 0 ELSE 1) + repairs'[j] > 0
    BY <2>1, <2>2 DEF Written
  <2>4. Parents(k)' = (IF own'[j] = "absent" THEN 0 ELSE 1) + repairs'[j]
    BY <1>1, <1>2 DEF Parents, Written
  <2> QED BY <2>3, <2>4
<1>3. CASE Parent[k] \notin Kind
  <2>1. Parent[k] = "earlier" \/ (Parent[k] = "late" /\ arrived)
    BY <1>3 DEF Parents
  <2>2. Parent[k] = "earlier" \/ (Parent[k] = "late" /\ arrived')
    BY <2>1, LogGrows
  <2> QED BY <1>1, <1>3, <2>2 DEF Parents
<1> QED BY <1>2, <1>3

\* Nothing has been repaired yet.
LEMMA RepairInit == Init => RepairInv
<1> SUFFICES ASSUME Init PROVE RepairInv
  OBVIOUS
<1>1. \A k \in Kind : repairs[k] = 0
  BY DEF Init
<1>2. \A w \in Worker : worker[w].pc = "idle"
  BY DEF Init, IdleWorker
<1> QED BY <1>1, <1>2 DEF RepairInv, RepairedOnce, RepairHasParent, RepairDue

\* While no lease is lost, two passes are never at work at once.
LEMMA AloneAtWork ==
  ASSUME LeaseInv, stalls = 0, NEW v \in Worker, NEW w \in Worker,
         Active(v), Active(w)
  PROVE  v = w
BY DEF LeaseInv, OneAtWork, Holds

\* A pass that decides to repair has looked for the event and for its parent.
LEMMA InspectDecides ==
  ASSUME TypeOK, RepairInv, NEW w \in Worker, Inspect(w),
         worker'[w].pc \in {"renew", "write"}, NEW k \in Kind,
         k = Obligations[worker'[w].i]
  PROVE  /\ Parents(k) > 0
         /\ stalls = 0 /\ worker'[w].source = "unwritten"
              /\ (own[k] = "absent" \/ ~Tagged) => repairs[k] = 0
<1>0. worker \in [Worker -> WorkerRecord] /\ worker[w] \in WorkerRecord
  BY TypeIs
<1>1. ~Leave(w, "review")
  <2>1. ASSUME Leave(w, "review") PROVE worker'[w].pc = "review"
    BY <1>0, <2>1 DEF Leave, IdleWorker
  <2> QED BY <2>1
<1>2. worker'[w].i = worker[w].i
  <2>1. ASSUME NEW pc, NEW s, worker' = [worker EXCEPT ![w].pc = pc, ![w].source = s]
        PROVE  worker'[w].i = worker[w].i
    <3>1. worker' = [worker EXCEPT ![w] = [worker[w] EXCEPT !.pc = pc, !.source = s]]
      BY <1>0, <2>1
    <3>2. [worker[w] EXCEPT !.pc = pc, !.source = s].i = worker[w].i
      BY <1>0 DEF WorkerRecord
    <3> QED BY <1>0, <3>1, <3>2
  <2> QED BY <1>1, <2>1 DEF Inspect
<1>3. k = Obligations[worker[w].i]
  BY <1>2
<1>4. ASSUME NEW s, worker' = [worker EXCEPT ![w].pc = "mark", ![w].source = s]
      PROVE  FALSE
  <2>1. worker' = [worker EXCEPT ![w] = [worker[w] EXCEPT !.pc = "mark", !.source = s]]
    BY <1>0, <1>4
  <2>2. [worker[w] EXCEPT !.pc = "mark", !.source = s].pc = "mark"
    BY <1>0 DEF WorkerRecord
  <2> QED BY <1>0, <2>1, <2>2
<1>5. UniqueParent(k)
  BY <1>1, <1>3, <1>4 DEF Inspect
<1>6. Parents(k) > 0
  BY <1>5 DEF UniqueParent
<1>7. ASSUME stalls = 0, worker'[w].source = "unwritten",
             own[k] = "absent" \/ ~Tagged
      PROVE  repairs[k] = 0
  <2>1. Accepted(w, k) = "unwritten"
    <3>1. ASSUME worker' = [worker EXCEPT ![w].pc = "renew",
                              ![w].source = Accepted(w, k)]
          PROVE  worker'[w].source = Accepted(w, k)
      <4>1. worker' = [worker EXCEPT ![w] =
                         [worker[w] EXCEPT !.pc = "renew", !.source = Accepted(w, k)]]
        BY <1>0, <3>1
      <4>2. [worker[w] EXCEPT !.pc = "renew", !.source = Accepted(w, k)].source
              = Accepted(w, k)
        BY <1>0 DEF WorkerRecord
      <4> QED BY <1>0, <4>1, <4>2
    <3> QED BY <1>1, <1>3, <1>4, <1>7, <3>1 DEF Inspect
  <2>2. repairs[k] \in Nat
    BY TypeIs
  <2>3. Discoverable(k) # 1
    BY <2>1 DEF Accepted
  <2>4. repairs[k] # 1
    BY <1>7, <2>2, <2>3 DEF Discoverable
  <2>5. repairs[k] <= 1
    BY <1>7 DEF RepairInv, RepairedOnce
  <2> QED BY <2>2, <2>4, <2>5
<1> QED BY <1>6, <1>7

\* A pass about to write got there from its inspection, and renewing the lease
\* changes nothing else.
LEMMA RepairingPass ==
  ASSUME TypeOK, [Next]_vars, NEW v \in Worker, worker'[v].pc \in {"renew", "write"}
  PROVE  \/ Inspect(v)
         \/ /\ worker[v].pc \in {"renew", "write"}
            /\ worker'[v].i = worker[v].i /\ worker'[v].source = worker[v].source
<1> DEFINE Same == /\ worker[v].pc \in {"renew", "write"}
                   /\ worker'[v].i = worker[v].i
                   /\ worker'[v].source = worker[v].source
<1>0. worker \in [Worker -> WorkerRecord] /\ worker[v] \in WorkerRecord
  BY TypeIs
<1>1. worker'[v] = worker[v] => Same
  OBVIOUS
<1>2. ASSUME NEW pc, Leave(v, pc) PROVE worker'[v].pc = pc
  BY <1>0, <1>2 DEF Leave, IdleWorker
<1>3. ASSUME NEW pc, Goto(v, pc)
      PROVE  /\ worker'[v].pc = pc /\ worker'[v].i = worker[v].i
             /\ worker'[v].source = worker[v].source
  <2>1. worker'[v] = [worker[v] EXCEPT !.pc = pc]
    BY <1>0, <1>3 DEF Goto
  <2> QED BY <1>0, <2>1 DEF WorkerRecord
<1>4. ~Claim(v)
  BY <1>0 DEF Claim, IdleWorker
<1>5. ~CheckDrift(v) /\ ~Close(v) /\ ~Review(v) /\ ~Fail(v) /\ ~PassOn(v)
      /\ ~GiveUp(v) /\ ~Die(v)
  BY <1>2, <1>3 DEF CheckDrift, Close, Review, Fail, PassOn, GiveUp, Die
<1>6. Renew(v) => Same
  BY <1>2, <1>3 DEF Renew
<1>7. ~Write(v)
  <2>1. ASSUME worker' = [worker EXCEPT ![v].pc = "mark", ![v].source = "repair"]
        PROVE  worker'[v].pc = "mark"
    <3>1. worker'[v] = [worker[v] EXCEPT !.pc = "mark", !.source = "repair"]
      BY <1>0, <2>1
    <3> QED BY <1>0, <3>1 DEF WorkerRecord
  <2> QED BY <1>3, <2>1 DEF Write
<1>8. ~Mark(v)
  <2>1. ASSUME worker' = [worker EXCEPT ![v].pc = "inspect", ![v].i = @ + 1,
                                        ![v].source = "unwritten"]
        PROVE  worker'[v].pc = "inspect"
    <3>1. worker'[v] = [worker[v] EXCEPT !.pc = "inspect", !.i = @ + 1,
                                         !.source = "unwritten"]
      BY <1>0, <2>1
    <3> QED BY <1>0, <3>1 DEF WorkerRecord
  <2>2. Mark(v) => \/ Leave(v, "fail") \/ Leave(v, "close")
                   \/ worker' = [worker EXCEPT ![v].pc = "inspect", ![v].i = @ + 1,
                                               ![v].source = "unwritten"]
    BY DEF Mark, Leave
  <2> QED BY <1>2, <2>1, <2>2
<1> HIDE DEF Same
<1>9. WorkerStep(v) \/ GiveUp(v) \/ Die(v) => Inspect(v) \/ Same
  BY <1>4, <1>5, <1>6, <1>7, <1>8 DEF WorkerStep
<1>10. Inspect(v) \/ Same
  BY <1>1, <1>9, OthersStay, WorkerMoves
<1> QED BY <1>10 DEF Same

\* Only a pass repairs, and only what it took for missing.
LEMMA RepairChanges ==
  ASSUME [Next]_vars, NEW k \in Kind, repairs'[k] # repairs[k], TypeOK
  PROVE  \E w \in Worker :
           /\ Write(w) /\ worker[w].pc = "write" /\ worker[w].source = "unwritten"
           /\ k = Obligations[worker[w].i] /\ repairs'[k] = repairs[k] + 1
<1>0. repairs \in [Kind -> Nat] /\ \A w \in Worker : Obligations[worker[w].i] \in Kind
  BY TypeIs, KindFacts DEF WorkerRecord
<1>1. PICK w \in Worker : Write(w)
  BY DEF Next, vars, HandlerStep, WorkerStep, HandlerAppend, HandlerGet,
     HandlerMark, HandlerClose, HandlerStop, Drift, ParentArrives, Claim,
     CheckDrift, Inspect, Renew, Mark, Close, Review, Fail, PassOn, GiveUp, Die,
     Expire, OperatorGet, OperatorPut, logVars
<1> DEFINE j == Obligations[worker[w].i]
<1>2. /\ worker[w].pc = "write" /\ worker[w].source = "unwritten"
      /\ repairs' = [repairs EXCEPT ![j] = @ + 1]
  BY <1>1 DEF Write
<1>3. k = j /\ repairs'[k] = repairs[k] + 1
  BY <1>0, <1>2
<1> QED BY <1>1, <1>2, <1>3

\* The repair invariant is inductive.
LEMMA RepairStep == TypeOK /\ LeaseInv /\ RepairInv /\ [Next]_vars => RepairInv'
<1> SUFFICES ASSUME TypeOK, LeaseInv, RepairInv, [Next]_vars PROVE RepairInv'
  OBVIOUS
<1>0. Kind' = Kind /\ Obligations' = Obligations /\ Tagged' = Tagged
  BY OwedStays
<1>1. repairs \in [Kind -> Nat]
  BY TypeIs
<1>2. ASSUME NEW k \in Kind, repairs'[k] > 0
      PROVE  Parents(k)' > 0
  <2>1. CASE repairs[k] > 0
    BY <2>1, ParentStays DEF RepairInv, RepairHasParent
  <2>2. CASE repairs'[k] # repairs[k]
    BY <2>2, RepairChanges, ParentStays DEF RepairInv, RepairDue
  <2> QED BY <1>2, <2>1, <2>2
<1>3. ASSUME stalls' = 0, NEW k \in Kind, own'[k] = "absent" \/ ~Tagged
      PROVE  repairs'[k] <= 1
  <2>1. stalls = 0 /\ (own[k] = "absent" \/ ~Tagged)
    BY <1>3, StallsGrow, LogGrows
  <2>2. repairs[k] <= 1
    BY <2>1 DEF RepairInv, RepairedOnce
  <2>3. CASE repairs'[k] # repairs[k]
    <3>1. PICK w \in Worker :
            /\ worker[w].pc = "write" /\ worker[w].source = "unwritten"
            /\ k = Obligations[worker[w].i] /\ repairs'[k] = repairs[k] + 1
      BY <2>3, RepairChanges
    <3>2. repairs[k] = 0
      BY <2>1, <3>1 DEF RepairInv, RepairDue
    <3> QED BY <3>1, <3>2
  <2> QED BY <2>2, <2>3
<1>4. ASSUME NEW k \in Kind, NEW v \in Worker, worker'[v].pc \in {"renew", "write"},
             Obligations[worker'[v].i] = k
      PROVE  /\ Parents(k)' > 0
             /\ stalls' = 0 /\ worker'[v].source = "unwritten"
                  /\ (own'[k] = "absent" \/ ~Tagged) => repairs'[k] = 0
  <2>1. /\ Parents(k) > 0
        /\ stalls = 0 /\ worker'[v].source = "unwritten"
             /\ (own[k] = "absent" \/ ~Tagged) => repairs[k] = 0
    <3>1. CASE Inspect(v)
      BY <1>4, <3>1, InspectDecides
    <3>2. CASE /\ worker[v].pc \in {"renew", "write"}
               /\ worker'[v].i = worker[v].i /\ worker'[v].source = worker[v].source
      BY <1>4, <3>2 DEF RepairInv, RepairDue
    <3> QED BY <1>4, <3>1, <3>2, RepairingPass
  <2>2. Parents(k)' > 0
    BY <2>1, ParentStays
  <2>3. ASSUME stalls' = 0, worker'[v].source = "unwritten",
               own'[k] = "absent" \/ ~Tagged
        PROVE  repairs'[k] = 0
    <3>1. stalls = 0 /\ (own[k] = "absent" \/ ~Tagged)
      BY <2>3, StallsGrow, LogGrows
    <3>2. repairs[k] = 0
      BY <2>1, <2>3, <3>1
    <3>3. Active(v) /\ worker[v].pc \in {"inspect", "renew", "write"}
      BY <1>4, RepairingPass DEF Active, Inspect
    <3>4. ASSUME NEW w \in Worker, Write(w)
          PROVE  FALSE
      <4>1. Active(w)
        BY <3>4 DEF Write, Active
      <4>2. v = w
        BY <3>1, <3>3, <4>1, AloneAtWork
      <4>3. worker \in [Worker -> WorkerRecord]
        BY TypeIs
      <4>4. worker'[v].pc = "mark"
        BY <3>4, <4>2, <4>3 DEF Write, Goto, WorkerRecord
      <4> QED BY <1>4, <4>4
    <3> QED BY <3>2, <3>4, RepairChanges
  <2> QED BY <2>2, <2>3
<1>5. RepairHasParent'
  BY <1>0, <1>2 DEF RepairHasParent
<1>6. RepairedOnce'
  BY <1>0, <1>3 DEF RepairedOnce
<1>7. \A k \in Kind' : RepairDue(k)'
  BY <1>0, <1>4 DEF RepairDue
<1> QED BY <1>5, <1>6, <1>7 DEF RepairInv

\* Repairing is sound however the handler, the passes and the operators race
\* and whenever the parent arrives: no event is repaired without its cause and,
\* as long as no live pass loses its lease, none is repaired twice
\* (discover_matching_event, required_parent_edge, renew_or_fence).
THEOREM RepairsSound == Spec => []RepairsAreSound
<1>1. RepairInv => RepairsAreSound
  BY DEF RepairInv, RepairsAreSound
<1> QED BY <1>1, TypeInit, TypeStep, LeaseInit, LeaseKept, RepairInit, RepairStep,
        PTL DEF Spec
==============================================================================
