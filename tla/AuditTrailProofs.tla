--------------------------- MODULE AuditTrailProofs ---------------------------
(***************************************************************************)
(* Proofs about AuditTrail for every set of deployments, of handlers that  *)
(* append and of auditors, and for every bound.                            *)
(***************************************************************************)
EXTENDS AuditTrail, TLAPS, FiniteSetTheorems, WellFoundedInduction

------------------------------------------------------------------------------
(* Sets of ids *)

\* A set of numbers that is not empty has a least element.
LEMMA LeastId ==
  ASSUME NEW S \in SUBSET Nat, S # {}
  PROVE  /\ Min(S) \in S
         /\ \A i \in S : Min(S) <= i
<1> DEFINE R == OpToRel(<, Nat)
<1>1. IsWellFoundedOn(R, Nat)
  BY NatLessThanWellFounded
<1>2. R = {p \in Nat \X Nat : p[1] < p[2]}
  BY DEF OpToRel
<1> HIDE DEF R
<1>3. PICK x \in S : \A y \in S : ~(<<y, x>> \in R)
  BY <1>1, WFMin
<1>4. \A y \in S : x <= y
  <2> TAKE y \in S
  <2>1. x \in Nat /\ y \in Nat
    OBVIOUS
  <2>2. ~(y < x)
    BY <1>2, <1>3, <2>1
  <2> QED
    BY <2>1, <2>2
<1>5. \E m \in S : \A y \in S : m =< y
  BY <1>4
<1> QED
  BY <1>5 DEF Min

\* A bounded one has a greatest.
LEMMA GreatestId ==
  ASSUME NEW n \in Nat, NEW S \in SUBSET (0..n), S # {}
  PROVE  /\ Max(S) \in S
         /\ \A i \in S : i <= Max(S)
<1> DEFINE T == {n - i : i \in S}
<1>0. \A i \in S : i \in 0..n
  OBVIOUS
<1>1. T \in SUBSET Nat /\ T # {}
  <2>1. \A i \in S : n - i \in Nat
    BY <1>0
  <2>2. \A t \in T : t \in Nat
    BY <2>1
  <2>3. PICK i \in S : TRUE
    OBVIOUS
  <2>4. n - i \in T
    BY <2>3
  <2> HIDE DEF T
  <2> QED
    BY <2>2, <2>4
<1>2. Min(T) \in T /\ \A t \in T : Min(T) <= t
  BY <1>1, LeastId
<1>3. PICK m \in S : Min(T) = n - m
  BY <1>2
<1>4. \A i \in S : n - m <= n - i
  BY <1>2, <1>3
<1>5. \A i \in S : m >= i
  BY <1>4
<1>6. \E x \in S : \A y \in S : x >= y
  BY <1>5
<1>7. Max(S) \in S /\ \A y \in S : Max(S) >= y
  BY <1>6 DEF Max
<1> QED
  BY <1>7

\* Whatever bounds a set from within is its greatest element.
LEMMA GreatestIs ==
  ASSUME NEW n \in Nat, NEW S \in SUBSET (0..n), NEW m \in S, \A i \in S : i <= m
  PROVE  Max(S) = m
<1>1. Max(S) \in S /\ \A i \in S : i <= Max(S)
  BY GreatestId
<1>2. m \in 0..n /\ Max(S) \in 0..n
  BY <1>1
<1>3. m <= Max(S) /\ Max(S) <= m
  BY <1>1
<1> QED
  BY <1>2, <1>3

------------------------------------------------------------------------------
(* Types *)

Row == [hour : Hour, prev : 0..MaxLog, hashed : BOOLEAN, live : BOOLEAN]
AppendPoint == {"idle", "stamped", "read", "allocated"}
AppendRecord == [pc : AppendPoint, hour : Hour, tip : 0..MaxLog, id : 0..MaxLog]
SinkRecord == [pc : {"idle", "body", "manifest"}, cursor : 0..MaxLog, batch : SUBSET Id]
Part == {"body", "manifest"} \X SUBSET Id

LogType ==
  /\ log \in Seq(Row) /\ Len(log) <= MaxLog
  /\ append \in [Appender -> AppendRecord]
  /\ overlapped \in BOOLEAN

RootType ==
  /\ whole \subseteq Hour
  /\ DOMAIN roots = Hour /\ DOMAIN told = Hour /\ DOMAIN checkpoint = Hour
  /\ DOMAIN audit = Auditor
  /\ \A r \in Auditor : audit[r].pc \in {"idle", "selected"} /\ audit[r].hour \in Hour

\* A batch at hand is never empty.
SinkType ==
  /\ sink \in SinkRecord
  /\ sink.pc # "idle" => sink.batch # {}
  /\ archive \in [Id \X Id -> SUBSET Part]
  /\ restarts \in 0..site.restarts

TypeInv == site \in Sites /\ now \in Hour /\ LogType /\ RootType /\ SinkType

\* The parts make up the type invariant of the model.
LEMMA TypeParts == TypeInv => TypeOK
BY DEF TypeInv, LogType, RootType, SinkType, TypeOK, Row, AppendPoint, AppendRecord,
       SinkRecord, Part

\* The deployment's parameters.
LEMMA SiteFacts ==
  ASSUME site \in Sites
  PROVE  /\ site.hours \in Nat /\ site.restarts \in Nat
         /\ Hour = 0..site.hours /\ 0 \in Hour
         /\ MaxLog \in Nat /\ Batch \in Nat
         /\ IdleAppend \in AppendRecord
         /\ \A c \in 0..MaxLog : IdleSink(c) \in SinkRecord
<1>1. site.hours \in Nat /\ site.restarts \in Nat
  BY AuditAssumption
<1>2. MaxLog \in Nat /\ Batch \in Nat
  BY AuditAssumption
<1>3. Hour = 0..site.hours /\ 0 \in Hour
  BY <1>1 DEF Hour
<1>4. IdleAppend \in AppendRecord
  BY <1>2, <1>3 DEF IdleAppend, AppendRecord, AppendPoint
<1>5. \A c \in 0..MaxLog : IdleSink(c) \in SinkRecord
  BY DEF IdleSink, SinkRecord
<1> QED
  BY <1>1, <1>2, <1>3, <1>4, <1>5

\* The committed rows, and the tip of the chain.
LEMMA TipFacts ==
  ASSUME TypeInv
  PROVE  /\ Len(log) \in Nat /\ Len(log) <= MaxLog
         /\ Committed \subseteq 1..Len(log)
         /\ Hashed(Committed) \subseteq Committed
         /\ Tip \in Hashed(Committed) \cup {0}
         /\ Tip \in 0..Len(log)
         /\ \A i \in Hashed(Committed) : i <= Tip
<1>1. Len(log) \in Nat /\ Len(log) <= MaxLog
  BY DEF TypeInv, LogType
<1>2. Committed \subseteq 1..Len(log) /\ Hashed(Committed) \subseteq Committed
  BY DEF Committed, Hashed
<1> DEFINE S == Hashed(Committed) \cup {0}
<1>3. S \in SUBSET (0..Len(log)) /\ S # {}
  <2>1. 1..Len(log) \subseteq 0..Len(log) /\ 0 \in 0..Len(log)
    BY <1>1
  <2> HIDE DEF S
  <2>2. \A i \in S : i \in 1..Len(log) \/ i = 0
    BY <1>2 DEF S
  <2> QED
    BY <2>1, <2>2 DEF S
<1>4. Max(S) \in S /\ \A i \in S : i <= Max(S)
  BY <1>1, <1>3, GreatestId
<1>5. Tip = Max(S)
  BY DEF Tip
<1> HIDE DEF S
<1>6. Tip \in S /\ Tip \in 0..Len(log)
  BY <1>3, <1>4, <1>5
<1> QED
  BY <1>1, <1>2, <1>4, <1>5, <1>6 DEF S

\* The next batch.
LEMMA BatchFacts ==
  ASSUME TypeInv
  PROVE  /\ NextBatch \subseteq Committed /\ NextBatch \subseteq Id
         /\ \A j \in NextBatch : j > sink.cursor
         /\ \A j \in NextBatch : \A k \in Committed :
              sink.cursor < k /\ k <= j => k \in NextBatch
<1> DEFINE new == After(sink.cursor, Committed)
<1>1. /\ Len(log) \in Nat /\ Len(log) <= MaxLog /\ MaxLog \in Nat
      /\ Committed \subseteq 1..Len(log) /\ sink.cursor \in Nat
  BY TipFacts, SiteFacts DEF TypeInv, SinkType, SinkRecord
<1>2. NextBatch = {i \in new : Cardinality(Before(i, new)) < Batch}
  BY DEF NextBatch
<1>3. new \subseteq Committed /\ new \subseteq 1..Len(log) /\ \A j \in new : j > sink.cursor
  BY <1>1 DEF After
<1>4. 1..Len(log) \subseteq Id
  BY <1>1 DEF Id
<1>5. \A k \in Committed : sink.cursor < k => k \in new
  BY <1>1 DEF After
<1> HIDE DEF new
<1>6. ASSUME NEW j \in NextBatch, NEW k \in Committed, sink.cursor < k, k <= j
      PROVE  k \in NextBatch
  <2>1. j \in new /\ k \in new /\ j \in Nat /\ k \in Nat
    BY <1>1, <1>2, <1>3, <1>5, <1>6
  <2>2. IsFiniteSet(1..Len(log))
    BY <1>1, FS_Interval
  <2>3. Before(j, new) \subseteq 1..Len(log)
    BY <1>3 DEF Before
  <2>4. IsFiniteSet(Before(j, new))
    BY <2>2, <2>3, FS_Subset
  <2>5. Before(k, new) \subseteq Before(j, new)
    <3> SUFFICES ASSUME NEW i \in new, i < k PROVE i < j
      BY DEF Before
    <3>1. i \in Nat
      BY <1>3
    <3> QED
      BY <1>6, <2>1, <3>1
  <2>6. IsFiniteSet(Before(k, new))
    BY <2>4, <2>5, FS_Subset
  <2>7. Cardinality(Before(k, new)) <= Cardinality(Before(j, new))
    BY <2>4, <2>5, FS_Subset
  <2>8. Cardinality(Before(k, new)) \in Nat /\ Cardinality(Before(j, new)) \in Nat
    BY <2>4, <2>6, FS_CardinalityType
  <2>9. Cardinality(Before(j, new)) < Batch
    BY <1>2
  <2>10. Cardinality(Before(k, new)) < Batch
    BY <2>7, <2>8, <2>9, AuditAssumption
  <2> QED
    BY <1>2, <2>1, <2>10
<1> QED
  BY <1>2, <1>3, <1>4, <1>6

\* The initial states are typed.
LEMMA TypeInit == Init => TypeInv
<1> SUFFICES ASSUME Init PROVE TypeInv
  OBVIOUS
<1>1. site \in Sites
  BY DEF Init
<1>2. /\ site.hours \in Nat /\ site.restarts \in Nat
      /\ Hour = 0..site.hours /\ 0 \in Hour
      /\ MaxLog \in Nat
      /\ IdleAppend \in AppendRecord
      /\ IdleSink(0) \in SinkRecord
  BY <1>1, SiteFacts
<1>3. LogType
  <2>1. Legacy \in Row
    BY <1>2 DEF Legacy, Row
  <2>2. PICK n \in 0..MaxLegacy : log = [i \in 1..n |-> Legacy]
    BY DEF Init
  <2>3. n \in Nat /\ n <= MaxLog
    BY AuditAssumption
  <2>4. log \in Seq(Row) /\ Len(log) = n
    BY <2>1, <2>2, <2>3
  <2> QED
    BY <1>2, <2>3, <2>4 DEF Init, LogType
<1>4. RootType
  BY <1>2 DEF Init, RootType, IdleAudit
<1>5. SinkType
  BY <1>2 DEF Init, SinkType, IdleSink
<1> QED
  BY <1>1, <1>2, <1>3, <1>4, <1>5 DEF Init, TypeInv

\* What depends on the deployment alone does not change.
LEMMA SameSite ==
  ASSUME [Next]_vars
  PROVE  /\ site' = site /\ Hour' = Hour /\ Appender' = Appender /\ Auditor' = Auditor
         /\ Row' = Row /\ AppendRecord' = AppendRecord
<1>1. site' = site
  BY DEF Next, vars, Tick, Stamp, ReadTip, Insert, Commit, AppendFails, AuditCached,
         AuditSelect, AuditStore, SinkList, SinkBody, SinkManifest, SinkFails, Restart
<1> QED
  BY <1>1 DEF Hour, Appender, Auditor, Row, AppendRecord

\* The steps by what they write: the log, the roots or the archive.
LEMMA Writers ==
  ASSUME [Next]_vars
  PROVE  /\ \/ UNCHANGED logVars
            \/ \E a \in Appender : Stamp(a) \/ ReadTip(a) \/ Insert(a) \/ Commit(a)
                                     \/ AppendFails(a)
            \/ Restart
         /\ \/ UNCHANGED rootVars
            \/ \E r \in Auditor : AuditCached(r) \/ AuditSelect(r) \/ AuditStore(r)
            \/ Restart
         /\ \/ UNCHANGED sinkVars
            \/ SinkList \/ SinkBody \/ SinkManifest \/ SinkFails \/ Restart
         /\ UNCHANGED now \/ Tick
<1>1. CASE UNCHANGED vars
  BY <1>1 DEF vars, logVars, rootVars, sinkVars
<1>2. CASE Tick
  BY <1>2 DEF Tick, logVars, rootVars, sinkVars
<1>3. CASE \E a \in Appender : Stamp(a) \/ ReadTip(a) \/ Insert(a) \/ Commit(a)
                                 \/ AppendFails(a)
  BY <1>3 DEF Stamp, ReadTip, Insert, Commit, AppendFails, rootVars, sinkVars
<1>4. CASE \E r \in Auditor : AuditCached(r) \/ AuditSelect(r) \/ AuditStore(r)
  BY <1>4 DEF AuditCached, AuditSelect, AuditStore, logVars, sinkVars
<1>5. CASE SinkList \/ SinkBody \/ SinkManifest \/ SinkFails
  BY <1>5 DEF SinkList, SinkBody, SinkManifest, SinkFails, logVars, rootVars
<1>6. CASE Restart
  BY <1>6 DEF Restart
<1> QED
  BY <1>1, <1>2, <1>3, <1>4, <1>5, <1>6 DEF Next

\* A commit makes the allocated row visible and changes nothing else.
LEMMA CommitRow ==
  ASSUME log \in Seq(Row), NEW a \in Appender, Commit(a)
  PROVE  /\ log' \in Seq(Row) /\ Len(log') = Len(log)
         /\ \A i \in 1..Len(log) :
              /\ log'[i].hour = log[i].hour /\ log'[i].prev = log[i].prev
              /\ log'[i].hashed = log[i].hashed
              /\ log'[i].live = (i = append[a].id \/ log[i].live)
<1> DEFINE n == Len(log)
<1>1. n \in Nat /\ log \in [1..n -> Row]
  OBVIOUS
<1>2. log' = [i \in 1..n |-> IF i = append[a].id THEN [log[i] EXCEPT !.live = TRUE]
                                                ELSE log[i]]
  BY <1>1 DEF Commit
<1> HIDE DEF n
<1>3. ASSUME NEW i \in 1..n
      PROVE  /\ log'[i] \in Row
             /\ log'[i].hour = log[i].hour /\ log'[i].prev = log[i].prev
             /\ log'[i].hashed = log[i].hashed
             /\ log'[i].live = (i = append[a].id \/ log[i].live)
  <2>1. log[i] \in Row
    BY <1>1
  <2>2. [log[i] EXCEPT !.live = TRUE] \in Row
    BY <2>1 DEF Row
  <2>3. CASE i = append[a].id
    <3>1. log'[i] = [log[i] EXCEPT !.live = TRUE]
      BY <1>2, <2>3
    <3> QED
      BY <2>1, <2>2, <2>3, <3>1 DEF Row
  <2>4. CASE i # append[a].id
    <3>1. log'[i] = log[i]
      BY <1>2, <2>4
    <3> QED
      BY <2>1, <2>4, <3>1 DEF Row
  <2> QED
    BY <2>3, <2>4
<1>4. log' \in [1..n -> Row]
  BY <1>2, <1>3
<1>5. log' \in Seq(Row) /\ Len(log') = n
  BY <1>1, <1>4
<1> QED
  BY <1>3, <1>5 DEF n

\* An insertion adds a hashed row, which is visible at once under SQLite.
LEMMA InsertRow ==
  ASSUME TypeInv, NEW a \in Appender, Insert(a)
  PROVE  /\ log' \in Seq(Row) /\ Len(log') = Len(log) + 1
         /\ \A i \in 1..Len(log) : log'[i] = log[i]
         /\ log'[Len(log) + 1].hour = append[a].hour
         /\ log'[Len(log) + 1].prev = append[a].tip
         /\ log'[Len(log) + 1].hashed
         /\ log'[Len(log) + 1].live = (site.backend = "sqlite")
<1> DEFINE row == [hour |-> append[a].hour, prev |-> append[a].tip, hashed |-> TRUE,
                   live |-> site.backend = "sqlite"]
<1>1. append[a] \in AppendRecord /\ log \in Seq(Row)
  BY DEF TypeInv, LogType
<1>2. row \in Row
  BY <1>1 DEF AppendRecord, Row
<1>3. /\ row.hour = append[a].hour /\ row.prev = append[a].tip /\ row.hashed
      /\ row.live = (site.backend = "sqlite")
  OBVIOUS
<1>4. log' = Append(log, row)
  BY DEF Insert
<1> HIDE DEF row
<1>5. log' \in Seq(Row) /\ Len(log') = Len(log) + 1 /\ log'[Len(log) + 1] = row
  BY <1>1, <1>2, <1>4
<1>6. \A i \in 1..Len(log) : log'[i] = log[i]
  BY <1>1, <1>2, <1>4
<1> QED
  BY <1>3, <1>5, <1>6

\* Steps preserve the types of the log.
LEMMA LogTypeStep ==
  ASSUME TypeInv, [Next]_vars
  PROVE  LogType'
<1>1. /\ site' = site /\ Appender' = Appender /\ Row' = Row
      /\ AppendRecord' = AppendRecord
  BY SameSite
<1>2. /\ MaxLog \in Nat /\ IdleAppend \in AppendRecord /\ now \in Hour
      /\ log \in Seq(Row) /\ Len(log) \in Nat /\ Len(log) <= MaxLog
      /\ append \in [Appender -> AppendRecord] /\ overlapped \in BOOLEAN
  BY SiteFacts DEF TypeInv, LogType
<1>3. CASE UNCHANGED logVars
  BY <1>1, <1>2, <1>3 DEF logVars, LogType
<1>4. ASSUME NEW a \in Appender, Stamp(a)
      PROVE  LogType'
  <2>1. [IdleAppend EXCEPT !.pc = "stamped", !.hour = now] \in AppendRecord
    BY <1>2 DEF AppendRecord, AppendPoint
  <2>2. append' \in [Appender -> AppendRecord]
    BY <1>2, <1>4, <2>1 DEF Stamp
  <2> QED
    BY <1>1, <1>2, <1>4, <2>2 DEF Stamp, LogType
<1>5. ASSUME NEW a \in Appender, ReadTip(a)
      PROVE  LogType'
  <2>1. Tip \in 0..MaxLog
    BY <1>2, TipFacts
  <2>2. [append[a] EXCEPT !.pc = "read", !.tip = Tip] \in AppendRecord
    BY <1>2, <2>1 DEF AppendRecord, AppendPoint
  <2>3. append' = [append EXCEPT ![a] = [append[a] EXCEPT !.pc = "read", !.tip = Tip]]
    BY <1>5, <1>2 DEF ReadTip
  <2>4. append' \in [Appender -> AppendRecord]
    BY <1>2, <2>2, <2>3
  <2>5. overlapped' \in BOOLEAN
    BY <1>5 DEF ReadTip
  <2> QED
    BY <1>1, <1>2, <1>5, <2>4, <2>5 DEF ReadTip, LogType
<1>6. ASSUME NEW a \in Appender, Insert(a)
      PROVE  LogType'
  <2>1. append[a] \in AppendRecord
    BY <1>2
  <2>2. [hour |-> append[a].hour, prev |-> append[a].tip, hashed |-> TRUE,
         live |-> site.backend = "sqlite"] \in Row
    BY <2>1 DEF AppendRecord, Row
  <2>3. log' \in Seq(Row) /\ Len(log') = Len(log) + 1
    BY <1>2, <1>6, <2>2 DEF Insert
  <2>4. [append[a] EXCEPT !.pc = "allocated", !.id = Len(log) + 1] \in AppendRecord
    <3>1. Len(log) + 1 \in 0..MaxLog
      BY <1>2, <1>6 DEF Insert
    <3> QED
      BY <2>1, <3>1 DEF AppendRecord, AppendPoint
  <2>5. append' \in [Appender -> AppendRecord]
    BY <1>2, <1>6, <2>4 DEF Insert
  <2> QED
    BY <1>1, <1>2, <1>6, <2>3, <2>5 DEF Insert, LogType
<1>7. ASSUME NEW a \in Appender, Commit(a)
      PROVE  LogType'
  <2>3. log' \in Seq(Row) /\ Len(log') = Len(log)
    BY <1>2, <1>7, CommitRow
  <2>4. append' \in [Appender -> AppendRecord]
    BY <1>2, <1>7 DEF Commit
  <2> QED
    BY <1>1, <1>2, <1>7, <2>3, <2>4 DEF Commit, LogType
<1>8. ASSUME NEW a \in Appender, AppendFails(a)
      PROVE  LogType'
  BY <1>1, <1>2, <1>8 DEF AppendFails, LogType
<1>9. CASE Restart
  BY <1>1, <1>2, <1>9 DEF Restart, LogType
<1> QED
  BY Writers, <1>3, <1>4, <1>5, <1>6, <1>7, <1>8, <1>9

\* Steps preserve the types of the roots.
LEMMA RootTypeStep ==
  ASSUME TypeInv, [Next]_vars
  PROVE  RootType'
<1>1. site' = site /\ Auditor' = Auditor /\ Hour' = Hour
  BY SameSite
<1>2. now \in Hour /\ 0 \in Hour /\ Hour = 0..site.hours /\ site.hours \in Nat
  BY SiteFacts DEF TypeInv
<1>3. 0..now \subseteq Hour
  BY <1>2
<1>4. CASE UNCHANGED rootVars
  BY <1>1, <1>4 DEF rootVars, RootType, TypeInv
<1>5. ASSUME NEW r \in Auditor, AuditCached(r)
      PROVE  RootType'
  BY <1>1, <1>2, <1>5 DEF AuditCached, Answer, RootType, TypeInv, IdleAudit
<1>6. ASSUME NEW r \in Auditor, AuditSelect(r)
      PROVE  RootType'
  BY <1>1, <1>3, <1>6 DEF AuditSelect, RootType, TypeInv
<1>7. ASSUME NEW r \in Auditor, AuditStore(r)
      PROVE  RootType'
  BY <1>1, <1>2, <1>7 DEF AuditStore, Answer, RootType, TypeInv, IdleAudit
<1>8. CASE Restart
  BY <1>1, <1>2, <1>8 DEF Restart, RootType, TypeInv, IdleAudit
<1> QED
  BY Writers, <1>4, <1>5, <1>6, <1>7, <1>8

\* A key of a batch at hand.
LEMMA KeyFacts ==
  ASSUME TypeInv, sink.pc # "idle"
  PROVE  /\ sink.batch \in SUBSET Id /\ sink.batch # {}
         /\ BundleKey \in Id \X Id
         /\ BundleKey[2] = Max(sink.batch)
         /\ Max(sink.batch) \in sink.batch
         /\ \A i \in sink.batch : i <= Max(sink.batch)
<1>1. sink.batch \in SUBSET Id /\ sink.batch # {} /\ MaxLog \in Nat
  BY SiteFacts DEF TypeInv, SinkType, SinkRecord
<1>2. Id \subseteq Nat /\ Id \subseteq 0..MaxLog
  BY <1>1 DEF Id
<1>3. sink.batch \in SUBSET Nat /\ sink.batch \in SUBSET (0..MaxLog)
  BY <1>1, <1>2
<1>4. Min(sink.batch) \in sink.batch
  BY <1>1, <1>3, LeastId
<1>5. Max(sink.batch) \in sink.batch /\ \A i \in sink.batch : i <= Max(sink.batch)
  BY <1>1, <1>3, GreatestId
<1> QED
  BY <1>1, <1>4, <1>5 DEF BundleKey

\* Steps preserve the types of the sink and of the archive.
LEMMA SinkTypeStep ==
  ASSUME TypeInv, [Next]_vars
  PROVE  SinkType'
<1>1. site' = site
  BY SameSite
<1>2. /\ MaxLog \in Nat /\ 0 \in 0..MaxLog /\ site.restarts \in Nat
      /\ sink \in SinkRecord /\ archive \in [Id \X Id -> SUBSET Part]
      /\ restarts \in 0..site.restarts
      /\ sink.pc # "idle" => sink.batch # {}
      /\ \A c \in 0..MaxLog : IdleSink(c) \in SinkRecord /\ IdleSink(c).pc = "idle"
  BY SiteFacts DEF TypeInv, SinkType, IdleSink
<1>3. CASE UNCHANGED sinkVars
  BY <1>1, <1>3 DEF sinkVars, SinkType, TypeInv
<1>4. ASSUME SinkList
      PROVE  SinkType'
  <2>1. NextBatch \subseteq Id
    BY BatchFacts
  <2>2. sink' \in SinkRecord /\ sink'.batch = NextBatch
    BY <1>2, <1>4, <2>1 DEF SinkList, SinkRecord
  <2> QED
    BY <1>1, <1>2, <1>4, <2>2 DEF SinkList, SinkType
<1>5. ASSUME NEW part \in {"body", "manifest"}, sink.pc # "idle", Upload(part)
      PROVE  archive' \in [Id \X Id -> SUBSET Part]
  <2>1. <<part, sink.batch>> \in Part
    BY <1>2 DEF SinkRecord, Part
  <2> QED
    BY <1>2, <1>5, <2>1 DEF Upload
<1>6. ASSUME SinkBody
      PROVE  SinkType'
  <2>1. sink' \in SinkRecord /\ sink'.batch = sink.batch
    BY <1>2, <1>6 DEF SinkBody, SinkRecord
  <2>2. sink.pc # "idle" /\ Upload("body")
    BY <1>6 DEF SinkBody
  <2>3. archive' \in [Id \X Id -> SUBSET Part]
    BY <1>5, <2>2
  <2> QED
    BY <1>1, <1>2, <1>6, <2>1, <2>2, <2>3 DEF SinkBody, SinkType
<1>7. ASSUME SinkManifest
      PROVE  SinkType'
  <2>1. sink.pc # "idle" /\ Upload("manifest")
    BY <1>7 DEF SinkManifest
  <2>2. BundleKey[2] \in Id
    BY <2>1, KeyFacts
  <2>3. sink' = IdleSink(BundleKey[2]) /\ BundleKey[2] \in 0..MaxLog
    BY <1>2, <1>7, <2>2 DEF SinkManifest, Id
  <2>4. archive' \in [Id \X Id -> SUBSET Part]
    BY <1>5, <2>1
  <2> QED
    BY <1>1, <1>2, <1>7, <2>3, <2>4 DEF SinkManifest, SinkType
<1>8. ASSUME SinkFails
      PROVE  SinkType'
  <2>1. sink' = IdleSink(sink.cursor) /\ sink.cursor \in 0..MaxLog
    BY <1>2, <1>8 DEF SinkFails, SinkRecord
  <2> QED
    BY <1>1, <1>2, <1>8, <2>1 DEF SinkFails, SinkType
<1>9. ASSUME Restart
      PROVE  SinkType'
  BY <1>1, <1>2, <1>9 DEF Restart, SinkType
<1> QED
  BY Writers, <1>3, <1>4, <1>6, <1>7, <1>8, <1>9

\* The types are an invariant of the steps.
LEMMA TypeStep ==
  ASSUME TypeInv, [Next]_vars
  PROVE  TypeInv'
<1>1. site' = site /\ Hour' = Hour
  BY SameSite
<1>2. now' \in Hour
  <2>1. now \in Hour /\ Hour = 0..site.hours /\ site.hours \in Nat
    BY SiteFacts DEF TypeInv
  <2>2. now' = now \/ (now < site.hours /\ now' = now + 1)
    BY Writers DEF Tick
  <2> QED
    BY <2>1, <2>2
<1> QED
  BY <1>1, <1>2, LogTypeStep, RootTypeStep, SinkTypeStep DEF TypeInv

\* The audit log, the appends, the roots, the sink and its bundles keep their
\* types for every deployment and every bound.
THEOREM TypeSafety == Spec => []TypeOK
<1>1. Spec => []TypeInv
  BY TypeInit, TypeStep, PTL DEF Spec
<1> QED
  BY <1>1, TypeParts, PTL

------------------------------------------------------------------------------
(* The chain *)

Busy(a) == append[a].pc \in {"read", "allocated"}

\* The row that an appender has allocated is the one it will commit.
AllocInv ==
  \A a \in Appender : append[a].pc = "allocated" =>
    /\ append[a].id \in 1..Len(log)
    /\ log[append[a].id].hashed
    /\ log[append[a].id].hour = append[a].hour

\* Appends one at a time: nobody moves the tip that an appender has read, and
\* its row is the last of the log.
SerialInv ==
  ~overlapped =>
    /\ \A a, b \in Appender : Busy(a) /\ Busy(b) => a = b
    /\ \A a \in Appender :
         /\ append[a].pc = "read" => append[a].tip = Tip
         /\ append[a].pc = "allocated" =>
              /\ append[a].id = Len(log)
              /\ ~log[Len(log)].live
              /\ log[Len(log)].prev = Tip
    /\ VerifyChain

ChainInv == AllocInv /\ SerialInv

\* A step that commits no row leaves what is read from the log as it was.
LEMMA SameView ==
  ASSUME TypeInv, Len(log') \in Nat, Len(log) <= Len(log'),
         \A i \in 1..Len(log) : log'[i] = log[i],
         \A i \in 1..Len(log') : i > Len(log) => ~log'[i].live
  PROVE  /\ Committed' = Committed /\ Hashed(Committed)' = Hashed(Committed)
         /\ Tip' = Tip /\ (VerifyChain => VerifyChain')
<1> DEFINE H == Hashed(Committed)
<1>1. Len(log) \in Nat /\ H \subseteq Committed /\ Committed \subseteq 1..Len(log)
  BY TipFacts
<1>2. Committed' = Committed
  BY <1>1 DEF Committed
<1>3. H' = {i \in Committed : log'[i].hashed}
  BY <1>2 DEF Hashed
<1>4. H' = H
  BY <1>1, <1>3 DEF Hashed
<1>5. Tip' = Tip
  BY <1>4 DEF Tip
<1>6. ASSUME VerifyChain PROVE VerifyChain'
  <2>1. \A i \in H : log[i].prev = IF Before(i, H) = {} THEN 0 ELSE Max(Before(i, H))
    BY <1>6 DEF VerifyChain, Linked
  <2>2. \A i \in H : log'[i].prev = log[i].prev
    BY <1>1
  <2>3. VerifyChain' =
          \A i \in H' : log'[i].prev = IF Before(i, H') = {} THEN 0 ELSE Max(Before(i, H'))
    BY DEF VerifyChain, Linked, Before
  <2> QED
    BY <1>4, <2>1, <2>2, <2>3
<1> QED
  BY <1>2, <1>4, <1>5, <1>6

\* A step that makes the hashed row n visible adds it to what is read.
LEMMA GrownView ==
  ASSUME TypeInv, NEW n \in Nat, Len(log') \in Nat, Len(log) <= Len(log'),
         n \in 1..Len(log'),
         \A i \in 1..Len(log) : log'[i].hashed = log[i].hashed,
         \A i \in 1..Len(log) : i # n => (log'[i].live <=> log[i].live),
         \A i \in 1..Len(log') : i > Len(log) => i = n,
         log'[n].live, log'[n].hashed
  PROVE  /\ Committed' = Committed \cup {n}
         /\ Hashed(Committed)' = Hashed(Committed) \cup {n}
<1>1. Len(log) \in Nat
  BY TipFacts
<1>2. Committed' = Committed \cup {n}
  BY <1>1 DEF Committed
<1>3. Committed \subseteq 1..Len(log)
  BY DEF Committed
<1>4. Hashed(Committed)' = {i \in Committed \cup {n} : log'[i].hashed}
  BY <1>2 DEF Hashed
<1>5. Hashed(Committed)' = Hashed(Committed) \cup {n}
  BY <1>3, <1>4 DEF Hashed
<1> QED
  BY <1>2, <1>5

\* The chain grows at its end by a row that links to the tip.
LEMMA ChainGrows ==
  ASSUME TypeInv, VerifyChain, NEW n \in Nat \ {0}, \A i \in Committed : i < n,
         Hashed(Committed)' = Hashed(Committed) \cup {n},
         \A i \in Hashed(Committed) : log'[i].prev = log[i].prev,
         log'[n].prev = Tip
  PROVE  VerifyChain'
<1> DEFINE H == Hashed(Committed)
           G == H \cup {n}
<1>1. /\ Len(log) \in Nat /\ H \subseteq Committed /\ Committed \subseteq 1..Len(log)
      /\ H \subseteq 1..Len(log)
  BY TipFacts
<1>2. \A i \in H : log[i].prev = IF Before(i, H) = {} THEN 0 ELSE Max(Before(i, H))
  BY DEF VerifyChain, Linked
<1>3. ASSUME \A i \in G : log'[i].prev = IF Before(i, G) = {} THEN 0 ELSE Max(Before(i, G))
      PROVE  VerifyChain'
  <2>1. H' = G
    OBVIOUS
  <2>2. VerifyChain' =
          \A i \in H' : log'[i].prev = IF Before(i, H') = {} THEN 0 ELSE Max(Before(i, H'))
    BY DEF VerifyChain, Linked, Before
  <2> QED
    BY <1>3, <2>1, <2>2
<1>4. \A i \in H : i \in Nat /\ i < n /\ i # n /\ i > 0
  BY <1>1
<1>5. Tip = Max(H \cup {0})
  BY DEF Tip
<1> HIDE DEF H
<1>6. ASSUME NEW i \in H
      PROVE  log'[i].prev = IF Before(i, G) = {} THEN 0 ELSE Max(Before(i, G))
  <2>1. Before(i, G) = Before(i, H)
    BY <1>4 DEF Before
  <2> QED
    BY <1>2, <2>1 DEF H
<1>7. log'[n].prev = IF Before(n, G) = {} THEN 0 ELSE Max(Before(n, G))
  <2>1. Before(n, G) = H
    BY <1>4 DEF Before
  <2>2. CASE H = {}
    <3>1. H \cup {0} = {0} /\ {0} \in SUBSET (0..0)
      BY <2>2
    <3>2. Max({0}) = 0
      BY <3>1, GreatestIs
    <3> QED
      BY <1>5, <2>1, <2>2, <3>1, <3>2
  <2>3. CASE H # {}
    <3>1. H \in SUBSET (0..n) /\ H \cup {0} \in SUBSET (0..n)
      BY <1>4
    <3>2. Max(H) \in H /\ \A i \in H : i <= Max(H)
      BY <2>3, <3>1, GreatestId
    <3>3. Max(H) \in H \cup {0} /\ \A i \in H \cup {0} : i <= Max(H)
      BY <1>4, <3>2
    <3>4. Max(H \cup {0}) = Max(H)
      BY <3>1, <3>3, GreatestIs
    <3> QED
      BY <1>5, <2>1, <2>3, <3>4
  <2> QED
    BY <2>2, <2>3
<1> QED
  BY <1>3, <1>6, <1>7

\* The chain of an installation that has no hashed row yet.
LEMMA ChainInit == Init => ChainInv
<1> SUFFICES ASSUME Init PROVE ChainInv
  OBVIOUS
<1>1. \A a \in Appender : append[a].pc = "idle"
  BY DEF Init, IdleAppend
<1>2. Hashed(Committed) = {}
  <2>1. PICK n \in 0..MaxLegacy : log = [i \in 1..n |-> Legacy]
    BY DEF Init
  <2>2. n \in Nat
    BY AuditAssumption
  <2>3. Len(log) = n /\ \A i \in 1..n : ~log[i].hashed
    BY <2>1, <2>2 DEF Legacy
  <2> QED
    BY <2>3 DEF Hashed, Committed
<1>3. VerifyChain
  BY <1>2 DEF VerifyChain, Linked
<1> QED
  BY <1>1, <1>3 DEF ChainInv, AllocInv, SerialInv, Busy

\* Without overlapping appends the row that a commit makes visible is the last.
LEMMA CommitsLast ==
  ASSUME TypeInv, ChainInv, ~overlapped, NEW a \in Appender, Commit(a)
  PROVE  /\ append[a].id = Len(log) /\ Len(log) \in Nat \ {0}
         /\ \A i \in Committed : i < Len(log)
<1>1. append[a].pc = "allocated"
  BY DEF Commit
<1>2. append[a].id = Len(log) /\ ~log[Len(log)].live /\ append[a].id \in 1..Len(log)
  BY <1>1 DEF ChainInv, SerialInv, AllocInv
<1>3. Len(log) \in Nat
  BY TipFacts
<1> QED
  BY <1>2, <1>3 DEF Committed

\* What a commit does to the committed rows.
LEMMA CommitView ==
  ASSUME TypeInv, ChainInv, NEW a \in Appender, Commit(a)
  PROVE  /\ append[a].id \in 1..Len(log)
         /\ Committed' = Committed \cup {append[a].id}
         /\ Hashed(Committed)' = Hashed(Committed) \cup {append[a].id}
<1>1. /\ append[a].id \in 1..Len(log) /\ log[append[a].id].hashed
      /\ Len(log) \in Nat /\ append[a].id \in Nat
  BY TipFacts DEF Commit, ChainInv, AllocInv
<1>2. /\ Len(log') = Len(log)
      /\ \A i \in 1..Len(log) :
           /\ log'[i].hour = log[i].hour /\ log'[i].prev = log[i].prev
           /\ log'[i].hashed = log[i].hashed
           /\ log'[i].live = (i = append[a].id \/ log[i].live)
  BY CommitRow DEF TypeInv, LogType
<1>3. \A i \in 1..Len(log) : i # append[a].id => (log'[i].live <=> log[i].live)
  <2> TAKE i \in 1..Len(log)
  <2>1. log'[i].live = (i = append[a].id \/ log[i].live)
    BY <1>2
  <2>2. log[i].live \in BOOLEAN
    <3>1. log[i] \in Row
      BY DEF TypeInv, LogType
    <3> QED
      BY <3>1 DEF Row
  <2> QED
    BY <2>1, <2>2
<1>4. log'[append[a].id].live /\ log'[append[a].id].hashed
  BY <1>1, <1>2
<1> QED
  BY <1>1, <1>2, <1>3, <1>4, GrownView

\* What an insertion does to the committed rows.
LEMMA InsertView ==
  ASSUME TypeInv, NEW a \in Appender, Insert(a)
  PROVE  /\ site.backend # "sqlite" =>
              /\ Committed' = Committed /\ Hashed(Committed)' = Hashed(Committed)
              /\ Tip' = Tip /\ (VerifyChain => VerifyChain')
         /\ site.backend = "sqlite" =>
              /\ Committed' = Committed \cup {Len(log) + 1}
              /\ Hashed(Committed)' = Hashed(Committed) \cup {Len(log) + 1}
<1> DEFINE n == Len(log) + 1
<1>1. /\ Len(log) \in Nat /\ Len(log') = n
      /\ \A i \in 1..Len(log) : log'[i] = log[i]
      /\ log'[n].hashed /\ log'[n].live = (site.backend = "sqlite")
  BY TipFacts, InsertRow
<1>2. \A i \in 1..Len(log') : i > Len(log) => i = n
  BY <1>1
<1>3. n \in Nat /\ n \in 1..Len(log') /\ Len(log') \in Nat /\ Len(log) <= Len(log')
  BY <1>1
<1> HIDE DEF n
<1>4. CASE site.backend # "sqlite"
  BY <1>1, <1>2, <1>3, <1>4, SameView
<1>5. CASE site.backend = "sqlite"
  <2>1. log'[n].live
    BY <1>1, <1>5
  <2> QED
    BY <1>1, <1>2, <1>3, <1>5, <2>1, GrownView DEF n
<1> QED
  BY <1>4, <1>5

\* Steps preserve the chain: as long as appends do not overlap, the tip that an
\* appender has read is still the tip when its row becomes visible.
LEMMA ChainStep ==
  ASSUME TypeInv, ChainInv, [Next]_vars
  PROVE  ChainInv'
<1>1. site' = site /\ Appender' = Appender
  BY SameSite
<1>2. /\ log \in Seq(Row) /\ Len(log) \in Nat
      /\ append \in [Appender -> AppendRecord] /\ overlapped \in BOOLEAN
      /\ Committed \subseteq 1..Len(log)
  BY TipFacts DEF TypeInv, LogType
<1>3. IdleAppend.pc = "idle"
  BY DEF IdleAppend
<1>4. ASSUME log' = log
      PROVE  Tip' = Tip /\ (VerifyChain => VerifyChain')
  BY <1>4 DEF Tip, Hashed, Committed, VerifyChain, Linked
<1>5. ASSUME log' = log, overlapped' = overlapped,
             \A b \in Appender : append'[b] = append[b] \/ append'[b].pc \in {"idle", "stamped"}
      PROVE  ChainInv'
  <2>1. AllocInv'
    BY <1>1, <1>5 DEF ChainInv, AllocInv
  <2>2. \A b \in Appender : Busy(b)' => Busy(b)
    BY <1>5 DEF Busy
  <2>3. SerialInv'
    BY <1>1, <1>4, <1>5, <2>2 DEF ChainInv, SerialInv, Busy
  <2> QED
    BY <2>1, <2>3 DEF ChainInv
<1>6. CASE UNCHANGED logVars
  BY <1>5, <1>6 DEF logVars
<1>7. ASSUME NEW a \in Appender, Stamp(a) \/ AppendFails(a)
      PROVE  ChainInv'
  <2>1. append'[a].pc \in {"idle", "stamped"}
    BY <1>2, <1>3, <1>7 DEF Stamp, AppendFails, IdleAppend
  <2>2. \A b \in Appender : b # a => append'[b] = append[b]
    BY <1>2, <1>7 DEF Stamp, AppendFails
  <2>3. log' = log /\ overlapped' = overlapped
    BY <1>7 DEF Stamp, AppendFails
  <2>4. \A b \in Appender : append'[b] = append[b] \/ append'[b].pc \in {"idle", "stamped"}
    BY <2>1, <2>2
  <2> QED
    BY <1>5, <2>3, <2>4
<1>8. CASE Restart
  BY <1>1, <1>3, <1>5, <1>8 DEF Restart
<1>9. ASSUME NEW a \in Appender, ReadTip(a)
      PROVE  ChainInv'
  <2>1. append'[a].pc = "read" /\ append'[a].tip = Tip
    BY <1>2, <1>9 DEF ReadTip, AppendRecord
  <2>2. \A b \in Appender : b # a => append'[b] = append[b]
    BY <1>2, <1>9 DEF ReadTip
  <2>3. AllocInv'
    <3>1. log' = log
      BY <1>9 DEF ReadTip
    <3>2. \A b \in Appender : append'[b].pc = "allocated" => append'[b] = append[b]
      BY <2>1, <2>2
    <3> QED
      BY <1>1, <3>1, <3>2 DEF ChainInv, AllocInv
  <2>4. ASSUME ~overlapped'
        PROVE  ~overlapped /\ \A b \in Appender : ~Busy(b)
    BY <1>9, <2>4 DEF ReadTip, Busy
  <2>5. \A b \in Appender : Busy(b)' => b = a \/ Busy(b)
    BY <2>2 DEF Busy
  <2>6. Tip' = Tip /\ (VerifyChain => VerifyChain')
    BY <1>4, <1>9 DEF ReadTip
  <2>7. SerialInv'
    <3> SUFFICES ASSUME ~overlapped' PROVE SerialInv'
      BY DEF SerialInv
    <3>1. VerifyChain'
      BY <2>4, <2>6 DEF ChainInv, SerialInv
    <3>2. \A b \in Appender : b # a => append'[b].pc \notin {"read", "allocated"}
      BY <2>2, <2>4 DEF Busy
    <3> QED
      BY <1>1, <2>1, <2>4, <2>5, <2>6, <3>1, <3>2 DEF SerialInv
  <2> QED
    BY <2>3, <2>7 DEF ChainInv
<1>10. ASSUME NEW a \in Appender, Insert(a)
       PROVE  ChainInv'
  <2>1. \A b \in Appender : b # a => append'[b] = append[b]
    BY <1>2, <1>10 DEF Insert
  <2>2. /\ Len(log') = Len(log) + 1
        /\ \A i \in 1..Len(log) : log'[i] = log[i]
        /\ log'[Len(log) + 1].hour = append[a].hour
        /\ log'[Len(log) + 1].prev = append[a].tip
        /\ log'[Len(log) + 1].hashed
        /\ log'[Len(log) + 1].live = (site.backend = "sqlite")
    BY <1>10, InsertRow
  <2>3. overlapped' = overlapped /\ append[a].pc = "read"
    BY <1>10 DEF Insert
  <2>4. site.backend = "sqlite" => append'[a].pc = "idle"
    BY <1>2, <1>3, <1>10 DEF Insert
  <2>5. site.backend # "sqlite" =>
          /\ append'[a].pc = "allocated" /\ append'[a].id = Len(log) + 1
          /\ append'[a].hour = append[a].hour
    BY <1>2, <1>10 DEF Insert, AppendRecord
  <2>6. AllocInv'
    <3> SUFFICES ASSUME NEW b \in Appender, append'[b].pc = "allocated"
                 PROVE  /\ append'[b].id \in 1..Len(log')
                        /\ log'[append'[b].id].hashed
                        /\ log'[append'[b].id].hour = append'[b].hour
      BY <1>1 DEF AllocInv
    <3>1. CASE b = a
      BY <1>2, <2>2, <2>4, <2>5, <3>1
    <3>2. CASE b # a
      <4>1. append'[b] = append[b]
        BY <2>1, <3>2
      <4>2. /\ append[b].id \in 1..Len(log) /\ log[append[b].id].hashed
            /\ log[append[b].id].hour = append[b].hour
        BY <4>1 DEF ChainInv, AllocInv
      <4>3. append[b].id \in 1..(Len(log) + 1)
        BY <1>2, <4>2
      <4> QED
        BY <2>2, <4>1, <4>2, <4>3
    <3> QED
      BY <3>1, <3>2
  <2>7. SerialInv'
    <3> SUFFICES ASSUME ~overlapped PROVE SerialInv'
      BY <2>3 DEF SerialInv
    <3>1. \A b \in Appender : Busy(b) => b = a
      BY <2>3 DEF ChainInv, SerialInv, Busy
    <3>2. \A b \in Appender : b # a => append'[b].pc \notin {"read", "allocated"}
      BY <2>1, <3>1 DEF Busy
    <3>3. append[a].tip = Tip /\ VerifyChain
      BY <2>3 DEF ChainInv, SerialInv
    <3>4. CASE site.backend # "sqlite"
      <4>1. Tip' = Tip /\ VerifyChain'
        BY <1>10, <3>3, <3>4, InsertView
      <4> QED
        BY <1>1, <2>2, <2>5, <3>2, <3>3, <3>4, <4>1 DEF SerialInv, Busy
    <3>5. CASE site.backend = "sqlite"
      <4>1. Hashed(Committed)' = Hashed(Committed) \cup {Len(log) + 1}
        BY <1>10, <3>5, InsertView
      <4>2. \A i \in Committed : i < Len(log) + 1
        BY <1>2
      <4>3. \A i \in Hashed(Committed) : log'[i].prev = log[i].prev
        BY <1>2, <2>2 DEF Hashed
      <4>4. log'[Len(log) + 1].prev = Tip
        BY <2>2, <3>3
      <4>5. VerifyChain'
        BY <1>2, <3>3, <4>1, <4>2, <4>3, <4>4, ChainGrows
      <4> QED
        BY <1>1, <2>4, <3>2, <3>5, <4>5 DEF SerialInv, Busy
    <3> QED
      BY <3>4, <3>5
  <2> QED
    BY <2>6, <2>7 DEF ChainInv
<1>11. ASSUME NEW a \in Appender, Commit(a)
       PROVE  ChainInv'
  <2>1. \A b \in Appender : b # a => append'[b] = append[b]
    BY <1>2, <1>11 DEF Commit
  <2>2. append'[a].pc = "idle" /\ overlapped' = overlapped /\ append[a].pc = "allocated"
    BY <1>2, <1>3, <1>11 DEF Commit
  <2>3. /\ Len(log') = Len(log)
        /\ \A i \in 1..Len(log) :
             /\ log'[i].hour = log[i].hour /\ log'[i].prev = log[i].prev
             /\ log'[i].hashed = log[i].hashed
    BY <1>2, <1>11, CommitRow
  <2>4. AllocInv'
    BY <1>1, <2>1, <2>2, <2>3 DEF ChainInv, AllocInv
  <2>5. SerialInv'
    <3> SUFFICES ASSUME ~overlapped PROVE SerialInv'
      BY <2>2 DEF SerialInv
    <3>1. \A b \in Appender : Busy(b) => b = a
      BY <2>2 DEF ChainInv, SerialInv, Busy
    <3>2. \A b \in Appender : append'[b].pc \notin {"read", "allocated"}
      BY <2>1, <2>2, <3>1 DEF Busy
    <3>3. log[Len(log)].prev = Tip /\ VerifyChain
      BY <2>2 DEF ChainInv, SerialInv
    <3>4. /\ append[a].id = Len(log) /\ Len(log) \in Nat \ {0}
          /\ \A i \in Committed : i < Len(log)
      BY <1>11, CommitsLast
    <3>5. Hashed(Committed)' = Hashed(Committed) \cup {Len(log)}
      BY <1>11, <3>4, CommitView
    <3>6. \A i \in Hashed(Committed) : log'[i].prev = log[i].prev
      BY <1>2, <2>3 DEF Hashed
    <3>7. log'[Len(log)].prev = Tip
      BY <2>3, <3>3, <3>4
    <3>8. VerifyChain'
      BY <3>3, <3>4, <3>5, <3>6, <3>7, ChainGrows
    <3> QED
      BY <1>1, <3>2, <3>8 DEF SerialInv, Busy
  <2> QED
    BY <2>4, <2>5 DEF ChainInv
<1> QED
  BY Writers, <1>6, <1>7, <1>8, <1>9, <1>10, <1>11

\* The types and the chain together.
LEMMA LogSafety == Spec => [](TypeInv /\ ChainInv)
<1>1. Init => TypeInv /\ ChainInv
  BY TypeInit, ChainInit
<1>2. TypeInv /\ ChainInv /\ [Next]_vars => TypeInv' /\ ChainInv'
  BY TypeStep, ChainStep
<1> QED
  BY <1>1, <1>2, PTL DEF Spec

\* The chain verifies as long as no two appends were under way at the same
\* time: reading the tip and inserting the row in separate statements, failed
\* appends, ids that are never committed and restarts do not break it.
THEOREM ChainIsSound == Spec => []ChainHolds
<1>1. ChainInv => ChainHolds
  BY DEF ChainInv, SerialInv, ChainHolds
<1> QED
  BY <1>1, LogSafety, PTL

------------------------------------------------------------------------------
(* The roots *)

\* A window's row is written once; what is told and sealed comes from it.
RowInv ==
  \A h \in Hour :
    /\ roots[h] = {} \/ \E root : roots[h] = {root}
    /\ told[h] \subseteq roots[h]
    /\ checkpoint[h] # {} => checkpoint[h] = roots[h]

\* A root that was computed after its window had closed stays right.
WindowInv ==
  /\ \A h \in whole : ~StillOpen(h) /\ roots[h] = {RootOf(h)}
  /\ \A r \in Auditor : audit[r].pc = "selected" =>
       /\ \E root : audit[r].root = {root}
       /\ audit[r].whole =>
            ~StillOpen(audit[r].hour) /\ audit[r].root = {RootOf(audit[r].hour)}

RootInv == RowInv /\ WindowInv

\* Before the first audit there is no root.
LEMMA RootInit == Init => RootInv
<1> SUFFICES ASSUME Init PROVE RootInv
  OBVIOUS
<1>1. \A r \in Auditor : audit[r].pc = "idle"
  BY DEF Init, IdleAudit
<1>2. \A h \in Hour : roots[h] = {} /\ told[h] = {} /\ checkpoint[h] = {}
  BY DEF Init
<1>3. whole = {}
  BY DEF Init
<1> QED
  BY <1>1, <1>2, <1>3 DEF RootInv, RowInv, WindowInv

\* A window that has closed stays closed.
LEMMA ClosedStays ==
  ASSUME TypeInv, [Next]_vars, NEW h \in Hour, ~StillOpen(h)
  PROVE  ~StillOpen(h)'
<1>1. Appender' = Appender
  BY SameSite
<1>2. /\ now \in Nat /\ h \in Nat /\ now > h
      /\ append \in [Appender -> AppendRecord]
      /\ \A a \in Appender : append[a].pc = "idle" \/ append[a].hour # h
  <2>1. now \in Nat /\ h \in Nat
    BY SiteFacts DEF TypeInv
  <2> QED
    BY <2>1 DEF TypeInv, LogType, StillOpen
<1>3. now' \in Nat /\ now' > h
  BY <1>2, Writers DEF Tick
<1>4. \A a \in Appender : append'[a].pc = "idle" \/ append'[a].hour # h
  <2>1. CASE UNCHANGED logVars
    BY <1>2, <2>1 DEF logVars
  <2>2. ASSUME NEW a \in Appender,
               Stamp(a) \/ ReadTip(a) \/ Insert(a) \/ Commit(a) \/ AppendFails(a)
        PROVE  \A b \in Appender : append'[b].pc = "idle" \/ append'[b].hour # h
    <3>1. \A b \in Appender : b # a => append'[b] = append[b]
      BY <1>2, <2>2 DEF Stamp, ReadTip, Insert, Commit, AppendFails
    <3>2. CASE Stamp(a)
      <4>1. append'[a].hour = now
        BY <1>2, <3>2 DEF Stamp, IdleAppend
      <4> QED
        BY <1>2, <3>1, <4>1
    <3>3. CASE ReadTip(a)
      <4>1. append'[a].hour = append[a].hour /\ append[a].pc # "idle"
        BY <1>2, <3>3 DEF ReadTip, AppendRecord
      <4> QED
        BY <1>2, <3>1, <4>1
    <3>4. CASE Insert(a)
      <4>1. append[a].pc # "idle"
        BY <3>4 DEF Insert
      <4>2. append'[a].pc = "idle" \/ append'[a].hour = append[a].hour
        BY <1>2, <3>4 DEF Insert, AppendRecord, IdleAppend
      <4> QED
        BY <1>2, <3>1, <4>1, <4>2
    <3>5. CASE Commit(a) \/ AppendFails(a)
      <4>1. append'[a].pc = "idle"
        BY <1>2, <3>5 DEF Commit, AppendFails, IdleAppend
      <4> QED
        BY <1>2, <3>1, <4>1
    <3> QED
      BY <2>2, <3>2, <3>3, <3>4, <3>5
  <2>3. CASE Restart
    BY <2>3 DEF Restart, IdleAppend
  <2> QED
    BY Writers, <2>1, <2>2, <2>3
<1> QED
  BY <1>1, <1>2, <1>3, <1>4 DEF StillOpen

\* The root of a window that has closed does not change any more.
LEMMA RootStays ==
  ASSUME TypeInv, ChainInv, [Next]_vars, NEW h \in Hour, ~StillOpen(h)
  PROVE  RootOf(h)' = RootOf(h)
<1> DEFINE Window == {i \in Hashed(Committed) : log[i].hour = h}
<1>1. ASSUME Window' = Window
      PROVE  RootOf(h)' = RootOf(h)
  <2>1. RootOf(h) = [root |-> MerkleRoot(Window), count |-> Cardinality(Window)]
    BY DEF RootOf
  <2>2. RootOf(h)' = [root |-> MerkleRoot(Window'), count |-> Cardinality(Window')]
    BY DEF RootOf
  <2> QED
    BY <1>1, <2>1, <2>2
<1>2. /\ Len(log) \in Nat
      /\ Committed \subseteq 1..Len(log) /\ Hashed(Committed) \subseteq 1..Len(log)
  BY TipFacts
<1>3. ASSUME log' = log
      PROVE  Window' = Window
  BY <1>3 DEF Hashed, Committed
<1>4. ASSUME NEW a \in Appender, Insert(a)
      PROVE  Window' = Window
  <2>1. append[a].hour # h
    BY <1>4 DEF Insert, StillOpen
  <2>2. /\ \A i \in 1..Len(log) : log'[i] = log[i]
        /\ log'[Len(log) + 1].hour = append[a].hour
    BY <1>4, InsertRow
  <2>3. \/ Hashed(Committed)' = Hashed(Committed)
        \/ Hashed(Committed)' = Hashed(Committed) \cup {Len(log) + 1}
    BY <1>4, InsertView
  <2>4. Window' = {i \in Hashed(Committed)' : log'[i].hour = h}
    OBVIOUS
  <2> QED
    BY <1>2, <2>1, <2>2, <2>3, <2>4
<1>5. ASSUME NEW a \in Appender, Commit(a)
      PROVE  Window' = Window
  <2>1. append[a].hour # h
    BY <1>5 DEF Commit, StillOpen
  <2>2. log[append[a].id].hour = append[a].hour
    BY <1>5 DEF Commit, ChainInv, AllocInv
  <2>3. \A i \in 1..Len(log) : log'[i].hour = log[i].hour
    BY <1>5, CommitRow DEF TypeInv, LogType
  <2>4. /\ append[a].id \in 1..Len(log)
        /\ Hashed(Committed)' = Hashed(Committed) \cup {append[a].id}
    BY <1>5, CommitView
  <2>5. Window' = {i \in Hashed(Committed)' : log'[i].hour = h}
    OBVIOUS
  <2> QED
    BY <1>2, <2>1, <2>2, <2>3, <2>4, <2>5
<1> HIDE DEF Window
<1>6. log' = log \/ \E a \in Appender : Insert(a) \/ Commit(a)
  BY Writers DEF logVars, Stamp, ReadTip, AppendFails, Restart
<1> QED
  BY <1>1, <1>3, <1>4, <1>5, <1>6

\* Steps preserve what is known of the roots.
LEMMA RootStep ==
  ASSUME TypeInv, ChainInv, RootInv, [Next]_vars
  PROVE  RootInv'
<1>1. Hour' = Hour /\ Auditor' = Auditor
  BY SameSite
<1>2. \A h \in Hour : ~StillOpen(h) => ~StillOpen(h)' /\ RootOf(h)' = RootOf(h)
  BY ClosedStays, RootStays
<1>3. /\ whole \subseteq Hour /\ DOMAIN roots = Hour /\ DOMAIN told = Hour
      /\ DOMAIN checkpoint = Hour /\ DOMAIN audit = Auditor
      /\ \A r \in Auditor : audit[r].hour \in Hour
  BY DEF TypeInv, RootType
<1>4. IdleAudit.pc = "idle"
  BY DEF IdleAudit
<1> DEFINE Sound(task) ==
             /\ \E root : task.root = {root}
             /\ task.whole => ~StillOpen(task.hour) /\ task.root = {RootOf(task.hour)}
           Covers(h) == ~StillOpen(h)' /\ roots'[h] = {RootOf(h)'}
           SoundLater(task) ==
             /\ \E root : task.root = {root}
             /\ task.whole => \A h \in Hour : h = task.hour =>
                                ~StillOpen(h)' /\ task.root = {RootOf(h)'}
<1>5. \A r \in Auditor : audit[r].pc = "selected" => SoundLater(audit[r])
  <2> SUFFICES ASSUME NEW r \in Auditor, audit[r].pc = "selected"
               PROVE  SoundLater(audit[r])
    OBVIOUS
  <2>1. Sound(audit[r])
    BY DEF RootInv, WindowInv
  <2> QED
    BY <1>2, <1>3, <2>1
<1>6. ASSUME \A h \in whole' : h \in Hour /\ Covers(h),
             \A r \in Auditor : audit'[r].pc = "selected" =>
                audit'[r].hour \in Hour /\ SoundLater(audit'[r])
      PROVE  WindowInv'
  <2>1. \A h \in whole' : ~StillOpen(h)' /\ roots'[h] = {RootOf(h)'}
    BY <1>6
  <2>2. ASSUME NEW r \in Auditor, audit'[r].pc = "selected"
        PROVE  /\ \E root : audit'[r].root = {root}
               /\ audit'[r].whole => ~StillOpen(audit[r].hour)'
                                       /\ audit'[r].root = {RootOf(audit[r].hour)'}
    <3>1. audit'[r].hour \in Hour /\ SoundLater(audit'[r])
      BY <1>6, <2>2
    <3> QED
      BY <3>1 DEF StillOpen, RootOf
  <2> QED
    BY <1>1, <2>1, <2>2 DEF WindowInv
<1>7. \A h \in whole : roots'[h] = roots[h] => h \in Hour /\ Covers(h)
  BY <1>2, <1>3 DEF RootInv, WindowInv
<1> HIDE DEF Covers, SoundLater, Sound
<1>8. ASSUME UNCHANGED <<roots, whole>>,
             \A r \in Auditor : audit'[r] = audit[r] \/ audit'[r].pc = "idle"
      PROVE  WindowInv'
  BY <1>3, <1>5, <1>6, <1>7, <1>8
<1>9. CASE UNCHANGED rootVars
  <2>1. WindowInv'
    BY <1>8, <1>9 DEF rootVars
  <2>2. RowInv'
    BY <1>1, <1>9 DEF rootVars, RootInv, RowInv
  <2> QED
    BY <2>1, <2>2 DEF RootInv
<1>10. CASE Restart
  <2>1. WindowInv'
    BY <1>1, <1>4, <1>8, <1>10 DEF Restart
  <2>2. RowInv'
    BY <1>1, <1>10 DEF Restart, RootInv, RowInv
  <2> QED
    BY <2>1, <2>2 DEF RootInv
<1>11. ASSUME NEW r \in Auditor, NEW h \in Hour, NEW row, NEW claim,
              Answer(r, h, row, claim), row = roots'[h]
       PROVE  /\ told'[h] = told[h] \cup roots'[h]
              /\ checkpoint'[h] = checkpoint[h] \/ checkpoint'[h] = roots'[h]
              /\ \A k \in Hour : k # h => told'[k] = told[k] /\ checkpoint'[k] = checkpoint[k]
              /\ audit'[r].pc = "idle"
              /\ \A p \in Auditor : p # r => audit'[p] = audit[p]
  BY <1>3, <1>4, <1>11 DEF Answer
<1>12. ASSUME NEW r \in Auditor, AuditCached(r)
       PROVE  RootInv'
  <2>1. PICK h \in Hour : \E claim \in Claims(h) : Answer(r, h, roots[h], claim)
    BY <1>12 DEF AuditCached
  <2>2. UNCHANGED <<roots, whole>>
    BY <1>12 DEF AuditCached
  <2>3. /\ told'[h] = told[h] \cup roots'[h]
        /\ checkpoint'[h] = checkpoint[h] \/ checkpoint'[h] = roots'[h]
        /\ \A k \in Hour : k # h => told'[k] = told[k] /\ checkpoint'[k] = checkpoint[k]
        /\ audit'[r].pc = "idle"
        /\ \A p \in Auditor : p # r => audit'[p] = audit[p]
    BY <1>11, <2>1, <2>2
  <2>4. WindowInv'
    BY <1>8, <2>2, <2>3
  <2>5. RowInv'
    BY <1>1, <2>2, <2>3 DEF RootInv, RowInv
  <2> QED
    BY <2>4, <2>5 DEF RootInv
<1>13. ASSUME NEW r \in Auditor, AuditSelect(r)
       PROVE  RootInv'
  <2>1. PICK h \in 0..now : \E claim \in Claims(h) :
          audit' = [audit EXCEPT ![r] = [pc |-> "selected", hour |-> h, root |-> {RootOf(h)},
                                         whole |-> ~StillOpen(h), claim |-> claim]]
    BY <1>13 DEF AuditSelect
  <2>2. h \in Hour
    BY SiteFacts DEF TypeInv
  <2>3. UNCHANGED <<roots, whole, told, checkpoint>>
    BY <1>13 DEF AuditSelect
  <2>4. /\ audit'[r].hour = h /\ audit'[r].root = {RootOf(h)}
        /\ audit'[r].whole = ~StillOpen(h)
        /\ \A p \in Auditor : p # r => audit'[p] = audit[p]
    BY <1>3, <2>1
  <2>5. SoundLater(audit'[r])
    BY <1>2, <2>2, <2>4 DEF SoundLater
  <2>6. WindowInv'
    BY <1>3, <1>5, <1>6, <1>7, <2>2, <2>3, <2>4, <2>5
  <2>7. RowInv'
    BY <1>1, <2>3 DEF RootInv, RowInv
  <2> QED
    BY <2>6, <2>7 DEF RootInv
<1>14. ASSUME NEW r \in Auditor, AuditStore(r)
       PROVE  RootInv'
  <2> DEFINE h == audit[r].hour
  <2>1. h \in Hour /\ audit[r].pc = "selected" /\ SoundLater(audit[r])
    BY <1>3, <1>5, <1>14 DEF AuditStore
  <2>2. /\ roots'[h] = IF roots[h] = {} THEN audit[r].root ELSE roots[h]
        /\ \A k \in Hour : k # h => roots'[k] = roots[k]
        /\ whole' = IF roots[h] = {} /\ audit[r].whole THEN whole \cup {h} ELSE whole
        /\ Answer(r, h, roots'[h], audit[r].claim)
    BY <1>3, <1>14, <2>1 DEF AuditStore
  <2> HIDE DEF h
  <2>3. /\ told'[h] = told[h] \cup roots'[h]
        /\ checkpoint'[h] = checkpoint[h] \/ checkpoint'[h] = roots'[h]
        /\ \A k \in Hour : k # h => told'[k] = told[k] /\ checkpoint'[k] = checkpoint[k]
        /\ audit'[r].pc = "idle"
        /\ \A p \in Auditor : p # r => audit'[p] = audit[p]
    BY <1>11, <2>1, <2>2
  <2>4. ASSUME NEW k \in whole'
        PROVE  k \in Hour /\ Covers(k)
    <3>1. CASE k \in whole
      <4>1. k \in Hour /\ roots[k] # {}
        BY <1>3, <3>1 DEF RootInv, WindowInv
      <4>2. roots'[k] = roots[k]
        BY <2>2, <4>1
      <4> QED
        BY <1>7, <3>1, <4>2
    <3>2. CASE k \notin whole
      <4>1. k = h /\ roots'[h] = audit[r].root /\ audit[r].whole
        BY <2>2, <2>4, <3>2
      <4> QED
        BY <2>1, <4>1 DEF SoundLater, Covers, h
    <3> QED
      BY <3>1, <3>2
  <2>5. WindowInv'
    BY <1>3, <1>5, <1>6, <2>3, <2>4
  <2>6. \E root : audit[r].root = {root}
    BY <2>1 DEF SoundLater
  <2>7. RowInv'
    <3> SUFFICES ASSUME NEW k \in Hour
                 PROVE  /\ roots'[k] = {} \/ \E root : roots'[k] = {root}
                        /\ told'[k] \subseteq roots'[k]
                        /\ checkpoint'[k] # {} => checkpoint'[k] = roots'[k]
      BY <1>1 DEF RowInv
    <3>1. /\ roots[k] = {} \/ \E root : roots[k] = {root}
          /\ told[k] \subseteq roots[k]
          /\ checkpoint[k] # {} => checkpoint[k] = roots[k]
      BY DEF RootInv, RowInv
    <3>2. CASE k # h
      BY <2>2, <2>3, <3>1, <3>2
    <3>3. CASE k = h /\ roots[k] = {}
      BY <2>2, <2>3, <2>6, <3>1, <3>3
    <3>4. CASE k = h /\ roots[k] # {}
      BY <2>2, <2>3, <3>1, <3>4
    <3> QED
      BY <3>2, <3>3, <3>4
  <2> QED
    BY <2>5, <2>7 DEF RootInv
<1> QED
  BY Writers, <1>9, <1>10, <1>12, <1>13, <1>14

\* The properties of the roots follow from what is known of the rows.
LEMMA RootsFollow == RootInv => RootsHold
<1> SUFFICES ASSUME RootInv PROVE RootsHold
  OBVIOUS
<1>1. RootsAgree
  <2> SUFFICES ASSUME NEW h \in Hour PROVE Cardinality(told[h]) <= 1
    BY DEF RootsAgree
  <2>1. told[h] = {} \/ \E root : told[h] = {root}
    BY DEF RootInv, RowInv
  <2>2. CASE told[h] = {}
    BY <2>2, FS_EmptySet
  <2>3. CASE \E root : told[h] = {root}
    <3>1. PICK root : told[h] = {root}
      BY <2>3
    <3>2. Cardinality({root}) = 1
      BY FS_Singleton
    <3> QED
      BY <3>1, <3>2
  <2> QED
    BY <2>1, <2>2, <2>3
<1>2. \A h \in whole : roots[h] = {RootOf(h)}
  BY DEF RootInv, WindowInv
<1>3. RootCoversWindow
  BY <1>2 DEF RootCoversWindow
<1>4. \A h \in Hour : checkpoint[h] # {} => checkpoint[h] = roots[h]
  BY DEF RootInv, RowInv
<1>5. CheckpointStands
  BY <1>2, <1>4 DEF CheckpointStands, CheckpointVerifies
<1> QED
  BY <1>1, <1>3, <1>5 DEF RootsHold

\* Everybody is told the same root of a window, an accepted checkpoint verifies
\* for ever, and a root computed after its window had closed, and a checkpoint
\* sealed over it, cover every entry that the window will ever have.
THEOREM RootsAreSound == Spec => []RootsHold
<1>1. Init => TypeInv /\ ChainInv /\ RootInv
  BY TypeInit, ChainInit, RootInit
<1>2. TypeInv /\ ChainInv /\ RootInv /\ [Next]_vars => TypeInv' /\ ChainInv' /\ RootInv'
  BY TypeStep, ChainStep, RootStep
<1>3. Spec => []RootInv
  BY <1>1, <1>2, PTL DEF Spec
<1> QED
  BY <1>3, RootsFollow, PTL

------------------------------------------------------------------------------
(* The archive *)

\* No committed entry between two of the bundle's is left out.
Convex(ids) ==
  /\ ids \subseteq Committed
  /\ \A i, j \in ids : \A k \in Committed : i < k /\ k < j => k \in ids

BundleInv ==
  ~overlapped =>
    /\ \A b \in Id \X Id : \A u \in archive[b] : Convex(u[2])
    /\ Convex(sink.batch)

\* With one writer rows become visible in the order of their ids, so that the
\* batch reaches from the cursor to its last id.
CursorInv ==
  /\ sink.cursor <= Len(log)
  /\ sink.pc # "idle" => sink.batch # {} /\ sink.batch \subseteq Committed
  /\ sink.pc = "manifest" => <<"body", sink.batch>> \in archive[BundleKey]
  /\ site.backend = "sqlite" =>
       /\ \A i \in 1..Len(log) : log[i].live
       /\ \A i \in 1..sink.cursor : Archived(i)
       /\ sink.pc # "idle" =>
            \A j \in sink.batch : \A i \in 1..j : i > sink.cursor => i \in sink.batch

ArchiveInv == BundleInv /\ CursorInv

\* Before the first pass the archive is empty.
LEMMA ArchiveInit == Init => ArchiveInv
<1> SUFFICES ASSUME Init PROVE ArchiveInv
  OBVIOUS
<1>1. sink.pc = "idle" /\ sink.cursor = 0 /\ sink.batch = {}
  BY DEF Init, IdleSink
<1>2. \A b \in Id \X Id : archive[b] = {}
  BY DEF Init
<1>3. Len(log) \in Nat /\ \A i \in 1..Len(log) : log[i].live
  <2>1. PICK n \in 0..MaxLegacy : log = [i \in 1..n |-> Legacy]
    BY DEF Init
  <2>2. n \in Nat
    BY AuditAssumption
  <2> QED
    BY <2>1, <2>2 DEF Legacy
<1>4. Convex({})
  BY DEF Convex
<1>5. BundleInv
  BY <1>1, <1>2, <1>4 DEF BundleInv
<1>6. CursorInv
  BY <1>1, <1>3 DEF CursorInv
<1> QED
  BY <1>5, <1>6 DEF ArchiveInv

\* How the committed rows change: not at all or, as long as appends do not
\* overlap, by a row behind all of them.
LEMMA CommittedGrows ==
  ASSUME TypeInv, ChainInv, [Next]_vars
  PROVE  /\ Len(log) \in Nat /\ Len(log') \in Nat /\ Len(log) <= Len(log')
         /\ Committed \subseteq 1..Len(log) /\ Committed \subseteq Committed'
         /\ ~overlapped' => ~overlapped
         /\ ~overlapped' => \A k \in Committed' \ Committed : \A i \in Committed : i < k
         /\ (site.backend = "sqlite" /\ \A i \in 1..Len(log) : log[i].live)
              => \A i \in 1..Len(log') : log'[i].live
<1>1. Len(log) \in Nat /\ Committed \subseteq 1..Len(log) /\ overlapped \in BOOLEAN
  BY TipFacts DEF TypeInv, LogType
<1>2. ~overlapped' => ~overlapped
  <2>1. overlapped' = overlapped \/ \E a \in Appender : ReadTip(a)
    BY Writers DEF logVars, Stamp, Insert, Commit, AppendFails, Restart
  <2> QED
    BY <2>1 DEF ReadTip
<1>3. CASE log' = log
  <2>1. Committed' = Committed
    BY <1>3 DEF Committed
  <2> QED
    BY <1>1, <1>2, <1>3, <2>1
<1>4. ASSUME NEW a \in Appender, Insert(a)
      PROVE  /\ Len(log') \in Nat /\ Len(log) <= Len(log')
             /\ Committed \subseteq Committed'
             /\ \A k \in Committed' \ Committed : \A i \in Committed : i < k
             /\ (site.backend = "sqlite" /\ \A i \in 1..Len(log) : log[i].live)
                  => \A i \in 1..Len(log') : log'[i].live
  <2>1. /\ Len(log') = Len(log) + 1
        /\ \A i \in 1..Len(log) : log'[i] = log[i]
        /\ log'[Len(log) + 1].live = (site.backend = "sqlite")
    BY <1>4, InsertRow
  <2>2. Committed' = Committed \/ Committed' = Committed \cup {Len(log) + 1}
    BY <1>4, InsertView
  <2>3. \A i \in Committed : i < Len(log) + 1
    BY <1>1
  <2>4. \A i \in 1..(Len(log) + 1) : i \in 1..Len(log) \/ i = Len(log) + 1
    BY <1>1
  <2>5. (site.backend = "sqlite" /\ \A i \in 1..Len(log) : log[i].live)
          => \A i \in 1..Len(log') : log'[i].live
    BY <2>1, <2>4
  <2> QED
    BY <1>1, <2>1, <2>2, <2>3, <2>5
<1>5. ASSUME NEW a \in Appender, Commit(a)
      PROVE  /\ Len(log') = Len(log)
             /\ Committed \subseteq Committed'
             /\ ~overlapped => \A k \in Committed' \ Committed : \A i \in Committed : i < k
             /\ (\A i \in 1..Len(log) : log[i].live) => \A i \in 1..Len(log') : log'[i].live
  <2>1. /\ Len(log') = Len(log)
        /\ \A i \in 1..Len(log) : log'[i].live = (i = append[a].id \/ log[i].live)
    BY <1>5, CommitRow DEF TypeInv, LogType
  <2>2. Committed' = Committed \cup {append[a].id}
    BY <1>5, CommitView
  <2>3. ~overlapped => append[a].id = Len(log) /\ \A i \in Committed : i < Len(log)
    BY <1>5, CommitsLast
  <2> QED
    BY <2>1, <2>2, <2>3
<1>6. log' = log \/ \E a \in Appender : Insert(a) \/ Commit(a)
  BY Writers DEF logVars, Stamp, ReadTip, AppendFails, Restart
<1> QED
  BY <1>1, <1>2, <1>3, <1>4, <1>5, <1>6

\* A bundle that left out no entry keeps its gaps closed.
LEMMA ConvexStays ==
  ASSUME TypeInv, ChainInv, [Next]_vars, ~overlapped', NEW ids, Convex(ids)
  PROVE  Convex(ids)'
<1>1. /\ Committed \subseteq 1..Len(log) /\ Committed \subseteq Committed'
      /\ Len(log) \in Nat /\ Len(log') \in Nat
      /\ \A k \in Committed' \ Committed : \A i \in Committed : i < k
  BY CommittedGrows
<1>2. ids \subseteq Committed
  BY DEF Convex
<1>3. Committed' \subseteq Nat
  BY <1>1 DEF Committed
<1>4. ASSUME NEW i \in ids, NEW j \in ids, NEW k \in Committed', i < k, k < j
      PROVE  k \in ids
  <2>1. k \in Nat /\ j \in Nat /\ j \in Committed
    BY <1>1, <1>2, <1>3
  <2>2. k \in Committed
    BY <1>1, <1>4, <2>1
  <2> QED
    BY <1>4, <2>2 DEF Convex
<1> QED
  BY <1>1, <1>2, <1>4 DEF Convex

\* The sink's next batch leaves out no entry.
LEMMA NextBatchConvex ==
  ASSUME TypeInv
  PROVE  Convex(NextBatch)
<1>1. /\ NextBatch \subseteq Committed
      /\ \A j \in NextBatch : j > sink.cursor
      /\ \A j \in NextBatch : \A k \in Committed :
           sink.cursor < k /\ k <= j => k \in NextBatch
  BY BatchFacts
<1>2. Committed \subseteq Nat /\ sink.cursor \in Nat
  <2>1. Len(log) \in Nat /\ Committed \subseteq 1..Len(log)
    BY TipFacts
  <2>2. site \in Sites /\ sink \in SinkRecord
    BY DEF TypeInv, SinkType
  <2>3. MaxLog \in Nat
    BY <2>2, SiteFacts
  <2>4. sink.cursor \in 0..MaxLog
    BY <2>2 DEF SinkRecord
  <2> QED
    BY <2>1, <2>3, <2>4
<1> SUFFICES ASSUME NEW i \in NextBatch, NEW j \in NextBatch, NEW k \in Committed, i < k, k < j
             PROVE  k \in NextBatch
  BY <1>1 DEF Convex
<1>3. i \in Nat /\ j \in Nat /\ k \in Nat /\ i > sink.cursor
  BY <1>1, <1>2
<1> QED
  BY <1>1, <1>2, <1>3

\* What the bucket holds after a step: what it held, and parts of the batch.
LEMMA ArchiveWrites ==
  ASSUME TypeInv, [Next]_vars
  PROVE  /\ \A b \in Id \X Id : archive[b] \subseteq archive'[b]
         /\ \A b \in Id \X Id : \A u \in archive'[b] : u \in archive[b] \/ u[2] = sink.batch
         /\ sink' = sink \/ sink'.pc = "idle" \/ SinkList \/ SinkBody
<1>1. archive \in [Id \X Id -> SUBSET Part]
  BY DEF TypeInv, SinkType
<1>2. ASSUME archive' = archive
      PROVE  /\ \A b \in Id \X Id : archive[b] \subseteq archive'[b]
             /\ \A b \in Id \X Id : \A u \in archive'[b] : u \in archive[b] \/ u[2] = sink.batch
  BY <1>2
<1>3. ASSUME NEW part, Upload(part)
      PROVE  /\ \A b \in Id \X Id : archive[b] \subseteq archive'[b]
             /\ \A b \in Id \X Id : \A u \in archive'[b] : u \in archive[b] \/ u[2] = sink.batch
  <2>1. <<part, sink.batch>>[2] = sink.batch
    OBVIOUS
  <2>2. \A b \in Id \X Id : archive'[b] = archive[b]
                              \/ archive'[b] = archive[b] \cup {<<part, sink.batch>>}
    BY <1>1, <1>3 DEF Upload
  <2> QED
    BY <2>1, <2>2
<1>4. archive' = archive \/ \E part \in {"body", "manifest"} : Upload(part)
  BY Writers DEF sinkVars, SinkList, SinkBody, SinkManifest, SinkFails, Restart
<1>5. sink' = sink \/ sink'.pc = "idle" \/ SinkList \/ SinkBody
  BY Writers DEF sinkVars, SinkManifest, SinkFails, Restart, IdleSink
<1> QED
  BY <1>2, <1>3, <1>4, <1>5

\* A bundle is complete when it has a body and a manifest of the batch.
LEMMA CompleteIff ==
  ASSUME NEW b \in Id \X Id, NEW ids
  PROVE  ids \in Complete(b) <=> <<"body", ids>> \in archive[b] /\ <<"manifest", ids>> \in archive[b]
<1>1. <<"body", ids>>[2] = ids
  OBVIOUS
<1>2. <<"body", ids>> \in archive[b] => ids \in {u[2] : u \in archive[b]}
  BY <1>1
<1> QED
  BY <1>2 DEF Complete

\* What is archived stays archived.
LEMMA ArchivedStays ==
  ASSUME TypeInv, [Next]_vars, NEW i, Archived(i)
  PROVE  Archived(i)'
<1>1. PICK b \in Id \X Id : \E ids \in Complete(b) : i \in ids
  BY DEF Archived
<1>2. PICK ids \in Complete(b) : i \in ids
  BY <1>1
<1>3. <<"body", ids>> \in archive'[b] /\ <<"manifest", ids>> \in archive'[b]
  BY <1>2, CompleteIff, ArchiveWrites
<1>4. <<"body", ids>>[2] = ids
  OBVIOUS
<1>5. ids \in {u[2] : u \in archive'[b]}
  BY <1>3, <1>4
<1>6. ids \in Complete(b)'
  BY <1>3, <1>5 DEF Complete
<1> QED
  BY <1>2, <1>6 DEF Archived

\* Steps leave every bundle and the batch at hand without gaps.
LEMMA BundleStep ==
  ASSUME TypeInv, ChainInv, ArchiveInv, [Next]_vars
  PROVE  BundleInv'
<1> SUFFICES ASSUME ~overlapped' PROVE BundleInv'
  BY DEF BundleInv
<1>1. ~overlapped
  BY CommittedGrows
<1>2. /\ \A b \in Id \X Id : \A u \in archive[b] : Convex(u[2])
      /\ Convex(sink.batch)
  BY <1>1 DEF ArchiveInv, BundleInv
<1>3. Convex(sink.batch) => \A ids : ids = sink.batch => Convex(ids)'
  BY ConvexStays
<1>4. \A ids : ids = sink.batch => Convex(ids)'
  BY <1>2, <1>3
<1>5. ASSUME NEW b \in Id \X Id, NEW u \in archive'[b]
      PROVE  Convex(u[2])'
  <2>1. CASE u \in archive[b]
    <3>1. Convex(u[2])
      BY <1>2, <2>1
    <3> QED
      BY <3>1, ConvexStays
  <2>2. CASE u[2] = sink.batch
    BY <1>4, <2>2
  <2> QED
    BY <1>5, <2>1, <2>2, ArchiveWrites
<1>6. \A ids : ids = NextBatch => Convex(ids)'
  BY NextBatchConvex, ConvexStays
<1>7. \A ids : ids = {} => Convex(ids)'
  BY DEF Convex
<1>8. sink'.batch = sink.batch \/ sink'.batch = {} \/ sink'.batch = NextBatch
  <2>1. sink \in SinkRecord
    BY DEF TypeInv, SinkType
  <2>2. CASE SinkList
    BY <2>1, <2>2 DEF SinkList, SinkRecord
  <2>3. CASE SinkBody
    BY <2>1, <2>3 DEF SinkBody, SinkRecord
  <2>4. CASE SinkManifest \/ SinkFails \/ Restart
    BY <2>4 DEF SinkManifest, SinkFails, Restart, IdleSink
  <2>5. CASE UNCHANGED sinkVars
    BY <2>5 DEF sinkVars
  <2> QED
    BY Writers, <2>2, <2>3, <2>4, <2>5
<1>9. \A ids : ids = sink'.batch => Convex(ids)'
  BY <1>4, <1>6, <1>7, <1>8
<1>10. Convex(sink.batch)'
  BY <1>9 DEF Convex
<1>11. \A b \in Id \X Id : \A u \in archive'[b] : Convex(u[2])'
  BY <1>5
<1> QED
  BY <1>10, <1>11 DEF BundleInv

\* Steps keep the archive complete behind the cursor.
LEMMA CursorStep ==
  ASSUME TypeInv, ChainInv, ArchiveInv, [Next]_vars
  PROVE  CursorInv'
<1>1. /\ Len(log) \in Nat /\ Len(log') \in Nat /\ Len(log) <= Len(log')
      /\ Committed \subseteq 1..Len(log) /\ Committed \subseteq Committed'
      /\ (site.backend = "sqlite" /\ \A i \in 1..Len(log) : log[i].live)
           => \A i \in 1..Len(log') : log'[i].live
      /\ site' = site
  BY CommittedGrows, SameSite
<1>2. sink \in SinkRecord /\ sink.cursor \in Nat /\ sink.cursor <= Len(log)
  BY SiteFacts DEF TypeInv, SinkType, SinkRecord, ArchiveInv, CursorInv
<1>3. /\ sink.pc # "idle" => sink.batch # {} /\ sink.batch \subseteq Committed
      /\ sink.pc = "manifest" => <<"body", sink.batch>> \in archive[BundleKey]
  BY DEF ArchiveInv, CursorInv
<1>4. ASSUME site.backend = "sqlite"
      PROVE  /\ \A i \in 1..Len(log) : log[i].live
             /\ \A i \in 1..sink.cursor : Archived(i)
             /\ sink.pc # "idle" =>
                  \A j \in sink.batch : \A i \in 1..j : i > sink.cursor => i \in sink.batch
  BY <1>4 DEF ArchiveInv, CursorInv
<1>5. ASSUME NEW i, Archived(i)
      PROVE  Archived(i)'
  BY <1>5, ArchivedStays
<1>6. \A b \in Id \X Id : archive[b] \subseteq archive'[b]
  BY ArchiveWrites
<1>7. ASSUME sink' = sink
      PROVE  CursorInv'
  <2>1. sink'.cursor <= Len(log')
    BY <1>1, <1>2, <1>7
  <2>2. sink'.pc # "idle" => sink'.batch # {} /\ sink'.batch \subseteq Committed'
    BY <1>1, <1>3, <1>7
  <2>3. sink'.pc = "manifest" => <<"body", sink'.batch>> \in archive'[BundleKey']
    <3>1. BundleKey' = BundleKey
      BY <1>7 DEF BundleKey
    <3>2. sink.pc = "manifest" => BundleKey \in Id \X Id
      BY KeyFacts
    <3> QED
      BY <1>3, <1>6, <1>7, <3>1, <3>2
  <2>4. site.backend = "sqlite" =>
          /\ \A i \in 1..sink'.cursor : Archived(i)'
          /\ sink'.pc # "idle" =>
               \A j \in sink'.batch : \A i \in 1..j : i > sink'.cursor => i \in sink'.batch
    BY <1>4, <1>5, <1>7
  <2> QED
    BY <1>1, <1>4, <2>1, <2>2, <2>3, <2>4 DEF CursorInv
<1>8. ASSUME NEW c \in Nat, sink' = IdleSink(c), c <= Len(log),
             site.backend = "sqlite" => \A i \in 1..c : Archived(i)'
      PROVE  CursorInv'
  <2>1. sink'.pc = "idle" /\ sink'.cursor = c
    BY <1>8 DEF IdleSink
  <2>2. sink'.cursor <= Len(log')
    BY <1>1, <1>8, <2>1
  <2> QED
    BY <1>1, <1>4, <1>8, <2>1, <2>2 DEF CursorInv
<1>9. ASSUME SinkList
      PROVE  CursorInv'
  <2>1. /\ sink'.pc = "body" /\ sink'.cursor = sink.cursor /\ sink'.batch = NextBatch
        /\ NextBatch # {}
    BY <1>2, <1>9 DEF SinkList, SinkRecord
  <2>2. /\ NextBatch \subseteq Committed
        /\ \A j \in NextBatch : \A k \in Committed :
             sink.cursor < k /\ k <= j => k \in NextBatch
    BY BatchFacts
  <2>3. sink'.cursor <= Len(log')
    BY <1>1, <1>2, <2>1
  <2>4. ASSUME site.backend = "sqlite", NEW j \in NextBatch, NEW i \in 1..j, i > sink.cursor
        PROVE  i \in NextBatch
    <3>1. j \in 1..Len(log)
      BY <1>1, <2>2
    <3>2. i \in 1..Len(log) /\ i <= j
      BY <1>1, <3>1
    <3>3. i \in Committed
      BY <1>4, <2>4, <3>2 DEF Committed
    <3> QED
      BY <1>2, <2>2, <2>4, <3>2, <3>3
  <2>5. site.backend = "sqlite" => \A i \in 1..sink'.cursor : Archived(i)'
    BY <1>4, <1>5, <2>1
  <2>6. sink'.pc # "manifest"
    BY <2>1
  <2>7. sink'.pc # "idle" => sink'.batch # {} /\ sink'.batch \subseteq Committed'
    BY <1>1, <2>1, <2>2
  <2>8. site.backend = "sqlite" =>
          \A j \in sink'.batch : \A i \in 1..j : i > sink'.cursor => i \in sink'.batch
    BY <2>1, <2>4
  <2> QED
    BY <1>1, <1>4, <2>3, <2>5, <2>6, <2>7, <2>8 DEF CursorInv
<1>10. ASSUME SinkBody
       PROVE  CursorInv'
  <2>1. /\ sink.pc = "body" /\ Upload("body")
        /\ sink'.cursor = sink.cursor /\ sink'.batch = sink.batch
    BY <1>2, <1>10 DEF SinkBody, SinkRecord
  <2>2. BundleKey' = BundleKey
    BY <2>1 DEF BundleKey
  <2>3. BundleKey \in Id \X Id
    BY <2>1, KeyFacts
  <2>4. <<"body", sink'.batch>> \in archive'[BundleKey']
    BY <2>1, <2>2, <2>3 DEF Upload, TypeInv, SinkType
  <2>5. sink'.cursor <= Len(log')
    BY <1>1, <1>2, <2>1
  <2>6. sink'.batch # {} /\ sink'.batch \subseteq Committed'
    BY <1>1, <1>3, <2>1
  <2>7. site.backend = "sqlite" =>
          /\ \A i \in 1..sink'.cursor : Archived(i)'
          /\ \A j \in sink'.batch : \A i \in 1..j : i > sink'.cursor => i \in sink'.batch
    BY <1>4, <1>5, <2>1
  <2> QED
    BY <1>1, <1>4, <2>4, <2>5, <2>6, <2>7 DEF CursorInv
<1>11. ASSUME SinkManifest
       PROVE  CursorInv'
  <2> DEFINE m == Max(sink.batch)
  <2>1. sink.pc = "manifest" /\ Upload("manifest") /\ sink' = IdleSink(BundleKey[2])
    BY <1>11 DEF SinkManifest
  <2>2. BundleKey \in Id \X Id /\ BundleKey[2] = m /\ m \in sink.batch
    BY <2>1, KeyFacts
  <2> HIDE DEF m
  <2>3. m \in Nat /\ m <= Len(log)
    <3>1. sink.pc # "idle"
      BY <2>1
    <3>2. m \in 1..Len(log)
      BY <1>1, <1>3, <2>2, <3>1
    <3> QED
      BY <1>1, <3>2
  <2>4. /\ <<"body", sink.batch>> \in archive'[BundleKey]
        /\ <<"manifest", sink.batch>> \in archive'[BundleKey]
    BY <1>3, <1>6, <2>1, <2>2 DEF Upload, TypeInv, SinkType
  <2>5. ASSUME NEW i \in sink.batch
        PROVE  Archived(i)'
    <3>1. <<"body", sink.batch>>[2] = sink.batch
      OBVIOUS
    <3>2. sink.batch \in {u[2] : u \in archive'[BundleKey]}
      BY <2>4, <3>1
    <3>3. \E b \in Id \X Id : \E ids \in {u[2] : u \in archive'[b]} :
             <<"body", ids>> \in archive'[b] /\ <<"manifest", ids>> \in archive'[b] /\ i \in ids
      BY <2>2, <2>4, <3>2
    <3> QED
      BY <3>3 DEF Archived, Complete
  <2>6. ASSUME site.backend = "sqlite", NEW i \in 1..m
        PROVE  Archived(i)'
    <3>1. CASE i <= sink.cursor
      <4>1. i \in 1..sink.cursor
        BY <1>2, <2>3, <3>1
      <4> QED
        BY <1>4, <1>5, <2>6, <4>1
    <3>2. CASE i > sink.cursor
      <4>1. i \in sink.batch
        BY <1>4, <2>1, <2>2, <2>6, <3>2
      <4> QED
        BY <2>5, <4>1
    <3> QED
      BY <1>2, <2>3, <3>1, <3>2
  <2> QED
    BY <1>8, <2>1, <2>2, <2>3, <2>6
<1>12. ASSUME SinkFails
       PROVE  CursorInv'
  <2>1. sink' = IdleSink(sink.cursor)
    BY <1>12 DEF SinkFails
  <2>2. site.backend = "sqlite" => \A i \in 1..sink.cursor : Archived(i)'
    BY <1>4, <1>5
  <2> QED
    BY <1>2, <1>8, <2>1, <2>2
<1>13. ASSUME Restart
       PROVE  CursorInv'
  <2>1. sink' = IdleSink(0)
    BY <1>13 DEF Restart
  <2>2. \A i \in 1..0 : Archived(i)'
    OBVIOUS
  <2> QED
    BY <1>1, <1>8, <2>1, <2>2
<1> QED
  BY Writers, <1>7, <1>9, <1>10, <1>11, <1>12, <1>13 DEF sinkVars

\* A bundle without gaps verifies on its own when the chain does.
LEMMA ConvexVerifies ==
  ASSUME TypeInv, VerifyChain, NEW ids, Convex(ids)
  PROVE  BundleVerifies(ids)
<1> DEFINE G == Hashed(ids)
           H == Hashed(Committed)
<1>1. SUFFICES ASSUME G # {}
               PROVE  Linked(G, log[Min(G)].prev)
  BY DEF BundleVerifies
<1>2. /\ Len(log) \in Nat /\ Committed \subseteq 1..Len(log)
      /\ H \subseteq 1..Len(log)
  BY TipFacts
<1>3. G \subseteq H /\ G \subseteq ids /\ ids \subseteq Committed
  BY DEF Convex, Hashed
<1>4. \A i \in H : log[i].prev = IF Before(i, H) = {} THEN 0 ELSE Max(Before(i, H))
  BY DEF VerifyChain, Linked
<1>5. G \in SUBSET Nat /\ G \in SUBSET (0..Len(log)) /\ H \in SUBSET (0..Len(log))
  BY <1>2, <1>3
<1>6. Min(G) \in G /\ \A i \in G : Min(G) <= i
  BY <1>1, <1>5, LeastId
<1>7. \A i, j \in G : \A k \in H : i < k /\ k < j => k \in G
  <2> SUFFICES ASSUME NEW i \in G, NEW j \in G, NEW k \in H, i < k, k < j PROVE k \in G
    OBVIOUS
  <2>1. k \in Committed /\ log[k].hashed
    BY DEF Hashed
  <2>2. k \in ids
    BY <1>3, <2>1 DEF Convex
  <2> QED
    BY <2>1, <2>2 DEF Hashed
<1> HIDE DEF G, H
<1>8. ASSUME NEW i \in G
      PROVE  log[i].prev = IF Before(i, G) = {} THEN log[Min(G)].prev ELSE Max(Before(i, G))
  <2>1. CASE Before(i, G) = {}
    <3>1. ~(Min(G) < i)
      BY <1>6, <2>1 DEF Before
    <3>2. i \in Nat /\ Min(G) \in Nat /\ Min(G) <= i
      BY <1>5, <1>6
    <3>3. i = Min(G)
      BY <3>1, <3>2
    <3> QED
      BY <2>1, <3>3
  <2>2. CASE Before(i, G) # {}
    <3>1. Before(i, G) \in SUBSET (0..Len(log)) /\ Before(i, H) \in SUBSET (0..Len(log))
      BY <1>5 DEF Before
    <3>2. /\ Max(Before(i, G)) \in Before(i, G)
          /\ \A j \in Before(i, G) : j <= Max(Before(i, G))
      BY <1>2, <2>2, <3>1, GreatestId
    <3> DEFINE m == Max(Before(i, G))
    <3>3. m \in G /\ m < i
      BY <3>2 DEF Before
    <3>4. m \in Before(i, H)
      BY <1>3, <3>3 DEF Before, H
    <3> HIDE DEF m
    <3>5. ASSUME NEW k \in Before(i, H)
          PROVE  k <= m
      <4>1. k \in H /\ k < i /\ k \in Nat /\ m \in Nat /\ i \in Nat
        BY <1>5, <3>3 DEF Before
      <4>2. CASE m < k
        <5>1. k \in G
          BY <1>7, <3>3, <4>1, <4>2
        <5>2. k \in Before(i, G)
          BY <4>1, <5>1 DEF Before
        <5> QED
          BY <3>2, <5>2 DEF m
      <4> QED
        BY <4>1, <4>2
    <3>6. Max(Before(i, H)) = m
      BY <1>2, <3>1, <3>4, <3>5, GreatestIs
    <3>7. log[i].prev = Max(Before(i, H))
      BY <1>3, <1>4, <3>4 DEF H, G
    <3> QED
      BY <2>2, <3>6, <3>7 DEF m
  <2> QED
    BY <2>1, <2>2
<1> QED
  BY <1>8 DEF Linked, G

\* The properties of the archive follow.
LEMMA ArchiveFollows ==
  ASSUME TypeInv, ChainInv, ArchiveInv
  PROVE  ArchiveHolds
<1>1. NothingSkipped
  BY DEF NothingSkipped, ArchiveInv, CursorInv
<1>2. BundlesVerify
  <2> SUFFICES ASSUME ~overlapped, NEW b \in Id \X Id, NEW ids \in Complete(b)
               PROVE  BundleVerifies(ids)
    BY DEF BundlesVerify
  <2>1. <<"body", ids>> \in archive[b] /\ <<"body", ids>>[2] = ids
    BY CompleteIff
  <2>2. \A u \in archive[b] : Convex(u[2])
    BY DEF ArchiveInv, BundleInv
  <2>3. Convex(<<"body", ids>>[2])
    BY <2>1, <2>2
  <2>4. Convex(ids)
    BY <2>1, <2>3
  <2>5. VerifyChain
    BY DEF ChainInv, SerialInv
  <2> QED
    BY <2>4, <2>5, ConvexVerifies
<1> QED
  BY <1>1, <1>2 DEF ArchiveHolds

\* Behind the cursor the archive has no gap under SQLite, whatever uploads and
\* restarts fail, and without overlapping appends every complete bundle verifies
\* on its own.
THEOREM ArchiveIsSound == Spec => []ArchiveHolds
<1> DEFINE Inv == TypeInv /\ ChainInv /\ ArchiveInv
<1>1. Init => Inv
  BY TypeInit, ChainInit, ArchiveInit
<1>2. Inv /\ [Next]_vars => Inv'
  BY TypeStep, ChainStep, BundleStep, CursorStep DEF ArchiveInv
<1>3. Inv => ArchiveHolds
  BY ArchiveFollows
<1> HIDE DEF Inv
<1> QED
  BY <1>1, <1>2, <1>3, PTL DEF Spec

------------------------------------------------------------------------------
(* Evidence *)

\* While an entry is missing in the archive the sink has something to do.
SinkGetsOn ==
  site.sink /\ site.backend = "sqlite" =>
    \A i \in Committed : Archived(i) \/ sink.pc # "idle" \/ NextBatch # {}

\* Evidence that was given is never taken back or rewritten.
EvidenceStays ==
  /\ \A i \in Committed : i \in Committed' /\ log'[i] = log[i]
  /\ \A h \in Hour : roots[h] # {} => roots'[h] = roots[h]
  /\ \A h \in Hour : checkpoint[h] # {} => checkpoint'[h] = checkpoint[h]
  /\ \A b \in Id \X Id : Complete(b) \subseteq Complete(b)'

\* Something behind the cursor makes a batch, be it only the oldest entry.
LEMMA SomethingToList ==
  ASSUME TypeInv, NEW i \in Committed, i > sink.cursor
  PROVE  NextBatch # {}
<1> DEFINE new == After(sink.cursor, Committed)
<1>1. \A j \in Committed : j \in Nat
  <2>1. Len(log) \in Nat /\ Committed \subseteq 1..Len(log)
    BY TipFacts
  <2> QED
    BY <2>1
<1>2. i \in new /\ new \subseteq Committed
  BY DEF After
<1>3. NextBatch = {j \in new : Cardinality(Before(j, new)) < Batch}
  BY DEF NextBatch
<1> HIDE DEF new
<1>4. new \in SUBSET Nat /\ new # {}
  BY <1>1, <1>2
<1>5. PICK m \in new : \A j \in new : m <= j
  BY <1>4, LeastId
<1>6. Before(m, new) = {}
  <2> SUFFICES ASSUME NEW j \in new, j < m PROVE FALSE
    BY DEF Before
  <2>1. j \in Nat /\ m \in Nat /\ m <= j
    BY <1>4, <1>5
  <2> QED
    BY <2>1
<1>7. Cardinality(Before(m, new)) = 0
  BY <1>6, FS_EmptySet
<1>8. 0 < Batch
  BY AuditAssumption
<1>9. m \in NextBatch
  BY <1>3, <1>7, <1>8
<1> QED
  BY <1>9

\* run_one_export_pass: as long as a committed entry is not in a bundle that has both of
\* its parts, the sink is at work or its next pass finds a batch, whatever
\* uploads and restarts failed.  Together with the ticker this is why
\* EverythingArchived.
THEOREM SinkAlwaysGetsOn == Spec => []SinkGetsOn
<1> DEFINE Inv == TypeInv /\ ChainInv /\ ArchiveInv
<1>1. Init => Inv
  BY TypeInit, ChainInit, ArchiveInit
<1>2. Inv /\ [Next]_vars => Inv'
  BY TypeStep, ChainStep, BundleStep, CursorStep DEF ArchiveInv
<1>3. Inv => SinkGetsOn
  <2> SUFFICES ASSUME TypeInv, ArchiveInv, site.backend = "sqlite",
                      NEW i \in Committed, ~Archived(i)
               PROVE  NextBatch # {}
    BY DEF SinkGetsOn
  <2>1. \A j \in 1..sink.cursor : Archived(j)
    BY DEF ArchiveInv, CursorInv
  <2>2. sink.cursor \in Nat
    BY SiteFacts DEF TypeInv, SinkType, SinkRecord
  <2>3. Len(log) \in Nat /\ i \in 1..Len(log)
    BY TipFacts
  <2>4. i > sink.cursor
    BY <2>1, <2>2, <2>3
  <2> QED
    BY <2>4, SomethingToList
<1> HIDE DEF Inv
<1> QED
  BY <1>1, <1>2, <1>3, PTL DEF Spec

\* A committed row is not written again.
LEMMA RowsStay ==
  ASSUME TypeInv, [Next]_vars, NEW i \in Committed
  PROVE  i \in Committed' /\ log'[i] = log[i]
<1>1. Len(log) \in Nat /\ i \in 1..Len(log) /\ log[i].live /\ log \in Seq(Row)
  BY TipFacts DEF TypeInv, LogType, Committed
<1>2. CASE log' = log
  BY <1>1, <1>2 DEF Committed
<1>3. ASSUME NEW a \in Appender, Insert(a)
      PROVE  i \in Committed' /\ log'[i] = log[i]
  <2>1. log'[i] = log[i] /\ Len(log') = Len(log) + 1
    BY <1>1, <1>3, InsertRow
  <2> QED
    BY <1>1, <2>1 DEF Committed
<1>4. ASSUME NEW a \in Appender, Commit(a)
      PROVE  i \in Committed' /\ log'[i] = log[i]
  <2>1. /\ Len(log') = Len(log) /\ log'[i] \in Row /\ log[i] \in Row
        /\ log'[i].hour = log[i].hour /\ log'[i].prev = log[i].prev
        /\ log'[i].hashed = log[i].hashed
        /\ log'[i].live = (i = append[a].id \/ log[i].live)
    BY <1>1, <1>4, CommitRow
  <2>2. log'[i].live = log[i].live
    BY <1>1, <2>1 DEF Row
  <2>3. log'[i] = log[i]
    BY <2>1, <2>2 DEF Row
  <2> QED
    BY <1>1, <2>1, <2>3 DEF Committed
<1>5. log' = log \/ \E a \in Appender : Insert(a) \/ Commit(a)
  BY Writers DEF logVars, Stamp, ReadTip, AppendFails, Restart
<1> QED
  BY <1>2, <1>3, <1>4, <1>5

\* Nor is a root or a checkpoint, once there is one.
LEMMA SealsStay ==
  ASSUME TypeInv, [Next]_vars, NEW h \in Hour
  PROVE  /\ roots[h] # {} => roots'[h] = roots[h]
         /\ checkpoint[h] # {} => checkpoint'[h] = checkpoint[h]
<1>1. DOMAIN roots = Hour /\ DOMAIN checkpoint = Hour
  BY DEF TypeInv, RootType
<1>2. roots' = roots \/ \E r \in Auditor : AuditStore(r)
  BY Writers DEF rootVars, AuditCached, AuditSelect, Restart
<1>3. ASSUME NEW r \in Auditor, AuditStore(r), roots[h] # {}
      PROVE  roots'[h] = roots[h]
  <2>1. PICK g \in Hour : g = audit[r].hour
    BY DEF TypeInv, RootType
  <2>2. roots' = [roots EXCEPT ![g] = IF @ = {} THEN audit[r].root ELSE @]
    BY <1>3, <2>1 DEF AuditStore
  <2> QED
    BY <1>1, <1>3, <2>2
<1>4. ASSUME NEW r \in Auditor, NEW g, NEW row, NEW claim, Answer(r, g, row, claim),
             checkpoint[h] # {}
      PROVE  checkpoint'[h] = checkpoint[h]
  BY <1>1, <1>4 DEF Answer
<1>5. \/ checkpoint' = checkpoint
      \/ \E r \in Auditor : AuditCached(r) \/ AuditStore(r)
  BY Writers DEF rootVars, AuditSelect, Restart
<1>6. ASSUME NEW r \in Auditor, AuditCached(r) \/ AuditStore(r), checkpoint[h] # {}
      PROVE  checkpoint'[h] = checkpoint[h]
  BY <1>4, <1>6 DEF AuditCached, AuditStore
<1> QED
  BY <1>2, <1>3, <1>5, <1>6

\* The audit log, the cached Merkle roots, the checkpoints and the bundles are
\* append-only whatever appends, audits, uploads and restarts interleave: what an
\* auditor has seen once is there, and the same, at every later time.
THEOREM EvidenceIsAppendOnly == Spec => [][EvidenceStays]_vars
<1>1. ASSUME TypeInv, [Next]_vars
      PROVE  EvidenceStays
  <2>1. ASSUME NEW b \in Id \X Id, NEW ids \in Complete(b)
        PROVE  ids \in Complete(b)'
    <3>1. <<"body", ids>> \in archive'[b] /\ <<"manifest", ids>> \in archive'[b]
      BY <1>1, <2>1, CompleteIff, ArchiveWrites
    <3>2. <<"body", ids>>[2] = ids
      OBVIOUS
    <3>3. ids \in {u[2] : u \in archive'[b]}
      BY <3>1, <3>2
    <3> QED
      BY <3>1, <3>3 DEF Complete
  <2> QED
    BY <1>1, <2>1, RowsStay, SealsStay DEF EvidenceStays
<1>2. TypeInv /\ [Next]_vars => [EvidenceStays]_vars
  BY <1>1
<1> QED
  BY <1>2, TypeInit, TypeStep, LogSafety, PTL DEF Spec
==============================================================================
