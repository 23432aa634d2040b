------------------------------ MODULE EdgeProofs ------------------------------
(***************************************************************************)
(* Proofs about what stands at the edge of the gateway: the replay buffers *)
(* of sessions, the limits on callers, and the decisions of policies, for  *)
(* every limit, every set of callers and every list of bundles.            *)
(***************************************************************************)
EXTENDS ControlPlane, TLAPS, FiniteSetTheorems, FunctionTheorems, WellFoundedInduction

\* A step of the whole is a step of one part; the others stand still.
LEMMA StepOfPart ==
  ASSUME [Next]_vars
  PROVE  /\ McpNext \/ UNCHANGED mcpVars
         /\ ThrottleNext \/ ProfilerNext \/ UNCHANGED limitVars
         /\ PdpNext \/ UNCHANGED answer
<1>1. CASE UNCHANGED vars
  BY <1>1 DEF vars
<1>2. CASE Next
  BY <1>2 DEF Next, MfaStep, AccessStep, AuthStep, PdpStep, PolicyStep, McpStep, LimitsStep,
              MigrationStep
<1> QED
  BY <1>1, <1>2

------------------------------------------------------------------------------
(* Induction over numbers *)

\* A set of numbers that is not empty has a least element.
LEMMA LeastNumber ==
  ASSUME NEW S \in SUBSET Nat, S # {}
  PROVE  /\ Min(S) \in S
         /\ \A i \in S : Min(S) <= i
<1> DEFINE R == OpToRel(<, Nat)
<1>1. IsWellFoundedOn(R, Nat)
  BY NatLessThanWellFounded
<1>2. R = {p \in Nat \X Nat : p[1] < p[2]}
  BY DEF OpToRel
<1> HIDE DEF R
<1>3. PICK x \in S : \A y \in S : ~(<<y, x>> \in R)
  BY <1>1, WFMin
<1>4. \A y \in S : x <= y
  <2> TAKE y \in S
  <2>1. x \in Nat /\ y \in Nat
    OBVIOUS
  <2>2. ~(y < x)
    BY <1>2, <1>3, <2>1
  <2> QED
    BY <2>1, <2>2
<1>5. \E m \in S : \A y \in S : m =< y
  BY <1>4
<1> QED
  BY <1>5 DEF Min

\* Induction over the numbers up to n, for the set of those that have a property.
LEMMA UpTo ==
  ASSUME NEW n \in Nat, NEW S, 0 \in S,
         \A i \in 1..n : i - 1 \in S => i \in S
  PROVE  0..n \subseteq S
<1> SUFFICES ASSUME (0..n) \ S # {}
             PROVE  FALSE
  OBVIOUS
<1> DEFINE T == (0..n) \ S
<1>1. T \in SUBSET Nat /\ T # {}
  OBVIOUS
<1>2. Min(T) \in T /\ \A i \in T : Min(T) <= i
  BY <1>1, LeastNumber
<1>3. PICK m \in 0..n : m \notin S /\ \A i \in T : m <= i
  BY <1>2
<1> QED
  <2>1. m # 0 /\ m \in 1..n
    BY <1>3
  <2>2. m - 1 \in 0..n
    BY <2>1
  <2>3. m - 1 \in S
    <3> SUFFICES ASSUME m - 1 \notin S PROVE FALSE
      OBVIOUS
    <3>1. m - 1 \in T
      BY <2>2
    <3>2. m <= m - 1
      BY <3>1, <1>3
    <3> QED
      BY <3>2
  <2> QED
    BY <2>1, <2>3, <1>3

\* turn[k] makes a value of S out of a value of S, for every k up to n.
StepsWithin(turn, n, S) == \A k \in 1..n : \A s \in S : turn[k][s] \in S

\* f[k] is the value after k steps from a.
Unfolds(f, a, turn, n, S) ==
  /\ f \in [0..n -> S] /\ f[0] = a
  /\ \A k \in 1..n : f[k] = turn[k][f[k - 1]]

\* A function defined by recursion up to n exists.
LEMMA Recursion ==
  ASSUME NEW n \in Nat, NEW S, NEW a \in S, NEW turn, StepsWithin(turn, n, S)
  PROVE  \E f : Unfolds(f, a, turn, n, S)
<1>0. \A k \in 1..n : \A s \in S : turn[k][s] \in S
  BY DEF StepsWithin
<1> DEFINE Runs(f, m) == /\ f \in [0..m -> S] /\ f[0] = a
                         /\ \A k \in 1..m : f[k] = turn[k][f[k - 1]]
           T == {m \in Nat : \E f : Runs(f, m)}
<1>1. 0 \in T
  <2> DEFINE f == [i \in 0..0 |-> a]
  <2>1. Runs(f, 0)
    OBVIOUS
  <2> HIDE DEF Runs, f
  <2> QED
    BY <2>1
<1>2. \A m \in 1..n : m - 1 \in T => m \in T
  <2> SUFFICES ASSUME NEW m \in 1..n, m - 1 \in T
               PROVE  m \in T
    OBVIOUS
  <2>1. PICK f : Runs(f, m - 1)
    OBVIOUS
  <2> DEFINE g == [k \in 0..m |-> IF k = m THEN turn[m][f[m - 1]] ELSE f[k]]
  <2>2. /\ f \in [0..(m - 1) -> S] /\ f[0] = a
        /\ \A k \in 1..(m - 1) : f[k] = turn[k][f[k - 1]]
    BY <2>1
  <2>3. turn[m][f[m - 1]] \in S
    <3>1. f[m - 1] \in S
      BY <2>2
    <3> QED
      BY <1>0, <3>1
  <2>4. g \in [0..m -> S]
    <3>1. \A k \in 0..m : g[k] \in S
      BY <2>2, <2>3
    <3> QED
      BY <3>1
  <2>5. g[0] = a
    BY <2>2
  <2>6. \A k \in 1..m : g[k] = turn[k][g[k - 1]]
    <3> TAKE k \in 1..m
    <3>1. CASE k = m
      <4>1. g[k] = turn[m][f[m - 1]] /\ g[k - 1] = f[m - 1]
        BY <3>1
      <4> QED
        BY <3>1, <4>1
    <3>2. CASE k # m
      <4>1. k \in 1..(m - 1) /\ g[k] = f[k] /\ g[k - 1] = f[k - 1]
        BY <3>2
      <4> QED
        BY <2>2, <4>1
    <3> QED
      BY <3>1, <3>2
  <2>7. Runs(g, m)
    BY <2>4, <2>5, <2>6
  <2> HIDE DEF Runs, g
  <2> QED
    BY <2>7
<1>3. n \in T
  <2> HIDE DEF T
  <2>1. 0..n \subseteq T
    BY <1>1, <1>2, UpTo
  <2> QED
    BY <2>1
<1>4. PICK f : Runs(f, n)
  BY <1>3
<1> QED
  BY <1>4 DEF Unfolds

------------------------------------------------------------------------------
(* Sessions *)

EventRecord == [id : Nat, size : Nat]

\* The ids and sizes of events are numbers.
LEMMA EventFields ==
  ASSUME NEW es \in Seq(EventRecord)
  PROVE  \A n \in 1..Len(es) : es[n].id \in Nat /\ es[n].size \in Nat
<1> TAKE n \in 1..Len(es)
<1>1. es[n] \in EventRecord
  OBVIOUS
<1> DEFINE e == es[n]
<1> HIDE DEF e
<1>2. e \in [id : Nat, size : Nat]
  BY <1>1 DEF e, EventRecord
<1>3. e.id \in Nat /\ e.size \in Nat
  BY <1>2
<1> QED
  BY <1>3 DEF e

\* What BytesTo computes: the sums of the sizes of the events from the oldest on.
LEMMA PrefixSums ==
  ASSUME NEW es \in Seq(EventRecord)
  PROVE  /\ BytesTo(es) \in [0..Len(es) -> Nat]
         /\ BytesTo(es)[0] = 0
         /\ \A n \in 1..Len(es) : BytesTo(es)[n] = BytesTo(es)[n - 1] + es[n].size
<1> DEFINE Sums(f, n) == /\ f \in [0..n -> Nat] /\ f[0] = 0
                         /\ \A i \in 1..n : f[i] = f[i - 1] + es[i].size
<1> DEFINE S == {n \in Nat : \E f : Sums(f, n)}
<1>0. Len(es) \in Nat
  OBVIOUS
<1>1. 0 \in S
  <2> DEFINE f == [i \in 0..0 |-> 0]
  <2>1. Sums(f, 0)
    OBVIOUS
  <2> HIDE DEF Sums, f
  <2> QED
    BY <2>1
<1>2. \A n \in 1..Len(es) : n - 1 \in S => n \in S
  <2> SUFFICES ASSUME NEW n \in 1..Len(es), n - 1 \in S
               PROVE  n \in S
    OBVIOUS
  <2>1. PICK f : Sums(f, n - 1)
    OBVIOUS
  <2> DEFINE g == [i \in 0..n |-> IF i = n THEN f[n - 1] + es[n].size ELSE f[i]]
  <2>2. es[n].size \in Nat
    BY EventFields
  <2>3. f \in [0..(n - 1) -> Nat] /\ f[0] = 0 /\ \A i \in 1..(n - 1) : f[i] = f[i - 1] + es[i].size
    BY <2>1
  <2>4. g \in [0..n -> Nat]
    <3>1. \A i \in 0..n : g[i] \in Nat
      BY <2>2, <2>3
    <3> QED
      BY <3>1
  <2>5. g[0] = 0
    BY <2>3
  <2>6. \A i \in 1..n : g[i] = g[i - 1] + es[i].size
    BY <2>3
  <2>7. Sums(g, n)
    BY <2>4, <2>5, <2>6
  <2> HIDE DEF Sums, g
  <2> QED
    BY <2>7
<1>3. Len(es) \in S
  <2> HIDE DEF S
  <2>1. 0..Len(es) \subseteq S
    BY <1>0, <1>1, <1>2, UpTo
  <2> QED
    BY <2>1, <1>0
<1>4. PICK f : Sums(f, Len(es))
  BY <1>3
<1> DEFINE Rec(h) ==
      h = [n \in 0..Len(es) |-> IF n = 0 THEN 0 ELSE h[n - 1] + es[n].size]
<1>5. Rec(f)
  BY <1>4
<1>6. BytesTo(es) = CHOOSE h : Rec(h)
  BY DEF BytesTo
<1>7. Rec(BytesTo(es))
  <2> HIDE DEF Rec
  <2> QED
    BY <1>5, <1>6
<1> DEFINE b == BytesTo(es)
<1> HIDE DEF b
<1>8. /\ DOMAIN b = 0..Len(es) /\ b[0] = 0
      /\ \A n \in 1..Len(es) : b[n] = b[n - 1] + es[n].size
      /\ b = [n \in 0..Len(es) |-> b[n]]
  <2>1. Rec(b)
    BY <1>7 DEF b
  <2> QED
    BY <2>1, <1>0
<1>9. \A n \in 0..Len(es) : b[n] \in Nat
  <2> DEFINE N == {n \in Nat : n > Len(es) \/ b[n] \in Nat}
  <2>1. 0 \in N
    BY <1>8
  <2>2. \A n \in 1..Len(es) : n - 1 \in N => n \in N
    <3> SUFFICES ASSUME NEW n \in 1..Len(es), n - 1 \in N
                 PROVE  n \in N
      OBVIOUS
    <3>1. b[n - 1] \in Nat
      BY <1>0
    <3>2. es[n].size \in Nat
      BY EventFields
    <3>3. b[n] = b[n - 1] + es[n].size
      BY <1>8
    <3>4. b[n] \in Nat /\ n \in Nat
      BY <3>1, <3>2, <3>3
    <3> QED
      BY <3>4
  <2>3. 0..Len(es) \subseteq N
    <3> HIDE DEF N
    <3> QED
      BY <1>0, <2>1, <2>2, UpTo
  <2> QED
    BY <2>3, <1>0
<1> QED
  BY <1>8, <1>9 DEF b

\* One event more.
LEMMA BytesOfAppend ==
  ASSUME NEW es \in Seq(EventRecord), NEW e \in EventRecord
  PROVE  Bytes(Append(es, e)) = Bytes(es) + e.size
<1> DEFINE more == Append(es, e)
           a == BytesTo(more)
           b == BytesTo(es)
<1>0. /\ Len(es) \in Nat /\ more \in Seq(EventRecord) /\ Len(more) = Len(es) + 1
      /\ \A i \in 1..Len(es) : more[i] = es[i]
      /\ more[Len(es) + 1] = e
  OBVIOUS
<1> HIDE DEF more
<1>1. /\ a \in [0..Len(more) -> Nat] /\ a[0] = 0
      /\ \A n \in 1..Len(more) : a[n] = a[n - 1] + more[n].size
  BY <1>0, PrefixSums
<1>2. /\ b \in [0..Len(es) -> Nat] /\ b[0] = 0
      /\ \A n \in 1..Len(es) : b[n] = b[n - 1] + es[n].size
  BY PrefixSums
<1> HIDE DEF a, b
<1> DEFINE S == {n \in 0..Len(es) : a[n] = b[n]}
<1>3. 0 \in S
  BY <1>0, <1>1, <1>2
<1>4. \A n \in 1..Len(es) : n - 1 \in S => n \in S
  <2> SUFFICES ASSUME NEW n \in 1..Len(es), n - 1 \in S
               PROVE  n \in S
    OBVIOUS
  <2>1. a[n - 1] = b[n - 1]
    OBVIOUS
  <2>2. b[n] = b[n - 1] + es[n].size
    BY <1>2
  <2>3. n \in 1..Len(more) /\ more[n] = es[n]
    <3> HIDE DEF S
    <3>1. more[n] = es[n]
      BY <1>0
    <3>2. n \in 1..(Len(es) + 1)
      BY <1>0
    <3> QED
      BY <1>0, <3>1, <3>2
  <2>4. a[n] = a[n - 1] + more[n].size
    BY <1>1, <2>3
  <2>5. a[n] = b[n] /\ n \in 0..Len(es)
    BY <1>0, <2>1, <2>2, <2>3, <2>4
  <2> QED
    BY <2>5
<1>5. Len(es) \in S
  <2> HIDE DEF S
  <2>1. 0..Len(es) \subseteq S
    BY <1>0, <1>3, <1>4, UpTo
  <2> QED
    BY <2>1, <1>0
<1>6. a[Len(more)] = b[Len(es)] + e.size
  <2>1. Len(more) \in 1..Len(more) /\ Len(more) - 1 = Len(es)
    BY <1>0
  <2> QED
    BY <2>1, <1>0, <1>1, <1>5
<1> QED
  BY <1>6 DEF Bytes, a, b, more

\* The oldest events and the rest make up the whole.
LEMMA BytesOfRest ==
  ASSUME NEW es \in Seq(EventRecord), NEW n \in 0..Len(es)
  PROVE  /\ BytesTo(es)[n] \in Nat
         /\ Bytes(SubSeq(es, n + 1, Len(es))) \in Nat
         /\ Bytes(es) = BytesTo(es)[n] + Bytes(SubSeq(es, n + 1, Len(es)))
<1> DEFINE rs == SubSeq(es, n + 1, Len(es))
           r == BytesTo(rs)
           b == BytesTo(es)
           k == Len(es) - n
<1>0. /\ Len(es) \in Nat /\ k \in 0..Len(es) /\ rs \in Seq(EventRecord) /\ Len(rs) = k
      /\ \A i \in 1..k : rs[i] = es[n + i]
  OBVIOUS
<1>k. n + k = Len(es)
  BY <1>0
<1> HIDE DEF rs, k
<1>1. /\ r \in [0..k -> Nat] /\ r[0] = 0
      /\ \A i \in 1..k : r[i] = r[i - 1] + rs[i].size
  BY <1>0, PrefixSums
<1>2. /\ b \in [0..Len(es) -> Nat]
      /\ \A i \in 1..Len(es) : b[i] = b[i - 1] + es[i].size
  BY PrefixSums
<1> HIDE DEF r, b
<1> DEFINE S == {i \in 0..k : b[n + i] = b[n] + r[i]}
<1>3. 0 \in S
  <2>1. n \in 0..Len(es) /\ b[n] \in Nat /\ n + 0 = n /\ 0 \in 0..k
    BY <1>0, <1>2
  <2>2. b[n + 0] = b[n] + r[0]
    BY <1>1, <2>1
  <2> QED
    BY <2>1, <2>2
<1>4. \A i \in 1..k : i - 1 \in S => i \in S
  <2> SUFFICES ASSUME NEW i \in 1..k, i - 1 \in S
               PROVE  i \in S
    OBVIOUS
  <2>1. b[n + (i - 1)] = b[n] + r[i - 1]
    OBVIOUS
  <2>2. n + i \in 1..Len(es) /\ n + i - 1 = n + (i - 1)
    BY <1>0, <1>k
  <2>3. b[n + i] = b[n + (i - 1)] + es[n + i].size
    BY <2>2, <1>2
  <2>4. r[i] = r[i - 1] + es[n + i].size
    BY <1>0, <1>1
  <2>5. es[n + i].size \in Nat /\ b[n] \in Nat /\ r[i - 1] \in Nat
    <3>1. es[n + i].size \in Nat
      BY <2>2, EventFields
    <3>2. i - 1 \in 0..k
      BY <1>0
    <3>3. b[n] \in Nat /\ r[i - 1] \in Nat
      BY <1>1, <1>2, <3>2
    <3> QED
      BY <3>1, <3>3
  <2>6. b[n + i] = b[n] + r[i]
    BY <2>1, <2>3, <2>4, <2>5
  <2> QED
    BY <2>6
<1>5. k \in S
  <2> HIDE DEF S
  <2>1. 0..k \subseteq S
    <3>1. k \in Nat
      BY <1>0
    <3> QED
      BY <3>1, <1>3, <1>4, UpTo
  <2> QED
    BY <2>1, <1>0
<1>6. b[Len(es)] = b[n] + r[k] /\ b[n] \in Nat /\ r[k] \in Nat
  <2>1. b[n] \in Nat /\ r[k] \in Nat
    <3>1. n \in 0..Len(es) /\ k \in 0..k
      BY <1>0
    <3>2. b[n] \in Nat
      BY <1>2, <3>1
    <3>3. r[k] \in Nat
      BY <1>1, <3>1
    <3> QED
      BY <3>2, <3>3
  <2>2. b[n + k] = b[n] + r[k]
    BY <1>5
  <2> QED
    BY <2>1, <2>2, <1>k
<1>7. r[k] = Bytes(rs) /\ b[Len(es)] = Bytes(es)
  BY <1>0 DEF Bytes, r, b
<1> QED
  BY <1>6, <1>7 DEF b, rs

PostRecord == [pc : {"idle", "dispatched", "push", "bound"}, id : Nat, size : Nat]

McpType ==
  /\ events \in Seq(EventRecord)
  /\ ids \in [next : Nat, first : Nat, last : Nat]
  /\ total \in Nat
  /\ post \in [Posts -> PostRecord]
  /\ pushed \subseteq Nat
  /\ reordered \in BOOLEAN

\* Ids are drawn once: what is about to be pushed was not pushed by another request.
IdsDrawn ==
  /\ 0 < ids.next
  /\ \A id \in pushed : 0 < id /\ id < ids.next
  /\ \A p \in Posts :
       post[p].pc = "push" => 0 < post[p].id /\ post[p].id < ids.next /\ post[p].id \notin pushed
  /\ \A p, q \in Posts :
       p # q /\ post[p].pc = "push" /\ post[q].pc = "push" => post[p].id # post[q].id

\* The buffer es is what was pushed from first on, in order, and ends with last.
EndsFit(es, first, last, ps) ==
  /\ \A i, j \in 1..Len(es) : i < j => es[i].id < es[j].id
  /\ \A i \in 1..Len(es) : es[i].id \in ps
  /\ Len(es) = 0 => first = 0 /\ last = 0
  /\ Len(es) > 0 =>
       /\ first = es[1].id /\ last = es[Len(es)].id
       /\ \A id \in ps : id <= last
       /\ \A id \in ps : id >= first => \E i \in 1..Len(es) : es[i].id = id

\* As long as no push overtook another the ends say what the buffer holds.
BufferInOrder == reordered = FALSE => EndsFit(events, ids.first, ids.last, pushed)

\* The counter is the size of the buffer, between push and eviction too.
TotalFits == total = Bytes(events)

LimitsKept == (\A p \in Posts : post[p].pc # "bound") => WithinLimits(Len(events), total)

McpInv == McpType /\ IdsDrawn /\ BufferInOrder /\ TotalFits /\ LimitsKept

\* The initial states.
LEMMA McpStart ==
  ASSUME McpInit
  PROVE  McpInv
<1> DEFINE em == <<>>
<1>1. em \in Seq(EventRecord) /\ Len(em) = 0
  OBVIOUS
<1>2. Bytes(em) = 0
  <2>1. BytesTo(em)[0] = 0
    BY <1>1, PrefixSums
  <2> QED
    BY <2>1, <1>1 DEF Bytes
<1>3. events = em
  BY DEF McpInit
<1> HIDE DEF em
<1>4. McpType
  <2>1. post \in [Posts -> PostRecord]
    BY DEF McpInit, NoPost, PostRecord
  <2> QED
    BY <1>1, <1>3, <2>1 DEF McpInit, McpType
<1>5. IdsDrawn
  <2>1. \A p \in Posts : post[p].pc = "idle"
    BY DEF McpInit, NoPost
  <2> QED
    BY <2>1 DEF McpInit, IdsDrawn
<1>6. BufferInOrder
  <2>1. EndsFit(em, 0, 0, pushed)
    BY <1>1 DEF EndsFit
  <2> QED
    BY <2>1, <1>3 DEF McpInit, BufferInOrder
<1>7. TotalFits
  BY <1>2, <1>3 DEF McpInit, TotalFits
<1>8. LimitsKept
  BY <1>1, <1>3, McpAssumption DEF McpInit, LimitsKept, WithinLimits
<1> QED
  BY <1>4, <1>5, <1>6, <1>7, <1>8 DEF McpInv

\* Steps that leave the buffer alone.
LEMMA OtherMcpSteps ==
  ASSUME McpInv, UNCHANGED <<events, total, pushed, reordered>>,
         \/ \E p \in Posts : Post(p)
         \/ \E p \in Posts, size \in Sizes : DrawId(p, size)
         \/ UNCHANGED <<ids, post>>
  PROVE  McpInv'
<1>0. McpType /\ IdsDrawn /\ BufferInOrder /\ TotalFits /\ LimitsKept
  BY DEF McpInv
<1>1. CASE UNCHANGED <<ids, post>>
  BY <1>0, <1>1
     DEF McpInv, McpType, IdsDrawn, BufferInOrder, TotalFits, LimitsKept
<1>2. ASSUME NEW p \in Posts, Post(p)
      PROVE  McpInv'
  <2>1. UNCHANGED ids /\ post[p].pc = "idle" /\ post' = [post EXCEPT ![p].pc = "dispatched"]
    BY <1>2 DEF Post
  <2>2. post' \in [Posts -> PostRecord] /\ post'[p].pc = "dispatched"
        /\ \A q \in Posts : q # p => post'[q] = post[q]
    BY <1>0, <2>1 DEF McpType, PostRecord
  <2>3. McpType'
    BY <1>0, <2>1, <2>2 DEF McpType
  <2>4. IdsDrawn'
    <3>1. \A q \in Posts : post'[q].pc = "push" => q # p /\ post'[q] = post[q]
      BY <2>2
    <3> QED
      BY <1>0, <2>1, <3>1 DEF IdsDrawn
  <2>5. BufferInOrder' /\ TotalFits'
    BY <1>0, <2>1 DEF BufferInOrder, TotalFits
  <2>6. LimitsKept'
    <3>1. (\A q \in Posts : post'[q].pc # "bound") => \A q \in Posts : post[q].pc # "bound"
      BY <2>1, <2>2
    <3> QED
      BY <1>0, <3>1 DEF LimitsKept
  <2> QED
    BY <2>3, <2>4, <2>5, <2>6 DEF McpInv
<1>3. ASSUME NEW p \in Posts, NEW size \in Sizes, DrawId(p, size)
      PROVE  McpInv'
  <2>0. size \in Nat
    BY McpAssumption
  <2>1. post[p].pc = "dispatched"
    BY <1>3 DEF DrawId
  <2>2. PICK r \in PostRecord :
          /\ post' = [post EXCEPT ![p] = r]
          /\ \/ r.pc = "idle" /\ UNCHANGED ids
             \/ r.pc = "push" /\ r.id = ids.next /\ ids' = [ids EXCEPT !.next = @ + 1]
    <3>1. NoPost \in PostRecord /\ NoPost.pc = "idle"
      BY DEF NoPost, PostRecord
    <3> DEFINE d == [pc |-> "push", id |-> ids.next, size |-> size]
    <3>2. d \in PostRecord /\ d.pc = "push" /\ d.id = ids.next
      BY <1>0, <2>0 DEF McpType, PostRecord
    <3>3. \/ post' = [post EXCEPT ![p] = NoPost] /\ UNCHANGED ids
          \/ post' = [post EXCEPT ![p] = d] /\ ids' = [ids EXCEPT !.next = @ + 1]
      BY <1>3 DEF DrawId
    <3> HIDE DEF d
    <3> QED
      BY <3>1, <3>2, <3>3
  <2>3. /\ post' \in [Posts -> PostRecord] /\ post'[p] = r
        /\ \A q \in Posts : q # p => post'[q] = post[q]
    BY <1>0, <2>2 DEF McpType
  <2>4. /\ ids' \in [next : Nat, first : Nat, last : Nat]
        /\ ids'.first = ids.first /\ ids'.last = ids.last
        /\ ids.next \in Nat /\ ids'.next \in Nat
        /\ ids'.next >= ids.next
        /\ r.pc = "push" => r.id = ids.next /\ ids'.next = ids.next + 1
    BY <1>0, <2>2 DEF McpType
  <2>5. McpType'
    BY <1>0, <2>3, <2>4 DEF McpType
  <2>6. IdsDrawn'
    <3>1. 0 < ids'.next /\ \A id \in pushed : id \in Nat /\ 0 < id /\ id < ids'.next
      BY <1>0, <2>4 DEF IdsDrawn, McpType
    <3>2. ASSUME NEW q \in Posts, post'[q].pc = "push"
          PROVE  0 < post'[q].id /\ post'[q].id < ids'.next /\ post'[q].id \notin pushed
      <4>1. CASE q = p
        <5>1. post'[q].id = ids.next /\ ids'.next = ids.next + 1
          BY <3>2, <4>1, <2>3, <2>4
        <5>2. ids.next \notin pushed
          BY <1>0, <2>4 DEF IdsDrawn, McpType
        <5> QED
          BY <5>1, <5>2, <1>0, <2>4 DEF IdsDrawn
      <4>2. CASE q # p
        <5>1. post'[q] = post[q] /\ post[q].id \in Nat
          BY <4>2, <2>3, <1>0 DEF McpType, PostRecord
        <5>2. 0 < post[q].id /\ post[q].id < ids.next /\ post[q].id \notin pushed
          BY <5>1, <3>2, <1>0 DEF IdsDrawn
        <5> QED
          BY <5>1, <5>2, <2>4
      <4> QED
        BY <4>1, <4>2
    <3>3. ASSUME NEW q \in Posts, NEW s \in Posts, q # s, post'[q].pc = "push", post'[s].pc = "push"
          PROVE  post'[q].id # post'[s].id
      <4>1. \A t \in Posts : t # p /\ post'[t].pc = "push" =>
              post'[t].id \in Nat /\ post'[t].id < ids.next
        BY <2>3, <1>0 DEF McpType, PostRecord, IdsDrawn
      <4>2. post'[p].pc = "push" => post'[p].id = ids.next
        BY <2>3, <2>4
      <4>3. CASE q # p /\ s # p
        BY <4>3, <3>3, <2>3, <1>0 DEF IdsDrawn
      <4>4. CASE q = p
        BY <4>1, <4>2, <4>4, <3>3, <2>4
      <4>5. CASE s = p
        BY <4>1, <4>2, <4>5, <3>3, <2>4
      <4> QED
        BY <4>3, <4>4, <4>5
    <3> QED
      BY <3>1, <3>2, <3>3 DEF IdsDrawn
  <2>7. BufferInOrder' /\ TotalFits'
    BY <1>0, <2>4 DEF BufferInOrder, TotalFits
  <2>8. LimitsKept'
    <3>1. (\A q \in Posts : post'[q].pc # "bound") => \A q \in Posts : post[q].pc # "bound"
      BY <2>1, <2>3
    <3> QED
      BY <1>0, <3>1 DEF LimitsKept
  <2> QED
    BY <2>5, <2>6, <2>7, <2>8 DEF McpInv
<1> QED
  BY <1>1, <1>2, <1>3

\* A push: the counter grows with the buffer, and an id that no later one preceded
\* extends what the buffer holds without a break.
LEMMA PushStep ==
  ASSUME McpInv, NEW p \in Posts, Push(p)
  PROVE  McpInv'
<1>0. McpType /\ IdsDrawn /\ BufferInOrder /\ TotalFits
  BY DEF McpInv
<1>1. PICK e \in EventRecord : e = [id |-> post[p].id, size |-> post[p].size]
  BY <1>0 DEF McpType, PostRecord, EventRecord
<1>2. /\ post[p].pc = "push" /\ e.id = post[p].id /\ e.size = post[p].size
      /\ events' = Append(events, e) /\ total' = total + e.size
      /\ ids' = [ids EXCEPT !.first = IF @ = 0 THEN e.id ELSE @, !.last = e.id]
      /\ pushed' = pushed \cup {e.id}
      /\ reordered' = (reordered \/ \E later \in pushed : later > e.id)
      /\ post' = [post EXCEPT ![p].pc = "bound"]
  BY <1>1 DEF Push
<1>3. e.id \in Nat /\ e.size \in Nat
  BY DEF EventRecord
<1>4. 0 < e.id /\ e.id < ids.next /\ e.id \notin pushed
  BY <1>0, <1>2 DEF IdsDrawn
<1>5. /\ ids' \in [next : Nat, first : Nat, last : Nat]
      /\ ids'.next = ids.next /\ ids'.last = e.id
      /\ ids'.first = IF ids.first = 0 THEN e.id ELSE ids.first
  BY <1>0, <1>2, <1>3 DEF McpType
<1>6. /\ post' \in [Posts -> PostRecord] /\ post'[p].pc = "bound"
      /\ \A q \in Posts : q # p => post'[q] = post[q]
  BY <1>0, <1>2 DEF McpType, PostRecord
<1>7. McpType'
  <2>1. events' \in Seq(EventRecord)
    BY <1>0, <1>2 DEF McpType
  <2>2. total' \in Nat
    BY <1>0, <1>2, <1>3 DEF McpType
  <2>3. pushed' \subseteq Nat
    BY <1>0, <1>2, <1>3 DEF McpType
  <2>4. reordered' \in BOOLEAN
    BY <1>2
  <2> QED
    BY <1>5, <1>6, <2>1, <2>2, <2>3, <2>4 DEF McpType
<1>8. IdsDrawn'
  <2>1. \A q \in Posts : post'[q].pc = "push" =>
          q # p /\ post'[q] = post[q] /\ post[q].id # e.id
    BY <1>0, <1>2, <1>6 DEF IdsDrawn
  <2>2. \A id \in pushed' : 0 < id /\ id < ids'.next
    BY <1>0, <1>2, <1>4, <1>5 DEF IdsDrawn
  <2>3. \A q \in Posts : post'[q].pc = "push" =>
          0 < post'[q].id /\ post'[q].id < ids'.next /\ post'[q].id \notin pushed'
    BY <1>0, <1>2, <1>5, <2>1 DEF IdsDrawn
  <2>4. \A q, s \in Posts :
          q # s /\ post'[q].pc = "push" /\ post'[s].pc = "push" => post'[q].id # post'[s].id
    BY <1>0, <2>1 DEF IdsDrawn
  <2>5. 0 < ids'.next
    BY <1>0, <1>5 DEF IdsDrawn
  <2> QED
    BY <2>2, <2>3, <2>4, <2>5 DEF IdsDrawn
<1>9. BufferInOrder'
  <2> SUFFICES ASSUME reordered' = FALSE
               PROVE  EndsFit(events', ids'.first, ids'.last, pushed')
    BY DEF BufferInOrder
  <2>1. reordered = FALSE /\ \A id \in pushed : ~(id > e.id)
    BY <1>0, <1>2 DEF McpType
  <2>2. \A id \in pushed : id \in Nat /\ id < e.id
    BY <1>0, <1>3, <1>4, <2>1 DEF McpType
  <2>3. EndsFit(events, ids.first, ids.last, pushed)
    BY <1>0, <2>1 DEF BufferInOrder
  <2> DEFINE n == Len(events)
  <2>4. /\ n \in Nat /\ Len(events') = n + 1
        /\ \A i \in 1..n : events'[i] = events[i]
        /\ events'[n + 1] = e
    BY <1>0, <1>2 DEF McpType
  <2>5. \A i \in 1..n : events[i].id \in pushed /\ events[i].id < e.id
    BY <2>2, <2>3 DEF EndsFit
  <2>6. \A i, j \in 1..n : i < j => events[i].id < events[j].id
    BY <2>3 DEF EndsFit
  <2> HIDE DEF n
  <2>7. \A i, j \in 1..(n + 1) : i < j => events'[i].id < events'[j].id
    <3> SUFFICES ASSUME NEW i \in 1..(n + 1), NEW j \in 1..(n + 1), i < j
                 PROVE  events'[i].id < events'[j].id
      OBVIOUS
    <3>1. i \in 1..n /\ (j \in 1..n \/ j = n + 1)
      BY <2>4
    <3>2. CASE j \in 1..n
      BY <2>4, <2>6, <3>1, <3>2
    <3>3. CASE j = n + 1
      BY <2>4, <2>5, <3>1, <3>3
    <3> QED
      BY <3>1, <3>2, <3>3
  <2>8. \A i \in 1..(n + 1) : events'[i].id \in pushed'
    <3> SUFFICES ASSUME NEW i \in 1..(n + 1)
                 PROVE  events'[i].id \in pushed'
      OBVIOUS
    <3>1. i \in 1..n \/ i = n + 1
      BY <2>4
    <3> QED
      BY <2>4, <2>5, <3>1, <1>2
  <2>9. ids'.first = events'[1].id
    <3>1. CASE n = 0
      <4>1. ids.first = 0
        BY <2>3, <3>1 DEF EndsFit, n
      <4> QED
        BY <2>4, <3>1, <4>1, <1>5
    <3>2. CASE n > 0
      <4>1. ids.first = events[1].id
        BY <2>3, <3>2 DEF EndsFit, n
      <4>2. 1 \in 1..n
        BY <2>4, <3>2
      <4>3. events[1].id \in pushed
        BY <2>5, <4>2
      <4>4. events[1].id # 0
        BY <1>0, <4>3, <2>2 DEF IdsDrawn
      <4> QED
        BY <2>4, <4>1, <4>2, <4>4, <1>5
    <3> QED
      BY <2>4, <3>1, <3>2
  <2>10. \A id \in pushed' : id <= e.id
    BY <1>2, <1>3, <2>2
  <2>11. \A id \in pushed' : id >= ids'.first => \E i \in 1..(n + 1) : events'[i].id = id
    <3> SUFFICES ASSUME NEW id \in pushed', id >= ids'.first
                 PROVE  \E i \in 1..(n + 1) : events'[i].id = id
      OBVIOUS
    <3>1. CASE id = e.id
      <4>1. n + 1 \in 1..(n + 1) /\ events'[n + 1].id = id
        BY <2>4, <3>1
      <4> QED
        BY <4>1
    <3>2. CASE id # e.id
      <4>1. id \in pushed /\ id \in Nat /\ id < e.id
        BY <1>2, <2>2, <3>2
      <4>2. n > 0
        <5> SUFFICES ASSUME n = 0 PROVE FALSE
          BY <2>4
        <5>1. ids'.first = e.id
          BY <2>4, <2>9
        <5> QED
          BY <5>1, <4>1, <1>3
      <4>3. ids'.first = ids.first
        <5>1. ids.first = events[1].id
          BY <2>3, <4>2 DEF EndsFit, n
        <5>2. 1 \in 1..n
          BY <2>4, <4>2
        <5> QED
          BY <2>4, <2>9, <5>1, <5>2
      <4>4. PICK i \in 1..n : events[i].id = id
        BY <2>3, <4>1, <4>2, <4>3 DEF EndsFit, n
      <4>5. i \in 1..(n + 1) /\ events'[i].id = id
        BY <2>4, <4>4
      <4> QED
        BY <4>5
    <3> QED
      BY <3>1, <3>2
  <2>12. ids'.last = events'[n + 1].id
    BY <1>5, <2>4
  <2>13. n + 1 > 0 /\ n + 1 # 0
    BY <2>4
  <2>14. ids'.last = e.id /\ Len(events') = n + 1
    BY <1>5, <2>4
  <2> QED
    BY <2>7, <2>8, <2>9, <2>10, <2>11, <2>12, <2>13, <2>14 DEF EndsFit
<1>10. TotalFits'
  <2>1. Bytes(Append(events, e)) = Bytes(events) + e.size
    BY <1>0, BytesOfAppend DEF McpType
  <2> QED
    BY <1>0, <1>2, <2>1 DEF TotalFits
<1>11. LimitsKept'
  BY <1>6 DEF LimitsKept
<1> QED
  BY <1>7, <1>8, <1>9, <1>10, <1>11 DEF McpInv

\* An eviction drops no more than the buffer holds, and keeps the limits.
LEMMA EvictionFits ==
  ASSUME McpType, TotalFits
  PROVE  LET n == Evicted(events, total)
             rest == SubSeq(events, n + 1, Len(events))
         IN  /\ n \in 0..Len(events)
             /\ Left(total, BytesTo(events)[n]) = Bytes(rest)
             /\ WithinLimits(Len(events) - n, Bytes(rest))
<1> DEFINE k == Len(events)
           b == BytesTo(events)
           S == {m \in 0..k : m = k \/ WithinLimits(k - m, Left(total, b[m]))}
           n == Evicted(events, total)
           rest(m) == SubSeq(events, m + 1, k)
<1>0. events \in Seq(EventRecord) /\ k \in Nat /\ total = Bytes(events)
  BY DEF McpType, TotalFits
<1>1. S \in SUBSET Nat /\ k \in S
  BY <1>0
<1>2. Min(S) \in S
  <2> HIDE DEF S
  <2> QED
    BY <1>1, LeastNumber
<1>3. n = Min(S)
  BY DEF Evicted
<1> HIDE DEF n
<1>4. n \in 0..k /\ (n = k \/ WithinLimits(k - n, Left(total, b[n])))
  BY <1>2, <1>3
<1>5. b[n] \in Nat /\ Bytes(rest(n)) \in Nat /\ Bytes(events) = b[n] + Bytes(rest(n))
  BY <1>0, <1>4, BytesOfRest
<1>6. Left(total, b[n]) = Bytes(rest(n))
  <2> HIDE DEF b, rest
  <2> QED
    BY <1>0, <1>5 DEF Left
<1>7. WithinLimits(k - n, Bytes(rest(n)))
  <2>1. CASE n = k
    <3>1. BytesTo(events)[k] = Bytes(events)
      BY DEF Bytes
    <3>2. Bytes(rest(n)) = 0
      <4> HIDE DEF rest
      <4> QED
        BY <3>1, <2>1, <1>5
    <3>3. k - n = 0
      BY <1>0, <2>1
    <3> HIDE DEF k, rest
    <3> QED
      BY <3>2, <3>3, McpAssumption DEF WithinLimits
  <2>2. CASE WithinLimits(k - n, Left(total, b[n]))
    BY <2>2, <1>6
  <2> QED
    BY <1>4, <2>1, <2>2
<1> QED
  BY <1>4, <1>6, <1>7 DEF n

\* An eviction: what is left is what was pushed from the new first event on.
LEMMA EvictStep ==
  ASSUME McpInv, NEW p \in Posts, EnforceBounds(p)
  PROVE  McpInv'
<1>0. McpType /\ IdsDrawn /\ BufferInOrder /\ TotalFits
  BY DEF McpInv
<1>1. PICK n : n = Evicted(events, total)
  OBVIOUS
<1> DEFINE k == Len(events)
<1>2. /\ n \in 0..k /\ k \in Nat
      /\ Left(total, BytesTo(events)[n]) = Bytes(SubSeq(events, n + 1, k))
      /\ WithinLimits(k - n, Bytes(SubSeq(events, n + 1, k)))
  BY <1>0, <1>1, EvictionFits DEF McpType
<1>3. /\ events' = SubSeq(events, n + 1, k)
      /\ total' = Left(total, BytesTo(events)[n])
      /\ ids' = EndsAfter(n)
      /\ post' = [post EXCEPT ![p] = NoPost]
      /\ pushed' = pushed /\ reordered' = reordered
  BY <1>1 DEF EnforceBounds
<1>4. /\ events' \in Seq(EventRecord) /\ Len(events') = k - n
      /\ \A i \in 1..(k - n) : events'[i] = events[n + i]
  BY <1>0, <1>2, <1>3 DEF McpType
<1>5. /\ post' \in [Posts -> PostRecord] /\ post'[p].pc = "idle"
      /\ \A q \in Posts : q # p => post'[q] = post[q]
  <2>1. NoPost \in PostRecord /\ NoPost.pc = "idle"
    BY DEF NoPost, PostRecord
  <2> QED
    BY <1>0, <1>3, <2>1 DEF McpType
<1>6. /\ ids' \in [next : Nat, first : Nat, last : Nat] /\ ids'.next = ids.next
      /\ n = 0 => ids' = ids
      /\ n > 0 /\ n < k => ids'.first = events[n + 1].id /\ ids'.last = ids.last
      /\ n > 0 /\ n = k => ids'.first = 0 /\ ids'.last = 0
  <2>1. ids \in [next : Nat, first : Nat, last : Nat]
    BY <1>0 DEF McpType
  <2>2. CASE n = 0
    BY <2>1, <2>2, <1>3 DEF EndsAfter
  <2>3. CASE n > 0 /\ n < k
    <3>1. events[n + 1].id \in Nat
      <4>1. n + 1 \in 1..k
        BY <1>2, <2>3
      <4> QED
        BY <4>1, <1>0, EventFields DEF McpType
    <3>2. ids' = [ids EXCEPT !.first = events[n + 1].id]
      BY <1>2, <1>3, <2>3 DEF EndsAfter
    <3> HIDE DEF k
    <3> QED
      BY <2>1, <2>3, <1>2, <3>1, <3>2
  <2>4. CASE n > 0 /\ n = k
    <3>1. ids' = [ids EXCEPT !.first = 0, !.last = 0]
      BY <1>2, <1>3, <2>4 DEF EndsAfter
    <3> HIDE DEF k
    <3>2. n # 0 /\ ~(n < k)
      BY <1>2, <2>4
    <3>3. /\ ids' \in [next : Nat, first : Nat, last : Nat] /\ ids'.next = ids.next
          /\ ids'.first = 0 /\ ids'.last = 0
      BY <2>1, <3>1
    <3> QED
      BY <3>2, <3>3
  <2> QED
    BY <1>2, <2>2, <2>3, <2>4
<1> HIDE DEF k
<1>7. McpType'
  <2>1. total' \in Nat
    <3>1. Bytes(SubSeq(events, n + 1, k)) \in Nat
      BY <1>0, <1>2, BytesOfRest DEF McpType, k
    <3> QED
      BY <3>1, <1>2, <1>3
  <2> QED
    BY <1>0, <1>3, <1>4, <1>5, <1>6, <2>1 DEF McpType
<1>8. IdsDrawn'
  <2>1. \A q \in Posts : post'[q].pc = "push" => post'[q] = post[q]
    BY <1>5
  <2> QED
    BY <1>0, <1>3, <1>6, <2>1 DEF IdsDrawn
<1>9. BufferInOrder'
  <2> SUFFICES ASSUME reordered = FALSE
               PROVE  EndsFit(events', ids'.first, ids'.last, pushed)
    BY <1>3 DEF BufferInOrder
  <2>1. EndsFit(events, ids.first, ids.last, pushed)
    BY <1>0 DEF BufferInOrder
  <2>2. /\ \A i, j \in 1..k : i < j => events[i].id < events[j].id
        /\ \A i \in 1..k : events[i].id \in pushed
        /\ k = 0 => ids.first = 0 /\ ids.last = 0
        /\ k > 0 =>
             /\ ids.first = events[1].id /\ ids.last = events[k].id
             /\ \A id \in pushed : id <= ids.last
             /\ \A id \in pushed : id >= ids.first => \E i \in 1..k : events[i].id = id
    BY <2>1 DEF EndsFit, k
  <2> DEFINE r == k - n
  <2>3. /\ r \in Nat /\ n \in Nat /\ r <= k /\ n + r = k
        /\ \A i \in 1..r : n + i \in 1..k
    BY <1>2
  <2>4. Len(events') = r /\ \A i \in 1..r : events'[i] = events[n + i]
    BY <1>4
  <2> HIDE DEF r
  <2>5. \A i, j \in 1..r : i < j => events'[i].id < events'[j].id
    <3> SUFFICES ASSUME NEW i \in 1..r, NEW j \in 1..r, i < j
                 PROVE  events'[i].id < events'[j].id
      OBVIOUS
    <3>1. n + i \in 1..k /\ n + j \in 1..k /\ n + i < n + j
      BY <2>3
    <3> QED
      BY <2>2, <2>4, <3>1
  <2>6. \A i \in 1..r : events'[i].id \in pushed
    BY <2>2, <2>3, <2>4
  <2>7. r = 0 => ids'.first = 0 /\ ids'.last = 0
    <3>1. CASE n = 0
      BY <3>1, <1>6, <2>2, <2>3
    <3>2. CASE n > 0
      BY <3>2, <1>6, <2>3
    <3> QED
      BY <2>3, <3>1, <3>2
  <2>8. ASSUME r > 0
        PROVE  /\ ids'.first = events'[1].id /\ ids'.last = events'[r].id
               /\ \A id \in pushed : id <= ids'.last
               /\ \A id \in pushed : id >= ids'.first => \E i \in 1..r : events'[i].id = id
    <3>1. k > 0 /\ 1 \in 1..r /\ r \in 1..r /\ n < k
      BY <2>3, <2>8
    <3>2. events'[1] = events[n + 1] /\ events'[r] = events[k]
      BY <2>3, <2>4, <3>1
    <3>3. ids'.first = events[n + 1].id /\ ids'.last = ids.last
      <4>1. CASE n = 0
        BY <4>1, <1>6, <2>2, <3>1
      <4>2. CASE n > 0
        BY <4>2, <1>6, <3>1
      <4> QED
        BY <2>3, <4>1, <4>2
    <3>4. ids.last = events[k].id /\ \A id \in pushed : id <= ids.last
      BY <2>2, <3>1
    <3>5. ASSUME NEW id \in pushed, id >= ids'.first
          PROVE  \E i \in 1..r : events'[i].id = id
      <4>1. \A i \in 1..k : events[i].id \in Nat
        BY <1>0, EventFields DEF McpType, k
      <4>2. n + 1 \in 1..k /\ 1 \in 1..k
        BY <2>3, <3>1
      <4>3. events[1].id <= events[n + 1].id
        <5>1. CASE n = 0
          BY <5>1, <4>1, <4>2
        <5>2. CASE n > 0
          BY <5>2, <4>1, <4>2, <2>2, <2>3
        <5> QED
          BY <2>3, <5>1, <5>2
      <4>4. id \in Nat /\ ids.first = events[1].id
        BY <1>0, <2>2, <3>1 DEF McpType
      <4>5. id >= ids.first
        BY <4>1, <4>2, <4>3, <4>4, <3>3, <3>5
      <4>6. PICK j \in 1..k : events[j].id = id
        BY <2>2, <3>1, <4>5
      <4>7. ~(j < n + 1)
        <5> SUFFICES ASSUME j < n + 1 PROVE FALSE
          OBVIOUS
        <5>1. events[j].id < events[n + 1].id
          BY <2>2, <4>2
        <5> QED
          BY <5>1, <4>1, <4>2, <4>4, <4>6, <3>3, <3>5
      <4>8. j - n \in 1..r /\ n + (j - n) = j
        BY <2>3, <4>7
      <4>9. events'[j - n].id = id
        BY <2>4, <4>6, <4>8
      <4> QED
        BY <4>8, <4>9
    <3> QED
      BY <3>2, <3>3, <3>4, <3>5
  <2> QED
    BY <2>4, <2>5, <2>6, <2>7, <2>8 DEF EndsFit
<1>10. TotalFits'
  BY <1>2, <1>3 DEF TotalFits
<1>11. LimitsKept'
  BY <1>2, <1>3, <1>4 DEF LimitsKept
<1> QED
  BY <1>7, <1>8, <1>9, <1>10, <1>11 DEF McpInv

\* Every step of a session keeps the invariant.
LEMMA McpStepInv ==
  ASSUME McpInv, McpNext \/ UNCHANGED mcpVars
  PROVE  McpInv'
<1>1. CASE UNCHANGED mcpVars
  BY <1>1, OtherMcpSteps DEF mcpVars
<1>2. ASSUME NEW p \in Posts, Post(p) PROVE McpInv'
  BY <1>2, OtherMcpSteps DEF Post
<1>3. ASSUME NEW p \in Posts, NEW size \in Sizes, DrawId(p, size) PROVE McpInv'
  <2>1. UNCHANGED <<events, total, pushed, reordered>>
    BY <1>3 DEF DrawId
  <2> QED
    BY <1>3, <2>1, OtherMcpSteps
<1>4. ASSUME NEW p \in Posts, Push(p) PROVE McpInv'
  BY <1>4, PushStep
<1>5. ASSUME NEW p \in Posts, EnforceBounds(p) PROVE McpInv'
  BY <1>5, EvictStep
<1>6. CASE Get \/ Delete \/ CleanupExpired \/ TickSession
  BY <1>6, OtherMcpSteps DEF Get, Delete, CleanupExpired, TickSession
<1> QED
  BY <1>1, <1>2, <1>3, <1>4, <1>5, <1>6 DEF McpNext

\* What the ends of the buffer say is enough for a client that reconnects.
LEMMA ReplayFollows ==
  ASSUME McpInv
  PROVE  BufferHolds
<1>0. McpType /\ IdsDrawn /\ BufferInOrder /\ TotalFits /\ LimitsKept
  BY DEF McpInv
<1>1. BufferWithinLimits
  BY <1>0 DEF LimitsKept, TotalFits, BufferWithinLimits
<1>2. ReplayIsComplete
  <2> SUFFICES ASSUME reordered = FALSE, NEW last \in pushed, ~Stale(last)
               PROVE  Replay(last) = {id \in pushed : id > last}
    BY <1>0 DEF ReplayIsComplete, McpType
  <2>1. EndsFit(events, ids.first, ids.last, pushed)
    BY <1>0 DEF BufferInOrder
  <2>2. last \in Nat /\ 0 < last /\ ids.first \in Nat
    BY <1>0 DEF McpType, IdsDrawn
  <2>3. ids.last # 0 /\ ~(ids.first > 0 /\ last + 1 < ids.first)
    BY <2>2 DEF Stale
  <2> DEFINE k == Len(events)
  <2>4. k \in Nat /\ DOMAIN events = 1..k
    BY <1>0 DEF McpType
  <2>5. k > 0
    BY <2>1, <2>3, <2>4 DEF EndsFit
  <2>6. ASSUME NEW id \in pushed, id > last
        PROVE  \E i \in 1..k : events[i].id = id
    <3>1. id >= ids.first
      BY <1>0, <2>2, <2>3, <2>6 DEF McpType
    <3> QED
      BY <2>1, <2>5, <3>1 DEF EndsFit
  <2>7. \A i \in 1..k : events[i].id \in pushed
    BY <2>1 DEF EndsFit
  <2> HIDE DEF k
  <2>8. ASSUME NEW x \in Replay(last)
        PROVE  x \in pushed /\ x > last
    BY <2>4, <2>7, <2>8 DEF Replay
  <2>9. ASSUME NEW x \in pushed, x > last
        PROVE  x \in Replay(last)
    <3>1. PICK i \in 1..k : events[i].id = x
      BY <2>6, <2>9
    <3> QED
      BY <3>1, <2>4, <2>9 DEF Replay
  <2> QED
    BY <2>8, <2>9
<1> QED
  BY <1>1, <1>2 DEF BufferHolds

\* For any number of concurrent requests, any sizes and any limits: a client that
\* reconnects misses no event without being told so, unless a push overtook another,
\* and the byte counter is the size of the buffer, which keeps its limits whenever no
\* request is between push and eviction (append_event, enforce_bounds, events_after).
THEOREM ReplaysAreComplete == Spec => []BufferHolds
<1>1. Init => McpInv
  BY McpStart DEF Init
<1>2. McpInv /\ [Next]_vars => McpInv'
  BY McpStepInv, StepOfPart
<1>3. McpInv => BufferHolds
  BY ReplayFollows
<1> QED
  BY <1>1, <1>2, <1>3, PTL DEF Spec

------------------------------------------------------------------------------
(* Token buckets *)

BucketRecord == [tokens : Nat, checked : Nat]
Entry == [who : Principals, at : Nat]

ThrottleType ==
  /\ tick \in Nat /\ burst \in Nat
  /\ buckets \in [DOMAIN buckets -> BucketRecord]
  /\ \A p \in DOMAIN buckets : buckets[p].tokens <= burst
  /\ forgotten \in [DOMAIN forgotten -> Nat]
  /\ passed \in Seq(Entry)
  /\ \A e \in slips : e.after \in 0..Len(passed)

\* What p has and when it was last looked at; a forgotten bucket counts as full.
Purse(p) ==
  IF p \in DOMAIN buckets THEN buckets[p]
  ELSE [tokens |-> burst, checked |-> Bound(forgotten, p, 0)]

\* The requests of p among ps from the i-th on.
Since(p, i, ps) == {k \in i..Len(ps) : ps[k].who = p}

Excuses(e) == e.cause = "early" => Rate * IdleTimeout < burst

SlippedSince(p, i) == \E e \in slips : e.who = p /\ i <= e.after /\ Excuses(e)

\* From the request at time s on, n requests and the tokens left are within the burst and
\* the refill up to the last look.
PaidFor(n, s, purse) ==
  s <= purse.checked /\ n + purse.tokens <= burst + (purse.checked - s) * Rate

\* A request that passed was paid for: from any request on, what p got through and what
\* it had left when it was last looked at is within the burst and the refill up to then,
\* unless there was a slip.
RateKept ==
  \A i \in 1..Len(passed), p \in Principals : passed[i].who = p =>
    \/ SlippedSince(p, i)
    \/ PaidFor(Cardinality(Since(p, i, passed)), passed[i].at, Purse(p))

ThrottleInv == ThrottleType /\ RateKept /\ NeverOverRate

\* The lesser of two numbers.
LEMMA MinOfTwo ==
  ASSUME NEW a \in Nat, NEW b \in Nat
  PROVE  Min({a, b}) = IF a <= b THEN a ELSE b
<1> DEFINE S == {a, b}
<1>1. S \in SUBSET Nat /\ S # {}
  OBVIOUS
<1>2. Min(S) \in S /\ \A i \in S : Min(S) <= i
  <2> HIDE DEF S
  <2> QED
    BY <1>1, LeastNumber
<1>3. (Min(S) = a \/ Min(S) = b) /\ Min(S) <= a /\ Min(S) <= b
  BY <1>2
<1> HIDE DEF S
<1>4. Min(S) = IF a <= b THEN a ELSE b
  BY <1>3
<1> QED
  BY <1>4 DEF S

\* A number or zero, whichever is greater.
LEMMA MaxOfZero ==
  ASSUME NEW a \in Int
  PROVE  Max({a, 0}) = IF a >= 0 THEN a ELSE 0
<1> DEFINE S == {a, 0}
<1>1. \E x \in S : \A y \in S : x >= y
  <2>1. CASE a >= 0
    BY <2>1
  <2>2. CASE ~(a >= 0)
    BY <2>2
  <2> QED
    BY <2>1, <2>2
<1> DEFINE m == CHOOSE x \in S : \A y \in S : x >= y
<1>2. m \in S /\ \A y \in S : m >= y
  <2> HIDE DEF S
  <2> QED
    BY <1>1
<1>3. Max(S) = m
  BY DEF Max
<1> HIDE DEF m
<1>4. (m = a \/ m = 0) /\ m >= a /\ m >= 0
  BY <1>2
<1> QED
  BY <1>3, <1>4

\* The facts about products that the argument needs.
LEMMA Products ==
  ASSUME NEW a \in Nat
  PROVE  /\ a * Rate \in Nat
         /\ \A d \in Nat : d * Rate \in Nat /\ (a + d) * Rate = a * Rate + d * Rate
         /\ \A b \in Nat : a <= b => a * Rate <= b * Rate
<1>1. Rate \in Nat
  BY LimitsAssumption
<1>2. \A d \in Nat : d * Rate \in Nat /\ (a + d) * Rate = a * Rate + d * Rate
  BY <1>1
<1>3. ASSUME NEW b \in Nat, a <= b
      PROVE  a * Rate <= b * Rate
  <2>1. PICK d \in Nat : b = a + d
    <3>1. b - a \in Nat /\ b = a + (b - a)
      BY <1>3
    <3> QED
      BY <3>1
  <2>2. d * Rate \in Nat /\ a * Rate \in Nat /\ b * Rate = a * Rate + d * Rate
    BY <1>2, <2>1
  <2> QED
    BY <2>2
<1> QED
  BY <1>1, <1>2, <1>3

\* What was within its means stays so as long as it grows by no more than the refill.
LEMMA PaidOn ==
  ASSUME NEW b \in Nat, NEW s \in Nat, NEW c \in Nat, NEW d \in Nat, s <= c, c <= d,
         NEW n \in Nat, NEW t \in Nat, NEW m \in Nat, NEW u \in Nat,
         n + t <= b + (c - s) * Rate,
         m + u <= n + t + (d - c) * Rate
  PROVE  m + u <= b + (d - s) * Rate
<1>1. PICK x \in Nat, y \in Nat : x = c - s /\ y = d - c
  <2>1. c - s \in Nat /\ d - c \in Nat
    OBVIOUS
  <2> QED
    BY <2>1
<1>2. d - s = x + y
  BY <1>1
<1>3. x * Rate \in Nat /\ y * Rate \in Nat /\ (x + y) * Rate = x * Rate + y * Rate
  BY <1>1, Products
<1>4. PICK v \in Nat, w \in Nat : v = x * Rate /\ w = y * Rate /\ (x + y) * Rate = v + w
  BY <1>3
<1>5. n + t <= b + v /\ m + u <= n + t + w
  BY <1>1, <1>4
<1>6. m + u <= b + (v + w)
  BY <1>5
<1> QED
  BY <1>2, <1>4, <1>6

\* Refilling a bucket gives it the time between, and no more than the burst.
LEMMA RefillFacts ==
  ASSUME NEW b \in BucketRecord, NEW at \in Nat, burst \in Nat
  PROVE  /\ Refilled(b, at) = [tokens |-> Refilled(b, at).tokens, checked |-> at]
         /\ Refilled(b, at).tokens \in Nat /\ Refilled(b, at).tokens <= burst
         /\ b.checked <= at =>
              /\ (at - b.checked) * Rate \in Nat
              /\ Refilled(b, at).tokens <= b.tokens + (at - b.checked) * Rate
              /\ Refilled(b, at).tokens < burst => b.tokens + (at - b.checked) * Rate < burst
<1>1. b.tokens \in Nat /\ b.checked \in Nat /\ at - b.checked \in Int
  BY DEF BucketRecord
<1>2. PICK d \in Nat : d = Elapsed(b, at) /\ (b.checked <= at => d = at - b.checked)
  <2>1. Elapsed(b, at) = IF at - b.checked >= 0 THEN at - b.checked ELSE 0
    BY <1>1, MaxOfZero DEF Elapsed
  <2>2. Elapsed(b, at) \in Nat /\ (b.checked <= at => Elapsed(b, at) = at - b.checked)
    BY <1>1, <2>1
  <2> QED
    BY <2>2
<1>3. PICK r \in Nat : r = d * Rate
  BY <1>2, Products
<1>4. PICK x \in Nat : x = b.tokens + r
  BY <1>1, <1>3
<1>5. Refilled(b, at) = [tokens |-> Min({x, burst}), checked |-> at]
  BY <1>2, <1>3, <1>4 DEF Refilled
<1>6. Min({x, burst}) = IF x <= burst THEN x ELSE burst
  BY <1>4, MinOfTwo
<1>7. Refilled(b, at).tokens = IF x <= burst THEN x ELSE burst
  BY <1>5, <1>6
<1>8. Refilled(b, at).tokens \in Nat /\ Refilled(b, at).tokens <= burst
      /\ Refilled(b, at).tokens <= x
      /\ (Refilled(b, at).tokens < burst => x < burst)
  BY <1>4, <1>7
<1>9. b.checked <= at => (at - b.checked) * Rate = r /\ b.tokens + (at - b.checked) * Rate = x
  BY <1>2, <1>3, <1>4
<1>10. Refilled(b, at) = [tokens |-> Refilled(b, at).tokens, checked |-> at]
  BY <1>5
<1> QED
  BY <1>3, <1>8, <1>9, <1>10

\* What a client has is at most the burst, and it was last looked at as LastLook says.
LEMMA PurseFacts ==
  ASSUME ThrottleType
  PROVE  \A p : Purse(p) \in BucketRecord /\ Purse(p).tokens <= burst /\ Purse(p).checked = LastLook(p)
<1> TAKE p
<1>1. CASE p \in DOMAIN buckets
  BY <1>1 DEF ThrottleType, Purse, LastLook
<1>2. CASE p \notin DOMAIN buckets
  <2>1. Bound(forgotten, p, 0) \in Nat
    BY DEF ThrottleType, Bound
  <2>2. PICK t \in Nat : t = Bound(forgotten, p, 0)
    BY <2>1
  <2>3. burst \in Nat
    BY DEF ThrottleType
  <2>4. Purse(p) = [tokens |-> burst, checked |-> t] /\ LastLook(p) = t
    BY <1>2, <2>2 DEF Purse, LastLook
  <2> QED
    BY <2>3, <2>4 DEF BucketRecord
<1> QED
  BY <1>1, <1>2

\* The times of proposals and requests are numbers.
LEMMA EntryFields ==
  ASSUME NEW es \in Seq(Entry)
  PROVE  \A k \in 1..Len(es) : es[k].who \in Principals /\ es[k].at \in Nat
<1> TAKE k \in 1..Len(es)
<1>1. es[k] \in Entry
  OBVIOUS
<1> DEFINE e == es[k]
<1> HIDE DEF e
<1>2. e \in [who : Principals, at : Nat]
  BY <1>1 DEF e, Entry
<1>3. e.who \in Principals /\ e.at \in Nat
  BY <1>2
<1> QED
  BY <1>3 DEF e

\* Sets of requests are finite, and grow by one with each request of their client.
LEMMA SinceFacts ==
  ASSUME NEW ps \in Seq(Entry), NEW p \in Principals, NEW i \in 1..Len(ps)
  PROVE  /\ IsFiniteSet(Since(p, i, ps)) /\ Cardinality(Since(p, i, ps)) \in Nat
         /\ \A e \in Entry :
              Cardinality(Since(p, i, Append(ps, e))) =
                IF e.who = p THEN Cardinality(Since(p, i, ps)) + 1 ELSE Cardinality(Since(p, i, ps))
<1> DEFINE n == Len(ps)
           S == Since(p, i, ps)
<1>0. n \in Nat /\ i \in 1..n
  OBVIOUS
<1>1. IsFiniteSet(S)
  <2>1. S \in SUBSET (i..n)
    BY DEF Since
  <2>2. IsFiniteSet(i..n)
    BY <1>0, FS_Interval
  <2> QED
    BY <2>1, <2>2, FS_Subset
<1>2. Cardinality(S) \in Nat
  BY <1>1, FS_CardinalityType
<1>3. ASSUME NEW e \in Entry
      PROVE  Cardinality(Since(p, i, Append(ps, e))) =
               IF e.who = p THEN Cardinality(S) + 1 ELSE Cardinality(S)
  <2> DEFINE qs == Append(ps, e)
  <2>1. /\ Len(qs) = n + 1 /\ qs[n + 1] = e
        /\ \A k \in i..n : qs[k] = ps[k]
        /\ i..(n + 1) = (i..n) \cup {n + 1} /\ n + 1 \notin i..n
    BY <1>0
  <2> HIDE DEF qs, n
  <2>2. CASE e.who = p
    <3>1. Since(p, i, qs) = S \cup {n + 1} /\ n + 1 \notin S
      BY <2>1, <2>2 DEF Since, n
    <3>2. Cardinality(S \cup {n + 1}) = Cardinality(S) + 1
      BY <1>1, <3>1, FS_AddElement
    <3> QED
      BY <2>2, <3>1, <3>2 DEF qs
  <2>3. CASE e.who # p
    <3>1. Since(p, i, qs) = S
      BY <2>1, <2>3 DEF Since, n
    <3> QED
      BY <2>3, <3>1 DEF qs
  <2> QED
    BY <2>2, <2>3
<1> QED
  BY <1>1, <1>2, <1>3

\* The initial states.
LEMMA ThrottleStart ==
  ASSUME LimitsInit
  PROVE  ThrottleInv
<1>1. /\ tick = 0 /\ buckets = <<>> /\ passed = <<>> /\ forgotten = <<>> /\ slips = {}
      /\ burst \in Nat
  BY LimitsAssumption DEF LimitsInit
<1>2. DOMAIN buckets = {} /\ Len(passed) = 0 /\ DOMAIN passed = {} /\ passed \in Seq(Entry)
  BY <1>1
<1>3. buckets \in [DOMAIN buckets -> BucketRecord] /\ forgotten \in [DOMAIN forgotten -> Nat]
  BY <1>1
<1> QED
  BY <1>1, <1>2, <1>3 DEF ThrottleInv, ThrottleType, RateKept, NeverOverRate

\* Nothing that the buckets are made of changes.
LEMMA ThrottleStandsStill ==
  ASSUME ThrottleInv, UNCHANGED throttleVars, tick' \in Nat
  PROVE  ThrottleInv'
<1>1. /\ burst' = burst /\ buckets' = buckets /\ passed' = passed /\ forgotten' = forgotten
      /\ slips' = slips
  BY DEF throttleVars
<1>2. ThrottleType'
  BY <1>1 DEF ThrottleInv, ThrottleType
<1>3. RateKept'
  BY <1>1 DEF ThrottleInv, RateKept, SlippedSince, Excuses, PaidFor, Purse, Bound
<1>4. NeverOverRate'
  BY <1>1 DEF ThrottleInv, NeverOverRate
<1> QED
  BY <1>2, <1>3, <1>4 DEF ThrottleInv

\* A slip stays on record.
LEMMA SlipsStay ==
  ASSUME slips \subseteq slips', burst' = burst, NEW p, NEW i, SlippedSince(p, i)
  PROVE  SlippedSince(p, i)'
<1>1. PICK e \in slips : e.who = p /\ i <= e.after /\ Excuses(e)
  BY DEF SlippedSince
<1>2. e \in slips' /\ Excuses(e)'
  BY <1>1 DEF Excuses
<1> QED
  BY <1>1, <1>2 DEF SlippedSince

\* A look at the bucket of p: it gets what the time since the last look gives, unless the
\* call was overtaken.
LEMMA LookedAt ==
  ASSUME ThrottleType, NEW p \in Principals, NEW at \in Nat, Check(p, at)
  PROVE  \E v \in Nat, w \in Nat :
           /\ v <= burst
           /\ LastLook(p) <= at =>
                /\ (at - LastLook(p)) * Rate \in Nat
                /\ v <= Purse(p).tokens + (at - LastLook(p)) * Rate
           /\ buckets' = With(buckets, p, [tokens |-> w, checked |-> at])
           /\ \/ v >= 1 /\ w = v - 1 /\ passed' = Append(passed, [who |-> p, at |-> at])
              \/ w = v /\ passed' = passed
<1>c. burst \in Nat /\ \A q : Purse(q) \in BucketRecord /\ Purse(q).checked = LastLook(q)
                              /\ Purse(q).tokens <= burst
  BY PurseFacts DEF ThrottleType
<1>1. PICK a \in BucketRecord :
        /\ a = Bound(buckets, p, FullBucket(at))
        /\ p \in DOMAIN buckets => a = Purse(p)
        /\ p \notin DOMAIN buckets => a.checked = at /\ a.tokens = burst /\ Purse(p).tokens = burst
  <2>1. CASE p \in DOMAIN buckets
    BY <2>1, <1>c DEF Bound, Purse
  <2>2. CASE p \notin DOMAIN buckets
    <3>1. Bound(buckets, p, FullBucket(at)) = [tokens |-> burst, checked |-> at]
      BY <2>2 DEF Bound, FullBucket
    <3>2. Purse(p).tokens = burst
      BY <2>2 DEF Purse
    <3>3. [tokens |-> burst, checked |-> at] \in BucketRecord
      BY <1>c DEF BucketRecord
    <3> QED
      BY <2>2, <3>1, <3>2, <3>3
  <2> QED
    BY <2>1, <2>2
<1>2. /\ Refilled(a, at) = [tokens |-> Refilled(a, at).tokens, checked |-> at]
      /\ Refilled(a, at).tokens \in Nat /\ Refilled(a, at).tokens <= burst
      /\ a.checked <= at =>
           /\ (at - a.checked) * Rate \in Nat
           /\ Refilled(a, at).tokens <= a.tokens + (at - a.checked) * Rate
  BY <1>c, RefillFacts
<1>3. PICK v \in Nat :
        /\ Refilled(a, at) = [tokens |-> v, checked |-> at] /\ v <= burst
        /\ a.checked <= at =>
             /\ (at - a.checked) * Rate \in Nat
             /\ v <= a.tokens + (at - a.checked) * Rate
  BY <1>2
<1>4. ASSUME LastLook(p) <= at
      PROVE  /\ (at - LastLook(p)) * Rate \in Nat
             /\ v <= Purse(p).tokens + (at - LastLook(p)) * Rate
  <2>1. CASE p \in DOMAIN buckets
    BY <1>1, <1>3, <1>4, <1>c, <2>1
  <2>2. CASE p \notin DOMAIN buckets
    <3>1. LastLook(p) \in Nat
      BY <1>c DEF BucketRecord
    <3>2. at - LastLook(p) \in Nat
      BY <1>4, <3>1
    <3>3. (at - LastLook(p)) * Rate \in Nat
      BY <3>2, Products
    <3>4. Purse(p).tokens = burst
      BY <1>1, <2>2
    <3> QED
      BY <1>3, <1>c, <3>3, <3>4
  <2> QED
    BY <2>1, <2>2
<1> DEFINE b == [tokens |-> v, checked |-> at]
<1>5. b.tokens = v /\ [b EXCEPT !.tokens = @ - 1] = [tokens |-> v - 1, checked |-> at]
  OBVIOUS
<1>6. \/ /\ b.tokens >= 1
         /\ buckets' = With(buckets, p, [b EXCEPT !.tokens = @ - 1])
         /\ passed' = Append(passed, [who |-> p, at |-> at])
      \/ buckets' = With(buckets, p, b) /\ passed' = passed
  BY <1>1, <1>3 DEF Check
<1> HIDE DEF b
<1>7. b = [tokens |-> v, checked |-> at]
  BY DEF b
<1>8. CASE v >= 1 /\ buckets' = With(buckets, p, [tokens |-> v - 1, checked |-> at])
           /\ passed' = Append(passed, [who |-> p, at |-> at])
  <2>1. v - 1 \in Nat
    BY <1>8
  <2> QED
    BY <1>3, <1>4, <1>8, <2>1
<1>9. CASE buckets' = With(buckets, p, [tokens |-> v, checked |-> at]) /\ passed' = passed
  BY <1>3, <1>4, <1>9
<1> QED
  BY <1>5, <1>6, <1>7, <1>8, <1>9

\* A client that is looked at: what passes is taken from what it has.
LEMMA CheckStep ==
  ASSUME ThrottleInv, NEW p \in Principals, NEW at \in Nat, Check(p, at)
  PROVE  ThrottleInv'
<1>0. ThrottleType /\ RateKept /\ NeverOverRate
  BY DEF ThrottleInv
<1> DEFINE n == Len(passed)
<1>c. /\ tick \in Nat /\ tick' = tick /\ passed \in Seq(Entry) /\ burst \in Nat /\ burst' = burst
      /\ forgotten' = forgotten /\ n \in Nat /\ forgotten \in [DOMAIN forgotten -> Nat]
  BY <1>0 DEF ThrottleType, Check
<1>1. PICK v \in Nat, w \in Nat :
        /\ v <= burst
        /\ LastLook(p) <= at =>
             /\ (at - LastLook(p)) * Rate \in Nat
             /\ v <= Purse(p).tokens + (at - LastLook(p)) * Rate
        /\ buckets' = With(buckets, p, [tokens |-> w, checked |-> at])
        /\ \/ v >= 1 /\ w = v - 1 /\ passed' = Append(passed, [who |-> p, at |-> at])
           \/ w = v /\ passed' = passed
  BY <1>0, LookedAt
<1>2. \A q : /\ Purse(q) \in BucketRecord /\ Purse(q).tokens <= burst
             /\ Purse(q).checked = LastLook(q)
             /\ Purse(q).tokens \in Nat /\ Purse(q).checked \in Nat
  BY <1>0, PurseFacts DEF BucketRecord
<1> DEFINE c == [tokens |-> w, checked |-> at]
<1>3. c \in BucketRecord /\ c.checked = at /\ c.tokens = w /\ w <= burst
  BY <1>1, <1>c DEF BucketRecord
<1>4. /\ DOMAIN buckets' = DOMAIN buckets \cup {p} /\ buckets'[p] = c
      /\ \A q \in DOMAIN buckets : q # p => buckets'[q] = buckets[q]
      /\ buckets' = [q \in DOMAIN buckets \cup {p} |-> IF q = p THEN c ELSE buckets[q]]
  BY <1>1 DEF With
<1> HIDE DEF c
<1>5. Purse(p)' = c /\ \A q : q # p => Purse(q)' = Purse(q)
  BY <1>4, <1>c DEF Purse
<1>6. /\ slips \subseteq slips'
      /\ \A e \in slips' : e.after \in 0..n
      /\ at < LastLook(p) => \A i \in 1..n : SlippedSince(p, i)'
  <2>0. PICK s : s = Slip(p, "overtaken")
    OBVIOUS
  <2>1. s.who = p /\ s.after = n /\ s.cause = "overtaken"
    BY <2>0 DEF Slip
  <2>2. slips' = IF at < LastLook(p) THEN slips \cup {s} ELSE slips
    BY <2>0 DEF Check
  <2>3. \A e \in slips : e.after \in 0..n
    BY <1>0 DEF ThrottleType
  <2>4. n \in 0..n
    BY <1>c
  <2>5. \A e \in slips' : e.after \in 0..n
    BY <2>1, <2>2, <2>3, <2>4
  <2>6. ASSUME at < LastLook(p), NEW i \in 1..n
        PROVE  SlippedSince(p, i)'
    <3>1. s \in slips' /\ i <= s.after
      BY <2>1, <2>2, <2>6
    <3>2. Excuses(s)'
      BY <2>1 DEF Excuses
    <3> QED
      BY <2>1, <3>1, <3>2 DEF SlippedSince
  <2> QED
    BY <2>2, <2>5, <2>6
<1>7. buckets' \in [DOMAIN buckets' -> BucketRecord] /\ \A q \in DOMAIN buckets' : buckets'[q].tokens <= burst
  <2>1. \A q \in DOMAIN buckets : buckets[q] \in BucketRecord /\ buckets[q].tokens <= burst
    BY <1>0 DEF ThrottleType
  <2>2. \A q \in DOMAIN buckets' : buckets'[q] \in BucketRecord /\ buckets'[q].tokens <= burst
    BY <1>3, <1>4, <2>1
  <2> QED
    BY <1>4, <2>2
<1>f. \A i \in 1..n : passed[i].who \in Principals /\ passed[i].at \in Nat
  BY <1>c, EntryFields
\* the requests before this one; x is how many of p there are now
<1>8. ASSUME NEW i \in 1..n, NEW q \in Principals, passed[i].who = q, NEW x \in Nat,
             x = IF q = p THEN Cardinality(Since(q, i, passed)) + (v - w)
                 ELSE Cardinality(Since(q, i, passed))
      PROVE  SlippedSince(q, i)' \/ PaidFor(x, passed[i].at, Purse(q)')
  <2>1. PICK s \in Nat : s = passed[i].at
    BY <1>f
  <2>2. PICK m \in Nat : m = Cardinality(Since(q, i, passed))
    BY <1>c, SinceFacts
  <2>3. SlippedSince(q, i) \/ PaidFor(m, s, Purse(q))
    BY <1>0, <1>8, <2>1, <2>2 DEF RateKept
  <2>4. CASE SlippedSince(q, i)
    BY <1>6, <1>c, <2>1, <2>4, SlipsStay
  <2>5. CASE q = p /\ at < LastLook(p)
    BY <1>6, <2>1, <2>5
  <2>6. CASE q # p /\ PaidFor(m, s, Purse(q))
    <3>1. x = m /\ Purse(q)' = Purse(q)
      BY <1>5, <1>8, <2>2, <2>6
    <3> QED
      BY <2>1, <2>6, <3>1
  <2>7. CASE q = p /\ PaidFor(m, s, Purse(q)) /\ ~(at < LastLook(p))
    <3>1. PICK t \in Nat, l \in Nat : t = Purse(p).tokens /\ l = Purse(p).checked /\ l = LastLook(p)
      BY <1>2
    <3>2. l <= at /\ s <= l /\ m + t <= burst + (l - s) * Rate
      BY <2>7, <3>1 DEF PaidFor
    <3>3. (at - l) * Rate \in Nat /\ v <= t + (at - l) * Rate
      BY <1>1, <3>1, <3>2
    <3>4. x = m + (v - w)
      BY <1>8, <2>2, <2>7
    <3>5. x + w <= m + t + (at - l) * Rate
      <4>1. PICK r \in Nat : r = (at - l) * Rate
        BY <3>3
      <4>2. x + w = m + v
        BY <3>4
      <4> QED
        BY <3>3, <4>1, <4>2
    <3>6. x + w <= burst + (at - s) * Rate
      BY <1>c, <3>2, <3>5, PaidOn
    <3>7. s <= at
      BY <3>2
    <3>8. Purse(q)'.tokens = w /\ Purse(q)'.checked = at
      BY <1>3, <1>5, <2>7
    <3> QED
      BY <2>1, <3>6, <3>7, <3>8 DEF PaidFor
  <2> QED
    BY <2>3, <2>4, <2>5, <2>6, <2>7
<1>9. CASE w = v /\ passed' = passed
  <2>1. ThrottleType'
    BY <1>0, <1>6, <1>7, <1>9, <1>c DEF ThrottleType
  <2>2. RateKept'
    <3> SUFFICES ASSUME NEW i \in 1..n, NEW q \in Principals, passed[i].who = q
                 PROVE  \/ SlippedSince(q, i)'
                        \/ PaidFor(Cardinality(Since(q, i, passed)), passed[i].at, Purse(q)')
      BY <1>9, <1>c DEF RateKept, PaidFor
    <3>2. PICK m \in Nat : m = Cardinality(Since(q, i, passed))
      BY <1>c, SinceFacts
    <3>3. m = m + (v - w)
      BY <1>9
    <3> QED
      BY <1>8, <3>2, <3>3
  <2>3. NeverOverRate'
    BY <1>0, <1>6, <1>9, <1>c DEF NeverOverRate
  <2> QED
    BY <2>1, <2>2, <2>3 DEF ThrottleInv
<1>10. CASE v >= 1 /\ w = v - 1 /\ passed' = Append(passed, [who |-> p, at |-> at])
  <2>1. PICK e \in Entry : e = [who |-> p, at |-> at]
    BY DEF Entry
  <2>2. /\ e.who = p /\ e.at = at
        /\ passed' \in Seq(Entry) /\ Len(passed') = n + 1
        /\ passed' = Append(passed, e)
        /\ passed'[n + 1] = e /\ \A i \in 1..n : passed'[i] = passed[i]
    BY <1>10, <1>c, <2>1
  <2>s. \A i \in 1..(n + 1) : i \in 1..n \/ i = n + 1
    BY <1>c
  <2>3. ThrottleType'
    <3>1. \A y \in slips' : y.after \in 0..(n + 1)
      BY <1>6, <1>c
    <3> QED
      BY <1>7, <1>c, <2>2, <3>1 DEF ThrottleType
  <2> HIDE DEF n
  <2>4. \A i \in 1..n : \A q \in Principals :
          Cardinality(Since(q, i, passed')) =
            IF q = p THEN Cardinality(Since(q, i, passed)) + 1 ELSE Cardinality(Since(q, i, passed))
    BY <1>c, <1>f, <2>2, SinceFacts DEF n
  <2>5. ASSUME NEW i \in 1..n, NEW q \in Principals, passed[i].who = q
        PROVE  \/ SlippedSince(q, i)'
               \/ PaidFor(Cardinality(Since(q, i, passed')), passed[i].at, Purse(q)')
    <3>2. PICK m \in Nat : m = Cardinality(Since(q, i, passed))
      BY <1>c, SinceFacts DEF n
    <3>3. PICK x \in Nat : x = Cardinality(Since(q, i, passed')) /\ x = IF q = p THEN m + 1 ELSE m
      <4>1. Cardinality(Since(q, i, passed')) = IF q = p THEN m + 1 ELSE m
        BY <2>4, <3>2
      <4> QED
        BY <4>1
    <3>4. v - w = 1
      BY <1>10
    <3>5. x = IF q = p THEN m + (v - w) ELSE m
      BY <3>3, <3>4
    <3> QED
      BY <1>8, <2>5, <3>2, <3>3, <3>5
  \* the latest request alone
  <2>6. Cardinality(Since(p, n + 1, passed')) = 1
    <3>1. (n + 1)..(n + 1) = {n + 1}
      BY <1>c
    <3>2. Since(p, n + 1, passed') = {n + 1}
      BY <2>2, <3>1 DEF Since
    <3> QED
      BY <3>2, FS_Singleton
  <2>7. PaidFor(1, at, Purse(p)')
    <3>1. Purse(p)'.tokens = w /\ Purse(p)'.checked = at
      BY <1>3, <1>5
    <3>2. (at - at) * Rate = 0
      <4>1. at - at = 0 /\ Rate \in Nat
        BY LimitsAssumption
      <4> QED
        BY <4>1
    <3>3. 1 + w <= burst + 0
      BY <1>1, <1>10, <1>c
    <3> QED
      BY <3>1, <3>2, <3>3 DEF PaidFor
  <2>8. \A i \in 1..(n + 1) : \A q \in Principals : passed'[i].who = q =>
          \/ SlippedSince(q, i)'
          \/ PaidFor(Cardinality(Since(q, i, passed')), passed'[i].at, Purse(q)')
    <3> SUFFICES ASSUME NEW i \in 1..(n + 1), NEW q \in Principals, passed'[i].who = q
                 PROVE  \/ SlippedSince(q, i)'
                        \/ PaidFor(Cardinality(Since(q, i, passed')), passed'[i].at, Purse(q)')
      OBVIOUS
    <3>1. CASE i \in 1..n
      BY <2>2, <2>5, <3>1
    <3>2. CASE i = n + 1
      BY <2>2, <2>6, <2>7, <3>2
    <3> QED
      BY <2>s, <3>1, <3>2
  <2>9. RateKept'
    <3>1. \A i \in 1..(n + 1) : \A q \in Principals : passed'[i].who = q =>
            \/ SlippedSince(q, i)'
            \/ PaidFor(Cardinality(Since(q, i, passed)), passed[i].at, Purse(q))'
      BY <1>c, <2>8 DEF PaidFor
    <3>2. Len(passed') = n + 1
      BY <2>2
    <3> QED
      BY <3>1, <3>2 DEF RateKept
  <2>10. NeverOverRate'
    <3> SUFFICES ASSUME NEW i \in 1..(n + 1), NEW j \in 1..(n + 1), i <= j,
                        passed'[i].who = passed'[j].who
                 PROVE  \/ Cardinality({k \in i..j : passed'[k].who = passed'[j].who})
                             <= burst + (passed'[j].at - passed'[i].at) * Rate
                        \/ \E y \in slips' : /\ y.who = passed'[j].who /\ y.after \in i..(j - 1)
                                             /\ Excuses(y)
      <4>1. DOMAIN passed' = 1..(n + 1)
        BY <2>2
      <4> QED
        BY <1>c, <4>1 DEF NeverOverRate, Excuses
    <3>1. CASE j \in 1..n
      <4>1. i \in 1..n /\ \A k \in i..j : k \in 1..n
        BY <1>c, <3>1
      <4>2. {k \in i..j : passed'[k].who = passed'[j].who} =
              {k \in i..j : passed[k].who = passed[j].who}
        BY <2>2, <3>1, <4>1
      <4>3. \/ Cardinality({k \in i..j : passed[k].who = passed[j].who})
                 <= burst + (passed[j].at - passed[i].at) * Rate
            \/ \E y \in slips : /\ y.who = passed[j].who /\ y.after \in i..(j - 1)
                                /\ Excuses(y)
        <5>1. passed[i].who = passed[j].who /\ i \in DOMAIN passed /\ j \in DOMAIN passed
          BY <1>c, <2>2, <3>1, <4>1 DEF n
        <5> QED
          BY <1>0, <5>1 DEF NeverOverRate, Excuses
      <4> QED
        BY <1>6, <2>2, <3>1, <4>1, <4>2, <4>3
    <3>2. CASE j = n + 1
      <4>1. passed'[j].who = p /\ passed'[j].at = at /\ passed'[i].who = p
        BY <2>2, <3>2
      <4>2. {k \in i..j : passed'[k].who = passed'[j].who} = Since(p, i, passed')
        BY <2>2, <3>2, <4>1 DEF Since
      <4>3. CASE SlippedSince(p, i)'
        <5>1. PICK y \in slips' : y.who = p /\ i <= y.after /\ Excuses(y)
          BY <1>c, <4>3 DEF SlippedSince, Excuses
        <5>2. y.after \in i..(j - 1)
          BY <1>6, <1>c, <3>2, <5>1
        <5> QED
          BY <4>1, <5>1, <5>2
      <4>4. CASE PaidFor(Cardinality(Since(p, i, passed')), passed'[i].at, Purse(p)')
        <5>1. PICK m \in Nat : m = Cardinality(Since(p, i, passed'))
          BY <2>2, SinceFacts
        <5>2. PICK s \in Nat : s = passed'[i].at
          <6>1. i \in 1..Len(passed')
            BY <2>2
          <6> QED
            BY <2>2, <6>1, EntryFields
        <5>3. s <= at /\ m + w <= burst + (at - s) * Rate
          BY <1>3, <1>5, <4>4, <5>1, <5>2 DEF PaidFor
        <5>4. at - s \in Nat
          BY <5>3
        <5>5. PICK r \in Nat : r = (at - s) * Rate
          BY <5>4, Products
        <5>6. m <= burst + r
          BY <1>c, <5>3, <5>5
        <5> QED
          BY <4>1, <4>2, <5>1, <5>2, <5>5, <5>6
      <4> QED
        BY <2>8, <4>1, <4>3, <4>4
    <3> QED
      BY <2>s, <3>1, <3>2
  <2> QED
    BY <2>3, <2>9, <2>10 DEF ThrottleInv
<1> QED
  BY <1>1, <1>9, <1>10

\* Buckets are forgotten: one that is not yet full leaves a slip, and none does when the
\* idle timeout is enough to fill it.
LEMMA CleanupStep ==
  ASSUME ThrottleInv, NEW at \in Nat, CleanupIdle(at)
  PROVE  ThrottleInv'
<1>0. ThrottleType /\ RateKept /\ NeverOverRate
  BY DEF ThrottleInv
<1> DEFINE n == Len(passed)
           gone == Idle(at)
<1>c. /\ tick \in Nat /\ tick' = tick /\ passed \in Seq(Entry) /\ burst \in Nat /\ burst' = burst
      /\ passed' = passed /\ n \in Nat /\ forgotten \in [DOMAIN forgotten -> Nat]
      /\ IdleTimeout \in Nat /\ Rate \in Nat
  BY <1>0, LimitsAssumption DEF ThrottleType, CleanupIdle
<1>1. /\ buckets' = [p \in DOMAIN buckets \ gone |-> buckets[p]]
      /\ forgotten' = [p \in DOMAIN forgotten \cup gone |-> IF p \in gone THEN at ELSE forgotten[p]]
      /\ slips' = slips \cup {Slip(p, "early") : p \in {q \in gone : Refilled(buckets[q], at).tokens < burst}}
      /\ gone = {p \in DOMAIN buckets : at - buckets[p].checked > IdleTimeout}
  <2>1. buckets' = Restrict(buckets, DOMAIN buckets \ gone)
    BY DEF CleanupIdle
  <2>2. buckets' = [p \in DOMAIN buckets \ gone |-> buckets[p]]
    BY <2>1 DEF Restrict
  <2> QED
    BY <2>2 DEF CleanupIdle, Idle
<1> HIDE DEF gone
<1>2. \A p \in DOMAIN buckets :
        buckets[p] \in BucketRecord /\ buckets[p].tokens <= burst
        /\ buckets[p].checked \in Nat /\ buckets[p].tokens \in Nat
  BY <1>0 DEF ThrottleType, BucketRecord
<1>3. /\ \A p : p \notin gone => Purse(p)' = Purse(p)
      /\ \A p \in gone : /\ p \in DOMAIN buckets /\ Purse(p) = buckets[p]
                         /\ Purse(p)' = [tokens |-> burst, checked |-> at]
  BY <1>1, <1>c DEF Purse, Bound
<1>4. slips \subseteq slips' /\ \A e \in slips' : e.after \in 0..n
  <2>1. \A p : Slip(p, "early").after = n
    BY DEF Slip
  <2>2. \A e \in slips : e.after \in 0..n
    BY <1>0 DEF ThrottleType
  <2> QED
    BY <1>1, <1>c, <2>1, <2>2
<1>5. ThrottleType'
  <2>1. buckets' \in [DOMAIN buckets' -> BucketRecord] /\ \A p \in DOMAIN buckets' : buckets'[p].tokens <= burst
    BY <1>1, <1>2
  <2>2. forgotten' \in [DOMAIN forgotten' -> Nat]
    BY <1>1, <1>c
  <2> QED
    BY <1>4, <1>c, <2>1, <2>2 DEF ThrottleType
<1>6. NeverOverRate'
  BY <1>0, <1>4, <1>c DEF NeverOverRate
<1>f. \A i \in 1..n : passed[i].who \in Principals /\ passed[i].at \in Nat
  BY <1>c, EntryFields
<1>7. RateKept'
  <2> SUFFICES ASSUME NEW i \in 1..n, NEW q \in Principals, passed[i].who = q
               PROVE  \/ SlippedSince(q, i)'
                      \/ PaidFor(Cardinality(Since(q, i, passed)), passed[i].at, Purse(q)')
    BY <1>c DEF RateKept, PaidFor
  <2>1. PICK s \in Nat : s = passed[i].at
    BY <1>f
  <2>2. PICK m \in Nat : m = Cardinality(Since(q, i, passed))
    BY <1>c, SinceFacts
  <2>3. SlippedSince(q, i) \/ PaidFor(m, s, Purse(q))
    BY <1>0, <2>1, <2>2 DEF RateKept
  <2>4. CASE SlippedSince(q, i)
    BY <1>4, <1>c, <2>1, <2>4, SlipsStay
  <2>5. CASE q \notin gone /\ PaidFor(m, s, Purse(q))
    BY <1>3, <2>1, <2>2, <2>5
  <2>6. CASE q \in gone /\ PaidFor(m, s, Purse(q))
    <3>1. PICK b \in BucketRecord, t \in Nat, l \in Nat :
            /\ b = buckets[q] /\ b = Purse(q) /\ t = b.tokens /\ l = b.checked /\ t <= burst
            /\ at - l > IdleTimeout
      <4>1. PICK b : b = buckets[q]
        OBVIOUS
      <4>2. b = Purse(q) /\ b \in BucketRecord /\ b.tokens <= burst /\ at - b.checked > IdleTimeout
        BY <1>1, <1>2, <1>3, <2>6, <4>1
      <4>3. b.tokens \in Nat /\ b.checked \in Nat
        BY <4>2 DEF BucketRecord
      <4> QED
        BY <4>1, <4>2, <4>3
    <3>2. l <= at /\ s <= l /\ m + t <= burst + (l - s) * Rate /\ s <= at
      <4>1. at \in Nat /\ s \in Nat /\ IdleTimeout \in Nat /\ at - l > IdleTimeout /\ l \in Nat
        BY <1>c, <3>1
      <4>2. s <= l /\ m + t <= burst + (l - s) * Rate
        BY <2>6, <3>1 DEF PaidFor
      <4>3. l <= at
        BY <4>1
      <4> QED
        BY <4>1, <4>2, <4>3
    <3>3. /\ (at - l) * Rate \in Nat
          /\ Refilled(b, at).tokens \in Nat /\ Refilled(b, at).tokens <= burst
          /\ Refilled(b, at).tokens <= t + (at - l) * Rate
          /\ Refilled(b, at).tokens < burst => t + (at - l) * Rate < burst
      BY <1>c, <3>1, <3>2, RefillFacts
    <3>4. PICK r \in Nat : r = (at - l) * Rate
      BY <3>3
    <3>5. CASE Refilled(b, at).tokens < burst
      <4>0. PICK y : y = Slip(q, "early")
        OBVIOUS
      <4>1. y.who = q /\ y.after = n /\ i <= n /\ y \in slips'
        <5>1. y.who = q /\ y.after = n
          BY <4>0 DEF Slip
        <5>2. Refilled(buckets[q], at).tokens < burst
          BY <3>1, <3>5
        <5> QED
          BY <1>1, <1>c, <2>6, <4>0, <5>1, <5>2
      <4>2. Rate * IdleTimeout < burst
        <5>1. IdleTimeout * Rate <= (at - l) * Rate
          <6>1. at - l \in Nat /\ IdleTimeout <= at - l
            <7>1. l \in Nat /\ at \in Nat /\ at - l > IdleTimeout /\ IdleTimeout \in Nat
              BY <1>c, <3>1
            <7> QED
              BY <7>1
          <6> QED
            BY <1>c, <6>1, Products
        <5>2. r < burst
          BY <1>c, <3>3, <3>4, <3>5
        <5>3. PICK z \in Nat : z = IdleTimeout * Rate
          BY <1>c, Products
        <5>4. Rate * IdleTimeout = z
          BY <1>c, <5>3
        <5> QED
          BY <1>c, <3>4, <5>1, <5>2, <5>3, <5>4
      <4>3. Excuses(y)'
        BY <1>c, <4>2 DEF Excuses
      <4> QED
        BY <2>1, <4>1, <4>3 DEF SlippedSince
    <3>6. CASE ~(Refilled(b, at).tokens < burst)
      <4>1. Refilled(b, at).tokens = burst
        <5>1. PICK z \in Nat : z = Refilled(b, at).tokens
          BY <3>3
        <5>2. burst \in Nat /\ z <= burst /\ ~(z < burst)
          BY <1>c, <3>3, <3>6, <5>1
        <5>3. z = burst
          BY <5>2
        <5> QED
          BY <5>1, <5>3
      <4>2. m + burst <= m + t + (at - l) * Rate
        <5>1. burst \in Nat /\ burst <= t + r
          BY <1>c, <3>3, <3>4, <4>1
        <5>2. m + burst <= m + t + r
          BY <5>1
        <5> QED
          BY <3>4, <5>2
      <4>3. m + burst <= burst + (at - s) * Rate
        BY <1>c, <3>2, <4>2, PaidOn
      <4>4. Purse(q)'.tokens = burst /\ Purse(q)'.checked = at
        BY <1>3, <2>6
      <4> QED
        BY <2>1, <2>2, <3>2, <4>3, <4>4 DEF PaidFor
    <3> QED
      BY <3>5, <3>6
  <2> QED
    BY <2>3, <2>4, <2>5, <2>6
<1> QED
  BY <1>5, <1>6, <1>7 DEF ThrottleInv

\* Every step keeps the clients within their rate.
LEMMA ThrottleStepInv ==
  ASSUME ThrottleInv, ThrottleNext \/ ProfilerNext \/ UNCHANGED limitVars
  PROVE  ThrottleInv'
<1>0. tick \in Nat /\ \A at \in 0..tick : at \in Nat
  BY DEF ThrottleInv, ThrottleType
<1>1. ASSUME NEW at \in 0..tick, NEW p \in Principals, Check(p, at) PROVE ThrottleInv'
  BY <1>0, <1>1, CheckStep
<1>2. ASSUME NEW at \in 0..tick, CleanupIdle(at) PROVE ThrottleInv'
  BY <1>0, <1>2, CleanupStep
<1>3. CASE TickLimits
  BY <1>0, <1>3, ThrottleStandsStill DEF TickLimits
<1>4. ASSUME NEW at \in 0..tick, NEW p \in Principals, Inspect(p, at) PROVE ThrottleInv'
  BY <1>0, <1>4, ThrottleStandsStill DEF Inspect
<1>5. CASE UNCHANGED limitVars
  BY <1>0, <1>5, ThrottleStandsStill DEF limitVars
<1> QED
  BY <1>1, <1>2, <1>3, <1>4, <1>5 DEF ThrottleNext, ProfilerNext

------------------------------------------------------------------------------
(* The profiler *)

ProfilerType ==
  /\ tick \in Nat
  /\ asked \in Seq(Entry)
  /\ actors \in [DOMAIN actors -> Seq(Nat)]

\* Proposals of p that a queue need not show: a later one found them out of the window, p
\* was dropped since, or a later one had an older reading.
Excused(p, all, ev) ==
  {k \in 1..Len(all) :
     /\ all[k].who = p
     /\ \/ \E m \in 1..Len(all) :
             k < m /\ all[m].who = p
             /\ (~Recent(all[k].at, all[m].at) \/ all[m].at < all[k].at)
        \/ \E e \in ev : e.who = p /\ k <= e.at}

\* The queue ts shows the latest proposals of p among all, in order: f says which. One
\* that it does not show came before them, and is one of X, or the queue is full.
Shows(f, ts, p, all, X) ==
  /\ f \in [1..Len(ts) -> 1..Len(all)]
  /\ \A i, j \in 1..Len(ts) : i < j => f[i] < f[j]
  /\ \A i \in 1..Len(ts) : all[f[i]].who = p /\ all[f[i]].at = ts[i]
  /\ \A k \in 1..Len(all) :
       all[k].who = p /\ (\A i \in 1..Len(ts) : f[i] # k) =>
         /\ \A i \in 1..Len(ts) : k < f[i]
         /\ k \in X \/ Len(ts) >= MaxKept

\* The proposals of p, those of them within the window at time t, and what keeps a queue
\* from telling their number.
Mine(p, all) == {k \in 1..Len(all) : all[k].who = p}
Counted(p, all, t) == {k \in Mine(p, all) : Recent(all[k].at, t)}
Overtaken(p, all, t) ==
  \E k \in Counted(p, all, t), m \in Mine(p, all) : k < m /\ all[m].at < all[k].at
Dropped(p, all, t, ev) == \E e \in ev : e.who = p /\ \E k \in Counted(p, all, t) : k <= e.at

Queue(p) == Bound(actors, p, <<>>)

QueuesFit ==
  \A p \in Principals : \E f : Shows(f, Queue(p), p, asked, Excused(p, asked, evicted))

ProfilerInv == ProfilerType /\ QueuesFit /\ FindingIsRight

\* Dropping the front of a queue keeps it right, if what is dropped and what came before it
\* is excused, or the queue stays full.
LEMMA DropFront ==
  ASSUME NEW ts \in Seq(Nat), NEW all \in Seq(Entry), NEW X, NEW p \in Principals,
         NEW f, Shows(f, ts, p, all, X),
         NEW d \in 0..Len(ts),
         \/ \A i \in 1..d : \A k \in 1..Len(all) : all[k].who = p /\ k <= f[i] => k \in X
         \/ Len(ts) - d >= MaxKept
  PROVE  \E g : Shows(g, SubSeq(ts, d + 1, Len(ts)), p, all, X)
<1> DEFINE n == Len(ts)
           m == n - d
           us == SubSeq(ts, d + 1, n)
           g == [i \in 1..m |-> f[d + i]]
<1>0. /\ n \in Nat /\ d \in 0..n /\ m \in Nat /\ Len(us) = m /\ us \in Seq(Nat)
      /\ \A i \in 1..m : us[i] = ts[d + i] /\ d + i \in 1..n
      /\ d + m = n
  <2>1. n \in Nat /\ d \in 0..n /\ m \in Nat /\ d + m = n
    OBVIOUS
  <2>2. us \in Seq(Nat) /\ Len(us) = m
    OBVIOUS
  <2>3. ASSUME NEW i \in 1..m PROVE us[i] = ts[d + i] /\ d + i \in 1..n
    OBVIOUS
  <2> QED
    BY <2>1, <2>2, <2>3
<1>1. /\ f \in [1..n -> 1..Len(all)]
      /\ \A i, j \in 1..n : i < j => f[i] < f[j]
      /\ \A i \in 1..n : all[f[i]].who = p /\ all[f[i]].at = ts[i]
      /\ \A k \in 1..Len(all) :
           all[k].who = p /\ (\A i \in 1..n : f[i] # k) =>
             /\ \A i \in 1..n : k < f[i]
             /\ k \in X \/ n >= MaxKept
  BY DEF Shows
<1>b. MaxKept \in Nat
  BY LimitsAssumption DEF MaxKept
<1>d. \/ \A i \in 1..d : \A k \in 1..Len(all) : all[k].who = p /\ k <= f[i] => k \in X
      \/ m >= MaxKept
  OBVIOUS
<1> HIDE DEF us, m
<1>2. g \in [1..m -> 1..Len(all)] /\ \A i \in 1..m : g[i] = f[d + i]
  BY <1>0, <1>1
<1> HIDE DEF g, n
<1>3. \A i, j \in 1..m : i < j => g[i] < g[j]
  <2> SUFFICES ASSUME NEW i \in 1..m, NEW j \in 1..m, i < j
               PROVE  g[i] < g[j]
    OBVIOUS
  <2>1. d + i \in 1..n /\ d + j \in 1..n /\ d + i < d + j
    BY <1>0
  <2> QED
    BY <1>1, <1>2, <2>1
<1>4. \A i \in 1..m : all[g[i]].who = p /\ all[g[i]].at = us[i]
  <2> TAKE i \in 1..m
  <2>1. d + i \in 1..n /\ us[i] = ts[d + i] /\ g[i] = f[d + i]
    BY <1>0, <1>2
  <2>2. all[f[d + i]].who = p /\ all[f[d + i]].at = ts[d + i]
    BY <1>1, <2>1
  <2> QED
    BY <2>1, <2>2
<1>5. ASSUME NEW k \in 1..Len(all), all[k].who = p, \A i \in 1..m : g[i] # k
      PROVE  /\ \A i \in 1..m : k < g[i]
             /\ k \in X \/ m >= MaxKept
  <2>1. CASE \E i \in 1..n : f[i] = k
    <3>1. PICK i \in 1..n : f[i] = k
      BY <2>1
    <3>2. i <= d
      <4> SUFFICES ASSUME i > d PROVE FALSE
        BY <1>0
      <4>1. i - d \in 1..m /\ d + (i - d) = i
        BY <1>0
      <4> QED
        BY <1>2, <1>5, <3>1, <4>1
    <3>3. \A j \in 1..m : k < g[j]
      <4> TAKE j \in 1..m
      <4>1. d + j \in 1..n /\ i < d + j
        BY <1>0, <3>2
      <4>2. f[i] < f[d + j]
        BY <1>1, <4>1
      <4>3. g[j] = f[d + j]
        BY <1>2
      <4> QED
        BY <3>1, <4>2, <4>3
    <3>4. i \in 1..d /\ k <= f[i]
      BY <1>0, <3>1, <3>2
    <3> QED
      BY <1>5, <1>d, <3>3, <3>4
  <2>2. CASE \A i \in 1..n : f[i] # k
    <3>1. /\ \A i \in 1..n : k < f[i]
          /\ k \in X \/ n >= MaxKept
      BY <1>1, <1>5, <2>2
    <3>2. \A i \in 1..m : k < g[i]
      BY <1>0, <1>2, <3>1
    <3>3. CASE n >= MaxKept
      <4>1. CASE d = 0
        <5>1. m = n
          BY <1>0, <4>1
        <5> QED
          BY <3>2, <3>3, <5>1
      <4>2. CASE d > 0 /\ ~(m >= MaxKept)
        <5>1. 1 \in 1..d /\ 1 \in 1..n
          BY <1>0, <4>2
        <5>2. k <= f[1]
          BY <1>1, <3>1, <5>1
        <5>3. k \in X
          BY <1>5, <1>d, <4>2, <5>1, <5>2
        <5> QED
          BY <3>2, <5>3
      <4>3. CASE m >= MaxKept
        BY <3>2, <4>3
      <4> QED
        BY <1>0, <4>1, <4>2, <4>3
    <3> QED
      BY <3>1, <3>2, <3>3
  <2> QED
    BY <2>1, <2>2
<1>6. Shows(g, us, p, all, X)
  <2>1. Len(us) = m
    BY <1>0
  <2> QED
    BY <1>2, <1>3, <1>4, <1>5, <2>1 DEF Shows
<1> QED
  BY <1>6 DEF us, n

\* A proposal of p at the end of both.
LEMMA OneMore ==
  ASSUME NEW ts \in Seq(Nat), NEW all \in Seq(Entry), NEW X, NEW p \in Principals,
         NEW f, Shows(f, ts, p, all, X),
         NEW t \in Nat, NEW e \in Entry, e.who = p, e.at = t
  PROVE  \E g : Shows(g, Append(ts, t), p, Append(all, e), X)
<1> DEFINE n == Len(ts)
           k == Len(all)
           us == Append(ts, t)
           bs == Append(all, e)
           g == [i \in 1..(n + 1) |-> IF i = n + 1 THEN k + 1 ELSE f[i]]
<1>0. /\ n \in Nat /\ k \in Nat
      /\ Len(us) = n + 1 /\ us[n + 1] = t /\ \A i \in 1..n : us[i] = ts[i]
      /\ Len(bs) = k + 1 /\ bs[k + 1] = e /\ \A i \in 1..k : bs[i] = all[i]
  OBVIOUS
<1> HIDE DEF us, bs
<1>1. /\ f \in [1..n -> 1..k]
      /\ \A i, j \in 1..n : i < j => f[i] < f[j]
      /\ \A i \in 1..n : all[f[i]].who = p /\ all[f[i]].at = ts[i]
      /\ \A l \in 1..k :
           all[l].who = p /\ (\A i \in 1..n : f[i] # l) =>
             /\ \A i \in 1..n : l < f[i]
             /\ l \in X \/ n >= MaxKept
  BY DEF Shows
<1> HIDE DEF n, k
<1>s. \A i \in 1..(n + 1) : i \in 1..n \/ i = n + 1
  BY <1>0
<1>2. /\ g \in [1..(n + 1) -> 1..(k + 1)]
      /\ g[n + 1] = k + 1 /\ \A i \in 1..n : g[i] = f[i] /\ f[i] \in 1..k
  <2>1. n + 1 \in 1..(n + 1) /\ \A i \in 1..n : i \in 1..(n + 1) /\ i # n + 1
    BY <1>0
  <2>2. k + 1 \in 1..(k + 1) /\ \A l \in 1..k : l \in 1..(k + 1)
    BY <1>0
  <2>3. g[n + 1] = k + 1 /\ \A i \in 1..n : g[i] = f[i] /\ f[i] \in 1..k
    BY <1>1, <2>1
  <2>4. \A i \in 1..(n + 1) : g[i] \in 1..(k + 1)
    <3> HIDE DEF g
    <3> QED
      BY <1>s, <2>2, <2>3
  <2> QED
    BY <2>3, <2>4
<1> HIDE DEF g
<1>3. \A i, j \in 1..(n + 1) : i < j => g[i] < g[j]
  <2> SUFFICES ASSUME NEW i \in 1..(n + 1), NEW j \in 1..(n + 1), i < j
               PROVE  g[i] < g[j]
    OBVIOUS
  <2>1. i \in 1..n
    BY <1>0, <1>s
  <2>2. CASE j \in 1..n
    BY <1>1, <1>2, <2>1, <2>2
  <2>3. CASE j = n + 1
    <3>1. g[i] \in 1..k /\ g[j] = k + 1
      BY <1>2, <2>1, <2>3
    <3> QED
      BY <1>0, <3>1
  <2> QED
    BY <1>s, <2>2, <2>3
<1>4. \A i \in 1..(n + 1) : bs[g[i]].who = p /\ bs[g[i]].at = us[i]
  <2> TAKE i \in 1..(n + 1)
  <2>1. CASE i \in 1..n
    BY <1>0, <1>1, <1>2, <2>1
  <2>2. CASE i = n + 1
    BY <1>0, <1>2, <2>2
  <2> QED
    BY <1>s, <2>1, <2>2
<1>5. ASSUME NEW l \in 1..(k + 1), bs[l].who = p, \A i \in 1..(n + 1) : g[i] # l
      PROVE  /\ \A i \in 1..(n + 1) : l < g[i]
             /\ l \in X \/ n + 1 >= MaxKept
  <2>1. l # k + 1
    <3>1. n + 1 \in 1..(n + 1)
      BY <1>0
    <3> QED
      BY <1>2, <1>5, <3>1
  <2>2. l \in 1..k /\ bs[l] = all[l]
    BY <1>0, <2>1
  <2>3. \A i \in 1..n : f[i] # l
    <3>1. \A i \in 1..n : i \in 1..(n + 1)
      BY <1>0
    <3> QED
      BY <1>2, <1>5, <3>1
  <2>4. /\ \A i \in 1..n : l < f[i]
        /\ l \in X \/ n >= MaxKept
    BY <1>1, <1>5, <2>2, <2>3
  <2>5. \A i \in 1..(n + 1) : l < g[i]
    <3> TAKE i \in 1..(n + 1)
    <3>1. CASE i \in 1..n
      BY <1>2, <2>4, <3>1
    <3>2. CASE i = n + 1
      BY <1>0, <1>2, <2>2, <3>2
    <3> QED
      BY <1>s, <3>1, <3>2
  <2>6. n >= MaxKept => n + 1 >= MaxKept
    BY <1>0, LimitsAssumption DEF MaxKept
  <2> QED
    BY <2>2, <2>4, <2>5, <2>6
<1>6. Shows(g, us, p, bs, X)
  BY <1>0, <1>2, <1>3, <1>4, <1>5 DEF Shows
<1> QED
  BY <1>6 DEF us, bs

\* A proposal of somebody else changes nothing for p.
LEMMA SomebodyElse ==
  ASSUME NEW ts \in Seq(Nat), NEW all \in Seq(Entry), NEW X, NEW p \in Principals,
         NEW f, Shows(f, ts, p, all, X),
         NEW e \in Entry, e.who # p
  PROVE  Shows(f, ts, p, Append(all, e), X)
<1> DEFINE k == Len(all)
           bs == Append(all, e)
<1>0. /\ k \in Nat /\ Len(ts) \in Nat
      /\ Len(bs) = k + 1 /\ bs[k + 1] = e /\ \A i \in 1..k : bs[i] = all[i]
  OBVIOUS
<1> HIDE DEF bs
<1>1. /\ f \in [1..Len(ts) -> 1..k]
      /\ \A i, j \in 1..Len(ts) : i < j => f[i] < f[j]
      /\ \A i \in 1..Len(ts) : all[f[i]].who = p /\ all[f[i]].at = ts[i]
      /\ \A l \in 1..k :
           all[l].who = p /\ (\A i \in 1..Len(ts) : f[i] # l) =>
             /\ \A i \in 1..Len(ts) : l < f[i]
             /\ l \in X \/ Len(ts) >= MaxKept
  BY DEF Shows
<1> HIDE DEF k
<1>2. \A l \in 1..(k + 1) : l \in 1..k \/ l = k + 1
  BY <1>0
<1>3. f \in [1..Len(ts) -> 1..(k + 1)]
  <2>1. \A l \in 1..k : l \in 1..(k + 1)
    BY <1>0
  <2> QED
    BY <1>1, <2>1
<1>4. \A i \in 1..Len(ts) : bs[f[i]].who = p /\ bs[f[i]].at = ts[i]
  BY <1>0, <1>1
<1>5. ASSUME NEW l \in 1..(k + 1), bs[l].who = p
      PROVE  l \in 1..k /\ bs[l] = all[l]
  BY <1>0, <1>2, <1>5
<1>6. Shows(f, ts, p, bs, X)
  BY <1>0, <1>1, <1>3, <1>4, <1>5 DEF Shows
<1> QED
  BY <1>6 DEF bs

\* The more is excused, the less a queue has to show.
LEMMA ShowsLater ==
  ASSUME NEW ts, NEW all, NEW X, NEW Y, X \subseteq Y, NEW p, NEW f, Shows(f, ts, p, all, X)
  PROVE  Shows(f, ts, p, all, Y)
BY DEF Shows

\* What is excused stays so as proposals and evictions are added.
LEMMA ExcusedGrows ==
  ASSUME NEW all \in Seq(Entry), NEW e \in Entry, NEW p, NEW ev, NEW more, ev \subseteq more
  PROVE  Excused(p, all, ev) \subseteq Excused(p, Append(all, e), more)
<1> DEFINE n == Len(all)
           bs == Append(all, e)
<1>1. /\ n \in Nat /\ Len(bs) = n + 1 /\ \A k \in 1..n : bs[k] = all[k] /\ k \in 1..(n + 1)
  OBVIOUS
<1> HIDE DEF bs, n
<1>2. Len(all) = n
  BY DEF n
<1>3. Excused(p, all, ev) \subseteq Excused(p, bs, more)
  BY <1>1, <1>2 DEF Excused
<1> QED
  BY <1>3 DEF bs

\* The length of a queue tells as much as the number of proposals in the window.
LEMMA LengthTells ==
  ASSUME NEW ts \in Seq(Nat), NEW all \in Seq(Entry), NEW t \in Nat, NEW X, NEW p \in Principals,
         NEW f, Shows(f, ts, p, all, X),
         \A i \in 1..Len(ts) : Recent(ts[i], t),
         \A k \in Counted(p, all, t) : k \notin X
  PROVE  Severity(Len(ts)) = Severity(Cardinality(Counted(p, all, t)))
<1> DEFINE n == Len(ts)
<1>c. PICK c : /\ c = Counted(p, all, t)
               /\ c = {k \in 1..Len(all) : all[k].who = p /\ Recent(all[k].at, t)}
               /\ \A k \in c : k \notin X
  BY DEF Counted, Mine
<1>0. n \in Nat /\ Len(all) \in Nat /\ Critical \in Nat /\ Warning \in Nat /\ Warning <= Critical
  BY LimitsAssumption
<1>1. IsFiniteSet(c) /\ Cardinality(c) \in Nat
  <2>1. IsFiniteSet(1..Len(all))
    BY <1>0, FS_Interval
  <2>2. c \in SUBSET (1..Len(all))
    BY <1>c
  <2>3. IsFiniteSet(c)
    BY <2>1, <2>2, FS_Subset
  <2> QED
    BY <2>3, FS_CardinalityType
<1>2. f \in [1..n -> c]
  <2>1. \A i \in 1..n : f[i] \in 1..Len(all) /\ all[f[i]].who = p /\ all[f[i]].at = ts[i]
    BY DEF Shows
  <2>2. \A i \in 1..n : f[i] \in c
    BY <1>c, <2>1
  <2>3. f \in [1..n -> 1..Len(all)]
    BY DEF Shows
  <2> QED
    BY <2>2, <2>3
<1>3. f \in Injection(1..n, c)
  <2>1. \A i, j \in 1..n : i < j => f[i] < f[j]
    BY DEF Shows
  <2>2. \A i \in 1..n : f[i] \in Nat
    <3>1. f \in [1..n -> 1..Len(all)]
      BY DEF Shows
    <3> QED
      BY <1>0, <3>1
  <2>3. \A i, j \in 1..n : f[i] = f[j] => i = j
    BY <1>0, <2>1, <2>2
  <2> QED
    BY <1>2, <2>3, Fun_IsInj
<1>4. Cardinality(1..n) = n /\ IsFiniteSet(1..n)
  <2>1. 1 \in Int /\ n \in Int
    BY <1>0
  <2>2. IsFiniteSet(1..n) /\ Cardinality(1..n) = IF 1 > n THEN 0 ELSE n - 1 + 1
    BY <2>1, FS_Interval
  <2> QED
    BY <1>0, <2>2
<1>5. n <= Cardinality(c)
  BY <1>1, <1>3, <1>4, FS_Injection
<1>6. CASE n >= MaxKept
  <2>1. n >= Critical /\ Cardinality(c) >= Critical
    BY <1>0, <1>1, <1>5, <1>6 DEF MaxKept
  <2>2. Severity(n) = "critical" /\ Severity(Cardinality(c)) = "critical"
    <3>1. \A x \in Nat : x >= Critical => Severity(x) = "critical"
      <4> SUFFICES ASSUME NEW x \in Nat, x >= Critical
                   PROVE  Severity(x) = "critical"
        OBVIOUS
      <4>1. ~(x < Critical)
        BY <1>0
      <4> QED
        BY <4>1 DEF Severity
    <3> QED
      BY <1>0, <1>1, <2>1, <3>1
  <2> QED
    BY <1>c, <2>2
<1>7. CASE ~(n >= MaxKept) /\ \A k \in c : \E i \in 1..n : f[i] = k
  <2>1. f \in Surjection(1..n, c)
    BY <1>2, <1>7, Fun_IsSurj
  <2>2. Cardinality(c) = n
    BY <1>1, <1>3, <1>4, <2>1, FS_Injection
  <2> QED
    BY <1>c, <2>2
<1>8. CASE ~(n >= MaxKept) /\ \E k \in c : \A i \in 1..n : f[i] # k
  <2>1. PICK k \in c : \A i \in 1..n : f[i] # k
    BY <1>8
  <2>2. k \in 1..Len(all) /\ all[k].who = p /\ Recent(all[k].at, t)
    BY <1>c, <2>1
  <2>3. k \in X
    BY <1>8, <2>1, <2>2 DEF Shows
  <2> QED
    BY <1>c, <2>1, <2>3
<1> QED
  BY <1>6, <1>7, <1>8

\* What pruning and the cap make of a queue.
LEMMA QueueAfter ==
  ASSUME NEW ts \in Seq(Nat), NEW at \in Nat
  PROVE  /\ \E d \in 0..Len(ts) :
              /\ Pruned(ts, at) = SubSeq(ts, d + 1, Len(ts))
              /\ \A i \in 1..d : ~Recent(ts[i], at)
              /\ d < Len(ts) => Recent(ts[d + 1], at)
         /\ \E d \in 0..Len(ts) :
              /\ Latest(ts) = SubSeq(ts, d + 1, Len(ts))
              /\ d = 0 \/ Len(ts) - d >= MaxKept
<1> DEFINE n == Len(ts)
<1>0. n \in Nat /\ MaxKept \in Nat
  BY LimitsAssumption DEF MaxKept
<1>1. \E d \in 0..n :
        /\ Pruned(ts, at) = SubSeq(ts, d + 1, n)
        /\ \A i \in 1..d : ~Recent(ts[i], at)
        /\ d < n => Recent(ts[d + 1], at)
  <2> DEFINE S == {m \in 1..(n + 1) : m > n \/ Recent(ts[m], at)}
  <2>1. S \in SUBSET Nat /\ n + 1 \in S
    BY <1>0
  <2>2. Min(S) \in S /\ \A i \in S : Min(S) <= i
    <3> HIDE DEF S
    <3> QED
      BY <2>1, LeastNumber
  <2>3. PICK m \in 1..(n + 1) : m = Min(S) /\ (m > n \/ Recent(ts[m], at))
    BY <2>2
  <2>4. Pruned(ts, at) = SubSeq(ts, m, n)
    <3>1. S = {l \in 1..(Len(ts) + 1) : l > Len(ts) \/ Recent(ts[l], at)}
      OBVIOUS
    <3> HIDE DEF S
    <3> QED
      BY <2>3, <3>1 DEF Pruned
  <2> HIDE DEF n
  <2>5. \A i \in 1..(m - 1) : ~Recent(ts[i], at)
    <3> SUFFICES ASSUME NEW i \in 1..(m - 1), Recent(ts[i], at) PROVE FALSE
      OBVIOUS
    <3>1. i \in 1..(n + 1) /\ i < m
      BY <1>0
    <3>2. i \in S
      BY <3>1
    <3>3. m <= i
      BY <2>2, <2>3, <3>2
    <3> QED
      BY <3>1, <3>3, <1>0
  <2>6. m - 1 \in 0..n /\ (m - 1) + 1 = m /\ (m - 1 < n => ~(m > n))
    BY <1>0
  <2> HIDE DEF S
  <2> QED
    BY <2>3, <2>4, <2>5, <2>6
<1>2. \E d \in 0..n :
        /\ Latest(ts) = SubSeq(ts, d + 1, n)
        /\ d = 0 \/ n - d >= MaxKept
  <2> DEFINE k == Min({n, MaxKept})
  <2>1. k = IF n <= MaxKept THEN n ELSE MaxKept
    BY <1>0, MinOfTwo
  <2>2. Latest(ts) = SubSeq(ts, n - k + 1, n)
    BY DEF Latest
  <2> HIDE DEF k, n
  <2>3. n - k \in 0..n /\ (n - k = 0 \/ n - (n - k) >= MaxKept)
    BY <1>0, <2>1
  <2> QED
    BY <2>2, <2>3
<1> QED
  BY <1>1, <1>2

\* The initial states.
LEMMA ProfilerStart ==
  ASSUME LimitsInit
  PROVE  ProfilerInv
<1> DEFINE em == <<>>
<1>1. em \in Seq(Nat) /\ em \in Seq(Entry) /\ Len(em) = 0 /\ DOMAIN em = {}
      /\ em \in [DOMAIN em -> Seq(Nat)]
  OBVIOUS
<1>2. tick = 0 /\ asked = em /\ actors = em /\ finding = NoFinding
  BY DEF LimitsInit
<1> HIDE DEF em
<1>3. ProfilerType
  BY <1>1, <1>2 DEF ProfilerType
<1>4. QueuesFit
  <2> SUFFICES ASSUME NEW p \in Principals
               PROVE  \E f : Shows(f, Queue(p), p, asked, Excused(p, asked, evicted))
    BY DEF QueuesFit
  <2>1. Queue(p) = em
    BY <1>1, <1>2 DEF Queue, Bound, em
  <2>2. Shows(em, em, p, em, Excused(p, em, evicted))
    <3>1. 1..0 = {}
      OBVIOUS
    <3>2. em \in [1..0 -> 1..0]
      BY DEF em
    <3> QED
      BY <1>1, <3>1, <3>2 DEF Shows
  <2> QED
    BY <1>2, <2>1, <2>2
<1>5. FindingIsRight
  BY <1>2 DEF FindingIsRight
<1> QED
  BY <1>3, <1>4, <1>5 DEF ProfilerInv

\* When no proposal within the window has overtaken another and p was not dropped since the
\* first of them, none within the window is excused.
LEMMA NoneIsExcused ==
  ASSUME NEW all \in Seq(Entry), NEW p \in Principals, NEW ev, Len(all) > 0, all[Len(all)].who = p,
         NEW t, t = all[Len(all)].at, ~Dropped(p, all, t, ev), ~Overtaken(p, all, t)
  PROVE  \A k \in Counted(p, all, t) : k \notin Excused(p, all, ev)
<1> SUFFICES ASSUME NEW k \in Counted(p, all, t), k \in Excused(p, all, ev)
             PROVE  FALSE
  OBVIOUS
<1>m. PICK mine, c :
        /\ mine = {i \in 1..Len(all) : all[i].who = p}
        /\ c = {i \in mine : Recent(all[i].at, t)} /\ k \in c
        /\ ~(\E e \in ev : e.who = p /\ \E i \in c : i <= e.at)
        /\ ~(\E i \in c, m \in mine : i < m /\ all[m].at < all[i].at)
  BY DEF Counted, Mine, Dropped, Overtaken
<1> DEFINE n == Len(all)
<1>0. n \in Nat /\ n \in 1..n /\ Window \in Nat \ {0} /\ \A i \in 1..n : all[i].at \in Nat
  BY EntryFields, LimitsAssumption
<1>1. n \in mine
  BY <1>0, <1>m
<1>2. PICK m \in 1..n : k < m /\ all[m].who = p
                        /\ (~Recent(all[k].at, all[m].at) \/ all[m].at < all[k].at)
  BY <1>m DEF Excused
<1>3. m \in mine /\ k \in 1..n /\ ~Recent(all[k].at, all[m].at) /\ Recent(all[k].at, t)
  BY <1>2, <1>m
<1>4. all[m].at > all[n].at
  <2>1. PICK x \in Nat, y \in Nat, z \in Nat : x = all[k].at /\ y = all[m].at /\ z = all[n].at /\ z = t
    BY <1>0, <1>3
  <2>2. ~(y - x < Window) /\ z - x < Window
    BY <1>3, <2>1 DEF Recent
  <2>3. y > z
    BY <1>0, <2>2
  <2> QED
    BY <2>1, <2>3
<1>5. m \in c
  <2>1. Recent(all[m].at, t)
    BY <1>0, <1>4 DEF Recent
  <2> QED
    BY <1>3, <1>m, <2>1
<1>6. m < n
  <2>1. m # n
    BY <1>0, <1>4
  <2> QED
    BY <1>0, <2>1
<1> QED
  BY <1>1, <1>4, <1>5, <1>6, <1>m

\* When no proposal within the window was overtaken and the oldest that a queue shows is
\* within the window, all are.
LEMMA WindowIsClosed ==
  ASSUME NEW ts \in Seq(Nat), NEW all \in Seq(Entry), NEW t \in Nat, NEW X, NEW p \in Principals,
         NEW f, Shows(f, ts, p, all, X),
         ~Overtaken(p, all, t),
         Len(ts) > 0 => Recent(ts[1], t)
  PROVE  \A i \in 1..Len(ts) : Recent(ts[i], t)
<1> TAKE i \in 1..Len(ts)
<1>0. Len(ts) \in Nat /\ Window \in Nat /\ Len(all) \in Nat
  BY LimitsAssumption
<1>1. 1 \in 1..Len(ts) /\ Len(ts) > 0 /\ (i = 1 \/ 1 < i)
  BY <1>0
<1>2. /\ f[1] \in 1..Len(all) /\ f[i] \in 1..Len(all)
      /\ all[f[1]].at = ts[1] /\ all[f[i]].at = ts[i]
      /\ all[f[1]].who = p /\ all[f[i]].who = p
      /\ 1 < i => f[1] < f[i]
  BY <1>1 DEF Shows
<1>3. Recent(ts[1], t) /\ ts[1] \in Nat /\ ts[i] \in Nat
  BY <1>1
<1>4. CASE i = 1
  BY <1>3, <1>4
<1>5. CASE 1 < i
  <2>1. f[1] \in Counted(p, all, t) /\ f[i] \in Mine(p, all) /\ f[1] < f[i]
    BY <1>2, <1>3, <1>5 DEF Counted, Mine
  <2>2. ~(ts[i] < ts[1])
    BY <1>2, <2>1 DEF Overtaken
  <2> QED
    BY <1>0, <1>3, <2>2 DEF Recent
<1> QED
  BY <1>1, <1>4, <1>5

\* What pruning drops is excused once the proposal is on record.
LEMMA PruningIsExcused ==
  ASSUME NEW ts \in Seq(Nat), NEW all \in Seq(Entry), NEW at \in Nat, NEW ev, NEW p \in Principals,
         NEW X, NEW f, Shows(f, ts, p, all, X),
         NEW e \in Entry, e.who = p, e.at = at,
         NEW d \in 0..Len(ts), \A i \in 1..d : ~Recent(ts[i], at)
  PROVE  \A i \in 1..d : \A k \in 1..Len(all) :
           all[k].who = p /\ k <= f[i] => k \in Excused(p, Append(all, e), ev)
<1> SUFFICES ASSUME NEW i \in 1..d, NEW k \in 1..Len(all), all[k].who = p, k <= f[i]
             PROVE  k \in Excused(p, Append(all, e), ev)
  OBVIOUS
<1> DEFINE n == Len(all)
           bs == Append(all, e)
<1>0. /\ n \in Nat /\ Window \in Nat \ {0} /\ Len(ts) \in Nat /\ i \in 1..Len(ts)
      /\ \A l \in 1..n : all[l].at \in Nat
  BY EntryFields, LimitsAssumption
<1>1. /\ Len(bs) = n + 1 /\ bs[n + 1] = e /\ \A l \in 1..n : bs[l] = all[l] /\ l \in 1..(n + 1)
      /\ n + 1 \in 1..(n + 1) /\ k < n + 1
  OBVIOUS
<1>2. f[i] \in 1..n /\ all[f[i]].who = p /\ all[f[i]].at = ts[i]
  BY <1>0 DEF Shows
<1>3. ~Recent(all[f[i]].at, at)
  BY <1>2
<1> HIDE DEF n, bs
<1>4. PICK l \in 1..n : l = f[i] /\ all[l].who = p /\ ~Recent(all[l].at, at) /\ k <= l
  BY <1>2, <1>3
<1>5. CASE all[l].at < all[k].at
  <2>1. k < l
    <3>1. k # l
      BY <1>0, <1>4, <1>5
    <3> QED
      BY <1>0, <1>4, <3>1 DEF n
  <2>2. l \in 1..(n + 1) /\ bs[l].who = p /\ bs[l].at < bs[k].at /\ k \in 1..(n + 1) /\ bs[k].who = p
    BY <1>1, <1>4, <1>5 DEF n
  <2> QED
    BY <1>1, <2>1, <2>2 DEF Excused, bs
<1>6. CASE ~(all[l].at < all[k].at)
  <2>1. ~Recent(all[k].at, at)
    <3>1. PICK x \in Nat, y \in Nat : x = all[k].at /\ y = all[l].at
      <4>1. k \in 1..n /\ l \in 1..n
        BY DEF n
      <4> QED
        BY <1>0, <4>1
    <3>2. x <= y /\ ~(at - y < Window)
      <4>1. x <= y
        BY <1>6, <3>1
      <4>2. ~(at - y < Window)
        BY <1>4, <3>1 DEF Recent
      <4> QED
        BY <4>1, <4>2
    <3>3. ~(at - x < Window)
      BY <1>0, <3>2
    <3> QED
      BY <3>1, <3>3 DEF Recent
  <2>2. ~Recent(bs[k].at, bs[n + 1].at) /\ bs[n + 1].who = p /\ bs[k].who = p /\ k \in 1..(n + 1)
    BY <1>1, <2>1 DEF n
  <2> QED
    BY <1>1, <2>2 DEF Excused, bs
<1> QED
  BY <1>5, <1>6

\* A proposal that qualifies.
LEMMA InspectStep ==
  ASSUME ProfilerInv, NEW p \in Principals, NEW at \in Nat, Inspect(p, at)
  PROVE  ProfilerInv'
<1>0. ProfilerType /\ QueuesFit
  BY DEF ProfilerInv
<1> DEFINE em == <<>>
           n == Len(asked)
<1>m. em \in Seq(Nat) /\ Len(em) = 0
  OBVIOUS
<1>q. \A q : Queue(q) = IF q \in DOMAIN actors THEN actors[q] ELSE em
  BY DEF Queue, Bound
<1>c. tick \in Nat /\ tick' = tick /\ asked \in Seq(Entry) /\ n \in Nat
  BY <1>0 DEF ProfilerType, Inspect
<1>1. PICK e \in Entry : e = [who |-> p, at |-> at]
  BY DEF Entry
<1>2. /\ e.who = p /\ e.at = at /\ asked' = Append(asked, e)
      /\ asked' \in Seq(Entry) /\ Len(asked') = n + 1 /\ asked'[n + 1] = e
      /\ \A k \in 1..n : asked'[k] = asked[k]
  <2>1. e.who = p /\ e.at = at /\ asked' = Append(asked, e)
    BY <1>1 DEF Inspect
  <2> QED
    BY <1>c, <2>1
<1>s. \A k \in 1..(n + 1) : k \in 1..n \/ k = n + 1
  BY <1>c
<1>3. PICK victims :
        /\ victims = {} \/ (p \notin DOMAIN actors /\ \E q \in DOMAIN actors : victims = {q})
        /\ LET rest == Restrict(actors, DOMAIN actors \ victims)
               times == Latest(Append(Pruned(Bound(rest, p, em), at), at))
           IN /\ actors' = With(rest, p, times)
              /\ evicted' = evicted \cup {[who |-> q, at |-> n] : q \in victims}
              /\ finding' = [of |-> p, at |-> at, severity |-> Severity(Len(times))]
  BY DEF Inspect
<1> DEFINE rest == Restrict(actors, DOMAIN actors \ victims)
<1>4. /\ p \notin victims /\ victims \subseteq DOMAIN actors
      /\ DOMAIN rest = DOMAIN actors \ victims
      /\ \A q \in DOMAIN rest : rest[q] = actors[q]
      /\ evicted \subseteq evicted'
      /\ \A q \in victims : [who |-> q, at |-> n] \in evicted'
  BY <1>3 DEF Restrict
<1>5. Bound(rest, p, em) = Queue(p)
  <2>1. p \in DOMAIN rest <=> p \in DOMAIN actors
    BY <1>4
  <2> HIDE DEF rest
  <2> QED
    BY <1>4, <2>1 DEF Queue, Bound
<1> DEFINE ts == Queue(p)
           ps == Pruned(ts, at)
           us == Append(ps, at)
           times == Latest(us)
<1>6. /\ actors' = With(rest, p, times)
      /\ finding' = [of |-> p, at |-> at, severity |-> Severity(Len(times))]
  BY <1>3, <1>5
<1> HIDE DEF rest, em, n
<1>7. \A q \in Principals : Queue(q) \in Seq(Nat)
  BY <1>0, <1>m, <1>q DEF ProfilerType
<1>8. ts \in Seq(Nat)
  BY <1>7
\* what is excused afterwards
<1>x. PICK X : \A q \in Principals : X[q] = Excused(q, asked', evicted')
  <2> DEFINE xs == [q \in Principals |-> Excused(q, asked', evicted')]
  <2>1. \A q \in Principals : xs[q] = Excused(q, asked', evicted')
    OBVIOUS
  <2> HIDE DEF xs
  <2> QED
    BY <2>1
<1>y. \A q \in Principals : Excused(q, asked, evicted) \subseteq X[q]
  BY <1>c, <1>2, <1>4, <1>x, ExcusedGrows
<1>9. PICK f0 : Shows(f0, ts, p, asked, X[p])
  <2>1. PICK f : Shows(f, ts, p, asked, Excused(p, asked, evicted))
    BY <1>0 DEF QueuesFit
  <2> HIDE DEF ts
  <2> QED
    BY <1>y, <2>1, ShowsLater
<1> HIDE DEF ts
<1>11. PICK d \in 0..Len(ts) :
         /\ ps = SubSeq(ts, d + 1, Len(ts))
         /\ \A i \in 1..d : ~Recent(ts[i], at)
         /\ d < Len(ts) => Recent(ts[d + 1], at)
  BY <1>8, QueueAfter
<1> HIDE DEF ps
<1>12. /\ ps \in Seq(Nat) /\ Len(ps) = Len(ts) - d
       /\ Len(ps) > 0 => Recent(ps[1], at)
  <2>1. ps \in Seq(Nat) /\ Len(ps) = Len(ts) - d
        /\ \A i \in 1..(Len(ts) - d) : ps[i] = ts[d + i]
    BY <1>8, <1>11
  <2>2. ASSUME Len(ps) > 0 PROVE Recent(ps[1], at)
    <3>1. d < Len(ts) /\ 1 \in 1..(Len(ts) - d)
      BY <1>8, <2>1, <2>2
    <3> QED
      BY <1>11, <2>1, <3>1
  <2> QED
    BY <2>1, <2>2
<1>13. PICK f1 : Shows(f1, ps, p, asked, X[p])
  <2>1. \A i \in 1..d : \A k \in 1..Len(asked) :
          asked[k].who = p /\ k <= f0[i] => k \in Excused(p, Append(asked, e), evicted')
    BY <1>c, <1>2, <1>8, <1>9, <1>11, PruningIsExcused
  <2>2. \A i \in 1..d : \A k \in 1..Len(asked) : asked[k].who = p /\ k <= f0[i] => k \in X[p]
    BY <1>2, <1>x, <2>1
  <2> QED
    BY <1>c, <1>8, <1>9, <1>11, <2>2, DropFront
<1>15. /\ us \in Seq(Nat) /\ Len(us) = Len(ps) + 1 /\ us[Len(ps) + 1] = at
       /\ \A i \in 1..Len(ps) : us[i] = ps[i]
  <2>1. ps \in Seq(Nat) /\ at \in Nat
    BY <1>c, <1>12
  <2> QED
    BY <2>1
<1>16. PICK f2 : Shows(f2, us, p, asked', X[p])
  BY <1>c, <1>2, <1>12, <1>13, OneMore
<1> HIDE DEF us
<1>17. Len(us) > 0 => Recent(us[1], at)
  <2>0. Len(ps) \in Nat
    BY <1>12
  <2>1. CASE Len(ps) > 0
    <3>1. 1 \in 1..Len(ps)
      BY <2>0, <2>1
    <3> QED
      BY <1>12, <1>15, <2>1, <3>1
  <2>2. CASE Len(ps) = 0
    <3>1. us[1] = at
      BY <1>15, <2>2
    <3>2. Recent(at, at)
      BY LimitsAssumption DEF Recent
    <3> QED
      BY <3>1, <3>2
  <2> QED
    BY <2>0, <2>1, <2>2
<1>18. PICK x \in 0..Len(us) :
         /\ times = SubSeq(us, x + 1, Len(us))
         /\ x = 0 \/ Len(us) - x >= MaxKept
  BY <1>15, QueueAfter
<1> HIDE DEF times
<1>19. times \in Seq(Nat) /\ Len(times) = Len(us) - x
       /\ \A i \in 1..(Len(us) - x) : times[i] = us[x + i] /\ x + i \in 1..Len(us)
  BY <1>15, <1>18
<1>21. \E f : Shows(f, times, p, asked', X[p])
  <2>1. Len(us) \in Nat
    BY <1>15
  <2>2. \/ \A i \in 1..x : \A k \in 1..Len(asked') : asked'[k].who = p /\ k <= f2[i] => k \in X[p]
        \/ Len(us) - x >= MaxKept
    BY <1>18
  <2>3. PICK log \in Seq(Entry) : log = asked'
    BY <1>2
  <2>4. Shows(f2, us, p, log, X[p])
    BY <1>16, <2>3
  <2>5. \E f : Shows(f, SubSeq(us, x + 1, Len(us)), p, log, X[p])
    BY <1>15, <2>2, <2>3, <2>4, DropFront
  <2> QED
    BY <1>18, <2>3, <2>5
\* the queues
<1>22. /\ DOMAIN actors' = DOMAIN rest \cup {p} /\ actors'[p] = times
       /\ \A q \in DOMAIN rest : q # p => actors'[q] = actors[q]
       /\ actors' = [q \in DOMAIN actors' |-> actors'[q]]
  BY <1>4, <1>6 DEF With
<1>23. \A q : Queue(q)' = IF q \in DOMAIN actors' THEN actors'[q] ELSE em
  BY DEF Queue, Bound, em
<1>24. ProfilerType'
  <2>1. \A q \in DOMAIN actors' : actors'[q] \in Seq(Nat)
    <3>1. \A q \in DOMAIN actors : actors[q] \in Seq(Nat)
      BY <1>0 DEF ProfilerType
    <3> QED
      BY <1>4, <1>19, <1>22, <3>1
  <2>2. actors' \in [DOMAIN actors' -> Seq(Nat)]
    BY <1>22, <2>1
  <2> QED
    BY <1>c, <1>2, <2>2 DEF ProfilerType
<1>25. QueuesFit'
  <2> SUFFICES ASSUME NEW q \in Principals
               PROVE  \E f : Shows(f, Queue(q)', q, asked', X[q])
    BY <1>x DEF QueuesFit
  <2>1. CASE q = p
    BY <1>21, <1>22, <1>23, <2>1
  <2>2. CASE q # p /\ q \notin victims
    <3>1. Queue(q)' = Queue(q)
      BY <1>4, <1>22, <1>23, <1>q, <2>2
    <3>2. PICK f : Shows(f, Queue(q), q, asked, Excused(q, asked, evicted))
      BY <1>0 DEF QueuesFit
    <3>3. Queue(q) \in Seq(Nat)
      BY <1>7
    <3>4. Shows(f, Queue(q), q, asked, X[q])
      BY <1>y, <3>2, ShowsLater
    <3>5. Shows(f, Queue(q), q, asked', X[q])
      BY <1>c, <1>2, <2>2, <3>3, <3>4, SomebodyElse
    <3> QED
      BY <3>1, <3>5
  <2>3. CASE q # p /\ q \in victims
    <3>1. Queue(q)' = em
      BY <1>4, <1>22, <1>23, <2>3
    <3>2. 1..0 = {} /\ em \in [1..0 -> 1..Len(asked')]
      BY DEF em
    <3>3. PICK v : v \in evicted' /\ v = [who |-> q, at |-> n]
      BY <1>4, <2>3
    <3>4. v.who = q /\ v.at = n
      BY <3>3
    <3>5. ASSUME NEW k \in 1..Len(asked'), asked'[k].who = q
          PROVE  k \in X[q]
      <4>1. k \in 1..n
        BY <1>2, <1>s, <2>3, <3>5
      <4>2. k <= v.at
        BY <1>c, <3>4, <4>1
      <4> QED
        BY <1>x, <3>3, <3>4, <3>5, <4>2 DEF Excused
    <3>6. Shows(em, em, q, asked', X[q])
      BY <1>m, <3>2, <3>5 DEF Shows
    <3> QED
      BY <3>1, <3>6
  <2> QED
    BY <2>1, <2>2, <2>3
<1>26. FindingIsRight'
  <2>0. PICK ev : ev = evicted'
    OBVIOUS
  <2>1. PICK log \in Seq(Entry) :
          /\ log = asked' /\ ev = evicted' /\ Len(log) = n + 1 /\ log[n + 1].at = at
          /\ log[n + 1].who = p
    BY <1>2, <2>0
  <2>4. finding'.of = p /\ finding'.at = at /\ finding'.severity = Severity(Len(times))
    BY <1>6
  <2>5. ASSUME ~Dropped(p, log, at, ev), ~Overtaken(p, log, at)
        PROVE  Severity(Len(times)) = Severity(Cardinality(Counted(p, log, at)))
    <3>1. Len(log) > 0 /\ log[Len(log)].who = p /\ log[Len(log)].at = at
      BY <1>c, <2>1
    <3>2. \A k \in Counted(p, log, at) : k \notin Excused(p, log, ev)
      BY <2>5, <3>1, NoneIsExcused
    <3>3. \A k \in Counted(p, log, at) : k \notin X[p]
      BY <1>x, <2>1, <3>2
    <3>4. Shows(f2, us, p, log, X[p])
      BY <1>16, <2>1
    <3>5. \A i \in 1..Len(us) : Recent(us[i], at)
      BY <1>15, <1>17, <2>5, <3>4, WindowIsClosed
    <3>6. \A i \in 1..Len(times) : Recent(times[i], at)
      BY <1>19, <3>5
    <3>7. PICK f : Shows(f, times, p, log, X[p])
      BY <1>21, <2>1
    <3> QED
      BY <1>19, <3>3, <3>6, <3>7, LengthTells
  <2>6. Mine(p, log) = {k \in DOMAIN asked' : asked'[k].who = finding'.of}
    BY <2>1, <2>4 DEF Mine
  <2>7. Counted(p, log, at) = {k \in Mine(p, log) : Recent(asked'[k].at, finding'.at)}
    BY <2>1, <2>4 DEF Counted
  <2>8. PICK mine, c : mine = Mine(p, log) /\ c = Counted(p, log, at)
    OBVIOUS
  <2>9. \/ finding'.severity = Severity(Cardinality(c))
        \/ \E y \in evicted' : y.who = finding'.of /\ \E k \in c : k <= y.at
        \/ \E k \in c, m \in mine : k < m /\ asked'[m].at < asked'[k].at
    BY <2>1, <2>4, <2>5, <2>8 DEF Dropped, Overtaken
  <2> QED
    BY <2>6, <2>7, <2>8, <2>9 DEF FindingIsRight, Severity, Recent
<1> QED
  BY <1>24, <1>25, <1>26 DEF ProfilerInv

\* Every step keeps the queues and the finding right.
LEMMA ProfilerStepInv ==
  ASSUME ProfilerInv, ThrottleNext \/ ProfilerNext \/ UNCHANGED limitVars
  PROVE  ProfilerInv'
<1>0. ProfilerType /\ QueuesFit /\ FindingIsRight
  BY DEF ProfilerInv
<1>n. tick \in Nat /\ \A at \in 0..tick : at \in Nat
  BY <1>0 DEF ProfilerType
<1>1. CASE tick' \in Nat /\ UNCHANGED profilerVars
  <2>0. actors' = actors /\ asked' = asked /\ evicted' = evicted /\ finding' = finding
    BY <1>1 DEF profilerVars
  <2>1. ProfilerType'
    BY <1>0, <1>1, <2>0 DEF ProfilerType
  <2>2. QueuesFit'
    BY <1>0, <2>0 DEF QueuesFit, Queue, Bound
  <2>3. FindingIsRight'
    BY <1>0, <2>0 DEF FindingIsRight
  <2> QED
    BY <2>1, <2>2, <2>3 DEF ProfilerInv
<1>2. CASE TickLimits
  BY <1>1, <1>2, <1>n DEF TickLimits
<1>3. ASSUME NEW at \in 0..tick, NEW p \in Principals, Check(p, at) PROVE ProfilerInv'
  BY <1>1, <1>3, <1>n DEF Check
<1>4. ASSUME NEW at \in 0..tick, CleanupIdle(at) PROVE ProfilerInv'
  BY <1>1, <1>4, <1>n DEF CleanupIdle
<1>5. ASSUME NEW at \in 0..tick, NEW p \in Principals, Inspect(p, at) PROVE ProfilerInv'
  BY <1>5, <1>n, InspectStep
<1>6. CASE UNCHANGED limitVars
  BY <1>1, <1>6, <1>n DEF limitVars
<1> QED
  BY <1>2, <1>3, <1>4, <1>5, <1>6 DEF ThrottleNext, ProfilerNext

\* For any number of clients, any burst, rate and idle timeout, any window and any thresholds
\* in order: a client whose calls are counted in the order of their readings gets no more
\* through than the burst and the refill of the time between, although idle buckets are
\* forgotten, unless the burst is more than the idle timeout refills (check_at,
\* cleanup_idle); and a finding is as severe as the proposals within the window make it,
\* unless the principal was dropped at the limit since, or one of them has overtaken
\* another (inspect_proposal).
THEOREM LimitsAreKept == Spec => []LimitsHold
<1>1. Init => ThrottleInv /\ ProfilerInv
  BY ThrottleStart, ProfilerStart DEF Init
<1>2. ThrottleInv /\ ProfilerInv /\ [Next]_vars => (ThrottleInv /\ ProfilerInv)'
  <2> SUFFICES ASSUME ThrottleInv, ProfilerInv, [Next]_vars
               PROVE  ThrottleInv' /\ ProfilerInv'
    OBVIOUS
  <2>1. ThrottleNext \/ ProfilerNext \/ UNCHANGED limitVars
    BY StepOfPart
  <2> QED
    BY <2>1, ThrottleStepInv, ProfilerStepInv
<1>3. ThrottleInv /\ ProfilerInv => LimitsHold
  BY DEF ThrottleInv, ProfilerInv, LimitsHold
<1> QED
  BY <1>1, <1>2, <1>3, PTL DEF Spec

------------------------------------------------------------------------------
(* Decisions *)

\* A list of rules, as the bundles of Policies are.
IsRules(rules) ==
  /\ rules \in Seq(Range(rules))
  /\ \A r \in Range(rules) : r.decision \in Decisions /\ r.priority \in Int

\* The rules of a list, by their index.
LEMMA RuleFields ==
  ASSUME NEW rules, IsRules(rules)
  PROVE  /\ Len(rules) \in Nat /\ DOMAIN rules = 1..Len(rules)
         /\ \A i \in 1..Len(rules) :
              rules[i] \in Range(rules) /\ rules[i].decision \in Decisions /\ rules[i].priority \in Int
<1>1. Len(rules) \in Nat /\ DOMAIN rules = 1..Len(rules)
  BY DEF IsRules
<1>2. \A i \in 1..Len(rules) : rules[i] \in Range(rules)
  BY <1>1 DEF Range
<1> QED
  BY <1>1, <1>2 DEF IsRules

\* Decisions are told apart by their rank.
LEMMA RankFacts ==
  /\ \A d \in Decisions : Rank(d) \in 1..5 /\ Strictness[Rank(d)] = d
  /\ NoDecision \notin Decisions
  /\ Decisions = {"Allow", "AllowDraftOnly", "RequireApproval", "Quarantine", "Deny"}
<1>1. DOMAIN Strictness = 1..5
  BY DEF Strictness
<1>2. \A i \in 1..5 : i = 1 \/ i = 2 \/ i = 3 \/ i = 4 \/ i = 5
  OBVIOUS
<1>3. /\ Strictness[1] = "Allow" /\ Strictness[2] = "AllowDraftOnly"
      /\ Strictness[3] = "RequireApproval" /\ Strictness[4] = "Quarantine"
      /\ Strictness[5] = "Deny"
  BY DEF Strictness
<1>4. Decisions = {Strictness[i] : i \in 1..5}
  BY <1>1 DEF Decisions, Range
<1>5. Decisions = {"Allow", "AllowDraftOnly", "RequireApproval", "Quarantine", "Deny"}
  BY <1>2, <1>3, <1>4
<1>6. NoDecision \notin Decisions
  BY <1>5 DEF NoDecision
<1>7. ASSUME NEW d \in Decisions
      PROVE  Rank(d) \in 1..5 /\ Strictness[Rank(d)] = d
  <2>1. PICK r \in 1..5 : Strictness[r] = d
    BY <1>4
  <2>2. Rank(d) = CHOOSE q \in 1..5 : Strictness[q] = d
    BY <1>1 DEF Rank
  <2> QED
    BY <2>1, <2>2
<1> QED
  BY <1>5, <1>6, <1>7

\* The ranks themselves.
LEMMA RankValues ==
  /\ Rank("RequireApproval") = 3 /\ Rank("Quarantine") = 4 /\ Rank("Deny") = 5
<1>1. /\ "RequireApproval" \in Decisions /\ "Quarantine" \in Decisions /\ "Deny" \in Decisions
  BY RankFacts
<1>2. \A i \in 1..5 : i = 1 \/ i = 2 \/ i = 3 \/ i = 4 \/ i = 5
  OBVIOUS
<1>3. /\ Strictness[1] = "Allow" /\ Strictness[2] = "AllowDraftOnly"
      /\ Strictness[3] = "RequireApproval" /\ Strictness[4] = "Quarantine"
      /\ Strictness[5] = "Deny"
  BY DEF Strictness
<1>4. \A d \in Decisions : Rank(d) \in 1..5 /\ Strictness[Rank(d)] = d
  BY RankFacts
<1> QED
  BY <1>1, <1>2, <1>3, <1>4

\* The sort: a permutation of the rules by descending priority.
LEMMA SortFacts ==
  ASSUME NEW rules, IsRules(rules)
  PROVE  LET n == Len(rules)
             sorted == ByPriority(rules)
         IN  /\ \A k \in 1..n : \E i \in 1..n : sorted[k] = rules[i]
             /\ \A i \in 1..n : \E k \in 1..n : sorted[k] = rules[i]
             /\ \A k, l \in 1..n : k < l => sorted[l].priority <= sorted[k].priority
<1> DEFINE n == Len(rules)
           before(i, j) == \/ rules[i].priority > rules[j].priority
                           \/ rules[i].priority = rules[j].priority /\ i < j
           B(i) == {j \in 1..n : before(j, i)}
           place(i) == Cardinality(B(i)) + 1
<1>0. n \in Nat /\ DOMAIN rules = 1..n /\ \A i \in 1..n : rules[i].priority \in Int
  BY RuleFields
<1> HIDE DEF n
<1>1. IsFiniteSet(1..n) /\ Cardinality(1..n) = n
  <2>1. 1 \in Int /\ n \in Int
    BY <1>0
  <2>2. IsFiniteSet(1..n) /\ Cardinality(1..n) = IF 1 > n THEN 0 ELSE n - 1 + 1
    BY <2>1, FS_Interval
  <2> QED
    BY <1>0, <2>2
<1>2. \A i \in 1..n : IsFiniteSet(B(i)) /\ Cardinality(B(i)) \in Nat /\ place(i) \in 1..n
  <2> TAKE i \in 1..n
  <2>1. B(i) \in SUBSET ((1..n) \ {i})
    <3>1. i \notin B(i)
      BY <1>0
    <3> QED
      BY <3>1
  <2> HIDE DEF B
  <2>2. IsFiniteSet((1..n) \ {i}) /\ Cardinality((1..n) \ {i}) = n - 1
    BY <1>1, FS_RemoveElement
  <2>3. IsFiniteSet(B(i)) /\ Cardinality(B(i)) <= n - 1
    BY <2>1, <2>2, FS_Subset
  <2>4. Cardinality(B(i)) \in Nat
    BY <2>3, FS_CardinalityType
  <2>5. Cardinality(B(i)) + 1 \in 1..n
    BY <1>0, <2>3, <2>4
  <2> QED
    BY <2>3, <2>4, <2>5
<1>3. \A i, j \in 1..n : before(i, j) => place(i) < place(j)
  <2> SUFFICES ASSUME NEW i \in 1..n, NEW j \in 1..n, before(i, j)
               PROVE  place(i) < place(j)
    OBVIOUS
  <2>1. \A k \in 1..n : before(k, i) => before(k, j)
    BY <1>0
  <2>2. i \notin B(i) /\ i \in B(j)
    BY <1>0
  <2>3. (B(i) \cup {i}) \in SUBSET B(j)
    BY <2>1, <2>2
  <2> HIDE DEF B
  <2>4. Cardinality(B(i) \cup {i}) = Cardinality(B(i)) + 1
    BY <1>2, <2>2, FS_AddElement
  <2>5. Cardinality(B(i) \cup {i}) <= Cardinality(B(j))
    BY <1>2, <2>3, FS_Subset
  <2>6. Cardinality(B(i)) \in Nat /\ Cardinality(B(j)) \in Nat
    BY <1>2
  <2> QED
    BY <2>4, <2>5, <2>6
<1>4. \A i, j \in 1..n : i # j => before(i, j) \/ before(j, i)
  BY <1>0
<1>p. \A i \in 1..n : place(i) \in 1..n /\ place(i) \in Nat
  <2> HIDE DEF place, B
  <2> TAKE i \in 1..n
  <2>1. place(i) \in 1..n
    BY <1>2
  <2> QED
    BY <1>0, <2>1
<1>b. \A i, j \in 1..n : before(i, j) => rules[j].priority <= rules[i].priority
  BY <1>0
<1> DEFINE f == [i \in 1..n |-> place(i)]
<1> HIDE DEF place, before
<1>5. \A i, j \in 1..n : place(i) = place(j) => i = j
  <2> SUFFICES ASSUME NEW i \in 1..n, NEW j \in 1..n, place(i) = place(j), i # j
               PROVE  FALSE
    OBVIOUS
  <2>1. place(i) < place(j) \/ place(j) < place(i)
    BY <1>3, <1>4
  <2> QED
    BY <1>p, <2>1
<1>6. f \in [1..n -> 1..n] /\ \A i \in 1..n : f[i] = place(i)
  BY <1>p
<1> HIDE DEF f
<1>7. f \in Injection(1..n, 1..n)
  BY <1>5, <1>6, Fun_IsInj
<1>8. f \in Surjection(1..n, 1..n)
  BY <1>1, <1>7, FS_Injection
<1>9. \A k \in 1..n : \E i \in 1..n : place(i) = k
  <2>1. \A k \in 1..n : \E i \in 1..n : f[i] = k
    BY <1>8, Fun_SurjectionProperties
  <2> QED
    BY <1>6, <2>1
<1> DEFINE order == [k \in 1..n |-> CHOOSE i \in 1..n : place(i) = k]
<1>10. \A k \in 1..n : order[k] \in 1..n /\ place(order[k]) = k
  BY <1>9
<1>11. ByPriority(rules) = [k \in 1..n |-> rules[order[k]]]
  BY <1>0 DEF ByPriority, place, before
<1> HIDE DEF order
<1> DEFINE sorted == ByPriority(rules)
<1>12. \A k \in 1..n : sorted[k] = rules[order[k]]
  BY <1>11
<1> HIDE DEF sorted
<1>13. \A k \in 1..n : \E i \in 1..n : sorted[k] = rules[i]
  BY <1>10, <1>12
<1>14. \A i \in 1..n : \E k \in 1..n : sorted[k] = rules[i]
  <2> TAKE i \in 1..n
  <2>1. place(i) \in 1..n
    BY <1>p
  <2>2. order[place(i)] = i
    BY <1>5, <1>10, <2>1
  <2> QED
    BY <1>12, <2>1, <2>2
<1>15. \A k, l \in 1..n : k < l => sorted[l].priority <= sorted[k].priority
  <2> SUFFICES ASSUME NEW k \in 1..n, NEW l \in 1..n, k < l
               PROVE  sorted[l].priority <= sorted[k].priority
    OBVIOUS
  <2>1. order[k] \in 1..n /\ order[l] \in 1..n /\ place(order[k]) = k /\ place(order[l]) = l
    BY <1>10
  <2>2. before(order[k], order[l])
    <3>1. order[k] # order[l]
      BY <2>1, <1>0
    <3>2. ~before(order[l], order[k])
      <4> SUFFICES ASSUME before(order[l], order[k]) PROVE FALSE
        OBVIOUS
      <4>1. l < k
        BY <1>3, <2>1
      <4> QED
        BY <4>1, <1>0
    <3> QED
      BY <1>4, <2>1, <3>1, <3>2
  <2>3. rules[order[l]].priority <= rules[order[k]].priority
    BY <1>b, <2>1, <2>2
  <2> QED
    BY <1>0, <1>12, <2>1, <2>3
<1> QED
  BY <1>13, <1>14, <1>15 DEF sorted, n

\* What is found of the first k of the sorted rules: nothing if none matches, and else the
\* strictest decision of the highest priority that matches.
Picked(s, sorted, k, x) ==
  \/ /\ s.decision = NoDecision
     /\ \A i \in 1..k : ~EvaluateRuleMatchers(sorted[i], x)
  \/ \E i \in 1..k :
       /\ EvaluateRuleMatchers(sorted[i], x)
       /\ s.decision = sorted[i].decision /\ s.priority = sorted[i].priority
       /\ \A j \in 1..k : EvaluateRuleMatchers(sorted[j], x) =>
            /\ sorted[j].priority <= s.priority
            /\ sorted[j].priority = s.priority => Rank(sorted[j].decision) <= Rank(s.decision)

FoundSet == [decision : Decisions \cup {NoDecision}, priority : Int]

\* One turn of the loop, on rules in descending order of priority.
LEMMA PickStep ==
  ASSUME NEW n \in Nat, NEW sorted, NEW x, NEW k \in 1..n,
         \A i \in 1..n : sorted[i].decision \in Decisions /\ sorted[i].priority \in Int,
         \A i, j \in 1..n : i < j => sorted[j].priority <= sorted[i].priority,
         NEW s \in FoundSet, Picked(s, sorted, k - 1, x)
  PROVE  /\ RuleStep(x, s, sorted[k]) \in FoundSet
         /\ Picked(RuleStep(x, s, sorted[k]), sorted, k, x)
<1> DEFINE M(i) == EvaluateRuleMatchers(sorted[i], x)
           dec(i) == sorted[i].decision
           pri(i) == sorted[i].priority
<1>0. /\ \A i \in 1..n : dec(i) \in Decisions /\ pri(i) \in Int
      /\ \A i \in 1..n : i < k => pri(k) <= pri(i)
      /\ s.decision \in Decisions \cup {NoDecision} /\ s.priority \in Int
      /\ \A d \in Decisions : Rank(d) \in Int
      /\ NoDecision \notin Decisions
  BY RankFacts DEF FoundSet
<1>s. \A i \in 1..k : i \in 1..n /\ (i \in 1..(k - 1) \/ i = k)
  OBVIOUS
<1>t. k \in 1..k /\ \A i \in 1..(k - 1) : i \in 1..k /\ i \in 1..n /\ i < k
  OBVIOUS
<1>1. CASE ~M(k)
  <2>1. RuleStep(x, s, sorted[k]) = s
    BY <1>1 DEF RuleStep
  <2>2. Picked(s, sorted, k, x)
    <3>1. CASE s.decision = NoDecision /\ \A i \in 1..(k - 1) : ~M(i)
      BY <1>1, <1>s, <3>1 DEF Picked
    <3>2. ASSUME NEW i \in 1..(k - 1), M(i), s.decision = dec(i), s.priority = pri(i),
                 \A j \in 1..(k - 1) : M(j) =>
                   pri(j) <= s.priority /\ (pri(j) = s.priority => Rank(dec(j)) <= Rank(s.decision))
          PROVE  Picked(s, sorted, k, x)
      <4>1. i \in 1..k
        BY <1>t
      <4>2. \A j \in 1..k : M(j) => j \in 1..(k - 1)
        BY <1>1, <1>s
      <4> QED
        BY <3>2, <4>1, <4>2 DEF Picked
    <3> QED
      BY <3>1, <3>2 DEF Picked
  <2> QED
    BY <2>1, <2>2
<1>2. CASE M(k) /\ s.decision = NoDecision
  <2> DEFINE r == [priority |-> pri(k), decision |-> dec(k)]
  <2>1. RuleStep(x, s, sorted[k]) = r
    BY <1>2 DEF RuleStep
  <2>2. r \in FoundSet /\ r.decision = dec(k) /\ r.priority = pri(k)
    BY <1>0, <1>s, <1>t DEF FoundSet
  <2>3. \A i \in 1..(k - 1) : ~M(i)
    BY <1>0, <1>2, <1>t DEF Picked
  <2>4. \A j \in 1..k : M(j) => j = k
    BY <1>s, <2>3
  <2>5. pri(k) <= pri(k) /\ Rank(dec(k)) <= Rank(dec(k))
    BY <1>0
  <2> HIDE DEF r
  <2>6. Picked(r, sorted, k, x)
    BY <1>2, <1>t, <2>2, <2>4, <2>5 DEF Picked
  <2> QED
    BY <2>1, <2>2, <2>6
<1>3. CASE M(k) /\ s.decision # NoDecision
  <2>1. PICK i \in 1..(k - 1) :
          /\ M(i) /\ s.decision = dec(i) /\ s.priority = pri(i)
          /\ \A j \in 1..(k - 1) : M(j) =>
               pri(j) <= s.priority /\ (pri(j) = s.priority => Rank(dec(j)) <= Rank(s.decision))
    BY <1>3 DEF Picked
  <2>2. i \in 1..k /\ i \in 1..n /\ pri(k) <= pri(i) /\ pri(k) \in Int /\ pri(i) \in Int
        /\ dec(k) \in Decisions /\ dec(i) \in Decisions
    BY <1>0, <1>t
  <2>3. CASE s.priority # pri(k)
    <3>1. RuleStep(x, s, sorted[k]) = s
      BY <1>3, <2>3 DEF RuleStep
    <3>2. pri(k) < s.priority
      BY <2>1, <2>2, <2>3
    <3>3. \A j \in 1..k : M(j) =>
            pri(j) <= s.priority /\ (pri(j) = s.priority => Rank(dec(j)) <= Rank(s.decision))
      <4> TAKE j \in 1..k
      <4>1. CASE j = k
        BY <1>0, <2>2, <3>2, <4>1
      <4>2. CASE j \in 1..(k - 1)
        BY <2>1, <4>2
      <4> QED
        BY <1>s, <4>1, <4>2
    <3>4. Picked(s, sorted, k, x)
      BY <2>1, <2>2, <3>3 DEF Picked
    <3> QED
      BY <3>1, <3>4
  <2>4. CASE s.priority = pri(k)
    <3> DEFINE d == StricterDecision(s.decision, dec(k))
               r == [priority |-> pri(k), decision |-> d]
    <3>1. RuleStep(x, s, sorted[k]) = r
      BY <1>3, <2>4 DEF RuleStep
    <3>2. PICK h \in 1..k : /\ M(h) /\ pri(h) = pri(k) /\ d = dec(h) /\ d \in Decisions
                            /\ Rank(dec(k)) <= Rank(d) /\ Rank(s.decision) <= Rank(d)
      <4>1. Rank(s.decision) \in Int /\ Rank(dec(k)) \in Int
        BY <1>0, <2>1, <2>2
      <4>2. CASE Rank(s.decision) >= Rank(dec(k))
        <5>1. d = s.decision
          BY <4>2 DEF StricterDecision
        <5> HIDE DEF d
        <5> QED
          BY <4>1, <4>2, <5>1, <2>1, <2>2, <2>4
      <4>3. CASE ~(Rank(s.decision) >= Rank(dec(k)))
        <5>1. d = dec(k)
          BY <4>3 DEF StricterDecision
        <5> HIDE DEF d
        <5> QED
          BY <4>1, <4>3, <5>1, <1>3, <1>t, <2>2
      <4> QED
        BY <4>2, <4>3
    <3> HIDE DEF d
    <3>3. r \in FoundSet /\ r.decision = d /\ r.priority = pri(k)
      BY <2>2, <3>2 DEF FoundSet
    <3> HIDE DEF r
    <3>4. \A j \in 1..k : M(j) =>
            pri(j) <= r.priority /\ (pri(j) = r.priority => Rank(dec(j)) <= Rank(r.decision))
      <4> TAKE j \in 1..k
      <4>1. CASE j = k
        BY <2>2, <3>2, <3>3, <4>1
      <4>2. CASE j \in 1..(k - 1) /\ M(j)
        <5>1. pri(j) <= s.priority /\ (pri(j) = s.priority => Rank(dec(j)) <= Rank(s.decision))
          BY <2>1, <4>2
        <5>2. Rank(s.decision) \in Int /\ Rank(d) \in Int /\ Rank(dec(j)) \in Int
          BY <1>0, <1>s, <2>1, <2>2, <3>2
        <5> QED
          BY <2>4, <3>2, <3>3, <5>1, <5>2
      <4> QED
        BY <1>s, <4>1, <4>2
    <3>5. Picked(r, sorted, k, x)
      BY <3>2, <3>3, <3>4 DEF Picked
    <3> QED
      BY <3>1, <3>3, <3>5
  <2> QED
    BY <2>3, <2>4
<1> QED
  BY <1>1, <1>2, <1>3

\* What a list of rules decides: nothing if no rule matches, and else the strictest
\* decision of the highest priority that matches.
LEMMA RulesDecide ==
  ASSUME NEW rules, IsRules(rules), NEW x
  PROVE  LET d == EvaluateBundleRules(rules, x)
             n == Len(rules)
         IN  \/ d = NoDecision /\ \A i \in 1..n : ~EvaluateRuleMatchers(rules[i], x)
             \/ \E i \in 1..n :
                  /\ EvaluateRuleMatchers(rules[i], x) /\ d = rules[i].decision
                  /\ \A j \in 1..n : EvaluateRuleMatchers(rules[j], x) =>
                       /\ rules[j].priority <= rules[i].priority
                       /\ rules[j].priority = rules[i].priority => Rank(rules[j].decision) <= Rank(d)
<1> DEFINE n == Len(rules)
           sorted == ByPriority(rules)
<1>0. n \in Nat /\ \A i \in 1..n : rules[i].decision \in Decisions /\ rules[i].priority \in Int
  BY RuleFields
<1>1. /\ \A k \in 1..n : \E i \in 1..n : sorted[k] = rules[i]
      /\ \A i \in 1..n : \E k \in 1..n : sorted[k] = rules[i]
      /\ \A k, l \in 1..n : k < l => sorted[l].priority <= sorted[k].priority
  BY SortFacts
<1> HIDE DEF n, sorted
<1>2. \A k \in 1..n : sorted[k].decision \in Decisions /\ sorted[k].priority \in Int
  BY <1>0, <1>1
<1>3. Undecided \in FoundSet /\ Undecided.decision = NoDecision
  BY DEF Undecided, FoundSet
<1> DEFINE turn == [k \in 1..n |-> [s \in FoundSet |->
                      IF RuleStep(x, s, sorted[k]) \in FoundSet
                      THEN RuleStep(x, s, sorted[k]) ELSE s]]
<1>4. \A k \in 1..n : \A s \in FoundSet : turn[k][s] \in FoundSet
  OBVIOUS
<1>5. \A k \in 1..n : \A s \in FoundSet :
        RuleStep(x, s, sorted[k]) \in FoundSet => turn[k][s] = RuleStep(x, s, sorted[k])
  OBVIOUS
<1> HIDE DEF turn
<1>r. StepsWithin(turn, n, FoundSet)
  BY <1>4 DEF StepsWithin
<1>u. PICK f : Unfolds(f, Undecided, turn, n, FoundSet)
  BY <1>0, <1>3, <1>r, Recursion
<1>6. /\ f \in [0..n -> FoundSet] /\ f[0] = Undecided
      /\ \A k \in 1..n : f[k] = turn[k][f[k - 1]]
  BY <1>u DEF Unfolds
<1>7. \A k \in 0..n : Picked(f[k], sorted, k, x) /\ (k > 0 => f[k] = RuleStep(x, f[k - 1], sorted[k]))
  <2> DEFINE T == {k \in 0..n : Picked(f[k], sorted, k, x)
                                /\ (k > 0 => f[k] = RuleStep(x, f[k - 1], sorted[k]))}
  <2>1. 0 \in T
    <3>1. Picked(Undecided, sorted, 0, x)
      BY <1>3 DEF Picked
    <3> QED
      BY <1>0, <1>6, <3>1
  <2>2. \A k \in 1..n : k - 1 \in T => k \in T
    <3> SUFFICES ASSUME NEW k \in 1..n, k - 1 \in T
                 PROVE  k \in T
      OBVIOUS
    <3>1. f[k - 1] \in FoundSet /\ Picked(f[k - 1], sorted, k - 1, x)
      BY <1>0, <1>6
    <3>2. /\ RuleStep(x, f[k - 1], sorted[k]) \in FoundSet
          /\ Picked(RuleStep(x, f[k - 1], sorted[k]), sorted, k, x)
      BY <1>0, <1>1, <1>2, <3>1, PickStep
    <3>3. f[k] = RuleStep(x, f[k - 1], sorted[k])
      BY <1>5, <1>6, <3>1, <3>2
    <3>4. k \in 0..n
      BY <1>0
    <3> QED
      BY <3>2, <3>3, <3>4
  <2>3. 0..n \subseteq T
    <3> HIDE DEF T
    <3> QED
      BY <1>0, <2>1, <2>2, UpTo
  <2> QED
    BY <2>3
<1> DEFINE Rec(h) ==
      h = [k \in 0..n |-> IF k = 0 THEN Undecided ELSE RuleStep(x, h[k - 1], sorted[k])]
           found == CHOOSE h : Rec(h)
<1>8. Rec(f)
  BY <1>0, <1>6, <1>7
<1>9. Rec(found)
  <2> HIDE DEF Rec
  <2> QED
    BY <1>8
<1>10. EvaluateBundleRules(rules, x) = found[n].decision
  BY DEF EvaluateBundleRules, n, sorted
<1> HIDE DEF found
<1>11. found[n] = f[n]
  <2> DEFINE T == {k \in 0..n : found[k] = f[k]}
  <2>0. found[0] = Undecided /\ \A k \in 1..n : found[k] = RuleStep(x, found[k - 1], sorted[k])
    BY <1>0, <1>9
  <2>1. 0 \in T
    BY <1>0, <1>6, <2>0
  <2>2. \A k \in 1..n : k - 1 \in T => k \in T
    <3> SUFFICES ASSUME NEW k \in 1..n, k - 1 \in T
                 PROVE  k \in T
      OBVIOUS
    <3>1. k \in 0..n /\ k > 0 /\ found[k - 1] = f[k - 1]
      BY <1>0
    <3>2. found[k] = f[k]
      BY <1>7, <2>0, <3>1
    <3> QED
      BY <3>1, <3>2
  <2>3. 0..n \subseteq T
    <3> HIDE DEF T
    <3> QED
      BY <1>0, <2>1, <2>2, UpTo
  <2> QED
    BY <1>0, <2>3
<1>12. Picked(f[n], sorted, n, x)
  BY <1>0, <1>7
<1> DEFINE d == EvaluateBundleRules(rules, x)
<1>13. d = f[n].decision
  BY <1>10, <1>11
<1> HIDE DEF d
<1>14. CASE f[n].decision = NoDecision /\ \A k \in 1..n : ~EvaluateRuleMatchers(sorted[k], x)
  <2>1. \A i \in 1..n : ~EvaluateRuleMatchers(rules[i], x)
    BY <1>1, <1>14
  <2> QED
    BY <1>13, <1>14, <2>1 DEF d, n
<1>15. ASSUME NEW k \in 1..n,
              EvaluateRuleMatchers(sorted[k], x),
              f[n].decision = sorted[k].decision, f[n].priority = sorted[k].priority,
              \A j \in 1..n : EvaluateRuleMatchers(sorted[j], x) =>
                /\ sorted[j].priority <= f[n].priority
                /\ sorted[j].priority = f[n].priority =>
                     Rank(sorted[j].decision) <= Rank(f[n].decision)
       PROVE  \E i \in 1..n :
                  /\ EvaluateRuleMatchers(rules[i], x) /\ d = rules[i].decision
                  /\ \A j \in 1..n : EvaluateRuleMatchers(rules[j], x) =>
                       /\ rules[j].priority <= rules[i].priority
                       /\ rules[j].priority = rules[i].priority => Rank(rules[j].decision) <= Rank(d)
  <2>1. PICK i \in 1..n : sorted[k] = rules[i]
    BY <1>1
  <2>2. ASSUME NEW j \in 1..n, EvaluateRuleMatchers(rules[j], x)
        PROVE  /\ rules[j].priority <= rules[i].priority
               /\ rules[j].priority = rules[i].priority => Rank(rules[j].decision) <= Rank(d)
    <3>1. PICK l \in 1..n : sorted[l] = rules[j]
      BY <1>1
    <3> QED
      BY <1>13, <1>15, <2>1, <2>2, <3>1
  <2> QED
    BY <1>13, <1>15, <2>1, <2>2
<1> QED
  BY <1>12, <1>14, <1>15 DEF Picked, d, n

\* The loop over a bundle's rules computes the bundle's meaning: at most one decision is
\* the strictest of the leading rules, and it is the one the loop found.
LEMMA LoopMeansBundle ==
  ASSUME NEW rules, IsRules(rules), NEW x
  PROVE  /\ EvaluateBundleRules(rules, x) = BundleMeaning(rules, x)
         /\ EvaluateBundleRules(rules, x) \in Decisions \cup {NoDecision}
<1> DEFINE n == Len(rules)
           M(r) == EvaluateRuleMatchers(r, x)
           d == EvaluateBundleRules(rules, x)
<1>0. /\ n \in Nat /\ DOMAIN rules = 1..n
      /\ \A i \in 1..n : rules[i] \in Range(rules)
                         /\ rules[i].decision \in Decisions /\ rules[i].priority \in Int
  BY RuleFields
<1>1. Range(rules) = {rules[i] : i \in 1..n}
  BY <1>0 DEF Range
<1>2. \/ d = NoDecision /\ \A i \in 1..n : ~M(rules[i])
      \/ \E i \in 1..n :
           /\ M(rules[i]) /\ d = rules[i].decision
           /\ \A j \in 1..n : M(rules[j]) =>
                /\ rules[j].priority <= rules[i].priority
                /\ rules[j].priority = rules[i].priority => Rank(rules[j].decision) <= Rank(d)
  BY RulesDecide
<1> HIDE DEF n, M, d
<1>3. CASE d = NoDecision /\ \A i \in 1..n : ~M(rules[i])
  <2>1. Matching(rules, x) = {}
    BY <1>1, <1>3 DEF Matching, M
  <2> QED
    BY <1>3, <2>1 DEF BundleMeaning, d
<1>4. ASSUME NEW i \in 1..n, M(rules[i]), d = rules[i].decision,
             \A j \in 1..n : M(rules[j]) =>
                /\ rules[j].priority <= rules[i].priority
                /\ rules[j].priority = rules[i].priority => Rank(rules[j].decision) <= Rank(d)
      PROVE  d = BundleMeaning(rules, x) /\ d \in Decisions
  <2> DEFINE L == Leading(rules, x)
             D == {r.decision : r \in L}
             Best(e) == \A r \in L : Rank(r.decision) <= Rank(e)
  <2>0. d \in Decisions
    BY <1>0, <1>4
  <2>1. \A r \in Matching(rules, x) : \E j \in 1..n : r = rules[j] /\ M(rules[j])
    BY <1>1 DEF Matching, M
  <2>2. rules[i] \in Matching(rules, x)
    BY <1>0, <1>4 DEF Matching, M
  <2>3. rules[i] \in L
    <3>1. \A s \in Matching(rules, x) : s.priority <= rules[i].priority
      BY <1>4, <2>1
    <3> QED
      BY <2>2, <3>1 DEF Leading
  <2>4. \A r \in L : r.decision \in Decisions /\ Rank(r.decision) <= Rank(d)
    <3> TAKE r \in L
    <3>1. r \in Matching(rules, x) /\ rules[i].priority <= r.priority
      BY <2>2 DEF Leading
    <3>2. PICK j \in 1..n : r = rules[j] /\ M(rules[j])
      BY <2>1, <3>1
    <3>3. rules[j].priority <= rules[i].priority /\ rules[j].priority \in Int
          /\ rules[i].priority \in Int
      BY <1>0, <1>4, <3>2
    <3>4. rules[j].priority = rules[i].priority
      BY <3>1, <3>2, <3>3
    <3> QED
      BY <1>0, <1>4, <3>2, <3>4
  <2> HIDE DEF L
  <2>5. d \in D /\ Best(d)
    BY <1>4, <2>3, <2>4
  <2>6. \A e \in D : Best(e) => e = d
    <3> SUFFICES ASSUME NEW e \in D, Best(e)
                 PROVE  e = d
      OBVIOUS
    <3>1. e \in Decisions /\ Rank(e) <= Rank(d)
      BY <2>4
    <3>2. Rank(d) <= Rank(e)
      BY <1>4, <2>3
    <3>3. /\ Rank(d) \in 1..5 /\ Strictness[Rank(d)] = d
          /\ Rank(e) \in 1..5 /\ Strictness[Rank(e)] = e
      BY <2>0, <3>1, RankFacts
    <3>4. Rank(d) = Rank(e)
      BY <3>1, <3>2, <3>3
    <3> QED
      BY <3>3, <3>4
  <2>7. BundleMeaning(rules, x) = CHOOSE e \in D : Best(e)
    BY <2>2 DEF BundleMeaning, L
  <2> HIDE DEF D, Best
  <2>8. d = CHOOSE e \in D : Best(e)
    BY <2>5, <2>6
  <2> QED
    BY <2>0, <2>7, <2>8
<1> QED
  BY <1>2, <1>3, <1>4 DEF d

\* What the loop over the bundles has found after k of them.
Earliest(e, said, k) ==
  \/ e = NoDecision /\ \A i \in 1..k : said[i] = NoDecision
  \/ /\ e # NoDecision
     /\ \E i \in 1..k : /\ said[i] = e
                        /\ \A j \in 1..k : j < i => said[j] = NoDecision

\* The first bundle that decides, decides.
LEMMA FirstWins ==
  ASSUME NEW n \in Nat, NEW said, Len(said) = n,
         \A i \in 1..n : said[i] \in Decisions \cup {NoDecision}
  PROVE  LET deciding == {i \in 1..n : said[i] # NoDecision}
         IN  FirstDecision(said) = IF deciding = {} THEN NoDecision ELSE said[Min(deciding)]
<1> DEFINE S == Decisions \cup {NoDecision}
           turn == [k \in 1..n |-> [e \in S |-> IF e # NoDecision THEN e ELSE said[k]]]
<1>1. NoDecision \in S
  OBVIOUS
<1>2. \A k \in 1..n : \A e \in S : turn[k][e] \in S
  OBVIOUS
<1>3. \A k \in 1..n : \A e \in S : turn[k][e] = IF e # NoDecision THEN e ELSE said[k]
  OBVIOUS
<1> HIDE DEF S, turn
<1>4. StepsWithin(turn, n, S)
  BY <1>2 DEF StepsWithin
<1>5. PICK f : Unfolds(f, NoDecision, turn, n, S)
  BY <1>1, <1>4, Recursion
<1>6. /\ f \in [0..n -> S] /\ f[0] = NoDecision
      /\ \A k \in 1..n : f[k] = IF f[k - 1] # NoDecision THEN f[k - 1] ELSE said[k]
  <2>1. /\ f \in [0..n -> S] /\ f[0] = NoDecision
        /\ \A k \in 1..n : f[k] = turn[k][f[k - 1]]
    BY <1>5 DEF Unfolds
  <2>2. \A k \in 1..n : f[k - 1] \in S
    BY <2>1
  <2> QED
    BY <1>3, <2>1, <2>2
<1> DEFINE Rec(h) == h = [k \in 0..n |-> IF k = 0 THEN NoDecision
                                         ELSE IF h[k - 1] # NoDecision THEN h[k - 1] ELSE said[k]]
           found == CHOOSE h : Rec(h)
<1>7. Rec(f)
  BY <1>6
<1>8. Rec(found)
  <2> HIDE DEF Rec
  <2> QED
    BY <1>7
<1>9. FirstDecision(said) = found[n]
  BY DEF FirstDecision
<1> HIDE DEF found
<1>10. /\ found[0] = NoDecision
       /\ \A k \in 1..n : found[k] = IF found[k - 1] # NoDecision THEN found[k - 1] ELSE said[k]
  BY <1>8
<1> HIDE DEF Rec
<1> DEFINE T == {k \in 0..n : Earliest(found[k], said, k)}
<1>11. 0 \in T
  BY <1>10 DEF Earliest
<1>12. \A k \in 1..n : k - 1 \in T => k \in T
  <2> SUFFICES ASSUME NEW k \in 1..n, k - 1 \in T
               PROVE  k \in T
    OBVIOUS
  <2>0. k \in 0..n /\ k \in 1..k /\ Earliest(found[k - 1], said, k - 1)
        /\ (\A i \in 1..k : i \in 1..(k - 1) \/ i = k)
        /\ (\A i \in 1..(k - 1) : i \in 1..k /\ i < k)
    OBVIOUS
  <2>1. CASE found[k - 1] # NoDecision
    <3>1. found[k] = found[k - 1]
      BY <1>10, <2>1
    <3>2. PICK i \in 1..(k - 1) : said[i] = found[k - 1]
                                  /\ \A j \in 1..(k - 1) : j < i => said[j] = NoDecision
      BY <2>0, <2>1 DEF Earliest
    <3>3. \A j \in 1..k : j < i => j \in 1..(k - 1)
      OBVIOUS
    <3>4. Earliest(found[k], said, k)
      BY <2>0, <2>1, <3>1, <3>2, <3>3 DEF Earliest
    <3> QED
      BY <2>0, <3>4
  <2>2. CASE found[k - 1] = NoDecision
    <3>1. found[k] = said[k] /\ \A i \in 1..(k - 1) : said[i] = NoDecision
      BY <1>10, <2>0, <2>2 DEF Earliest
    <3>2. \A j \in 1..k : j < k => said[j] = NoDecision
      BY <3>1
    <3>3. Earliest(found[k], said, k)
      BY <2>0, <3>1, <3>2 DEF Earliest
    <3> QED
      BY <2>0, <3>3
  <2> QED
    BY <2>1, <2>2
<1>13. Earliest(found[n], said, n)
  <2> HIDE DEF T
  <2>1. 0..n \subseteq T
    BY <1>11, <1>12, UpTo
  <2> QED
    BY <2>1 DEF T
<1> DEFINE deciding == {i \in 1..n : said[i] # NoDecision}
<1>14. CASE deciding = {}
  BY <1>9, <1>13, <1>14 DEF Earliest
<1>15. CASE deciding # {}
  <2>1. PICK i \in 1..n : /\ said[i] = found[n] /\ found[n] # NoDecision
                          /\ \A j \in 1..n : j < i => said[j] = NoDecision
    BY <1>13, <1>15 DEF Earliest
  <2>2. deciding \in SUBSET Nat
    OBVIOUS
  <2>3. Min(deciding) \in deciding /\ \A j \in deciding : Min(deciding) <= j
    BY <1>15, <2>2, LeastNumber
  <2>4. i \in deciding /\ \A j \in deciding : i <= j
    BY <2>1
  <2>5. Min(deciding) = i
    <3> DEFINE m == Min(deciding)
    <3>1. m \in deciding /\ m <= i /\ i <= m
      BY <2>3, <2>4
    <3>2. m \in Nat
      BY <2>2, <3>1
    <3> HIDE DEF m
    <3>3. m = i
      BY <3>1, <3>2
    <3> QED
      BY <3>3 DEF m
  <2> QED
    BY <1>9, <1>15, <2>1, <2>5
<1> QED
  BY <1>14, <1>15

\* Two lists, one after the other.
LEMMA Joined ==
  ASSUME NEW S, NEW a \in Seq(S), NEW b \in Seq(S)
  PROVE  /\ a \o b \in Seq(S) /\ Len(a \o b) = Len(a) + Len(b)
         /\ DOMAIN (a \o b) = 1..(Len(a) + Len(b))
         /\ \A i \in 1..(Len(a) + Len(b)) :
              (a \o b)[i] = IF i <= Len(a) THEN a[i] ELSE b[i - Len(a)]
OBVIOUS

\* A bundle with the rules the engine adds is a list of rules: the bundle's own, then the two.
LEMMA WithInvariantRules ==
  ASSUME NEW rules, IsRules(rules)
  PROVE  LET all == rules \o InvariantRules
             n == Len(rules)
         IN  /\ IsRules(all) /\ Len(all) = n + 2
             /\ \A i \in 1..n : all[i] = rules[i]
             /\ all[n + 1] = InvariantRules[1] /\ all[n + 2] = InvariantRules[2]
<1> DEFINE n == Len(rules)
           added == InvariantRules
           all == rules \o added
<1>0. /\ n \in Nat /\ DOMAIN rules = 1..n
      /\ \A i \in 1..n : rules[i].decision \in Decisions /\ rules[i].priority \in Int
  BY RuleFields
<1>1. /\ Len(added) = 2 /\ DOMAIN added = 1..2
      /\ added[1].decision \in Decisions /\ added[1].priority \in Int
      /\ added[2].decision \in Decisions /\ added[2].priority \in Int
  BY PdpAssumption, RankFacts DEF InvariantRules
<1>2. rules \in Seq(Range(rules))
  BY DEF IsRules
<1>3. added \in Seq({added[1], added[2]})
  BY DEF InvariantRules
<1> DEFINE S == Range(rules) \cup {added[1], added[2]}
<1>4. rules \in Seq(S) /\ added \in Seq(S)
  BY <1>2, <1>3
<1> HIDE DEF n, added, S
<1>5. /\ all \in Seq(S) /\ Len(all) = n + 2 /\ DOMAIN all = 1..(n + 2)
      /\ \A i \in 1..(n + 2) : all[i] = IF i <= n THEN rules[i] ELSE added[i - n]
  <2>0. n = Len(rules) /\ n \in Nat
    BY <1>0 DEF n
  <2>1. Len(added) = 2
    BY <1>1
  <2>2. /\ all \in Seq(S) /\ Len(all) = n + Len(added) /\ DOMAIN all = 1..(n + Len(added))
        /\ \A i \in 1..(n + Len(added)) : all[i] = IF i <= n THEN rules[i] ELSE added[i - n]
    BY <1>4, <2>0, Joined
  <2> HIDE DEF all
  <2> QED
    BY <2>1, <2>2
<1> HIDE DEF all
<1>6. \A i \in 1..n : i \in 1..(n + 2) /\ all[i] = rules[i]
  BY <1>0, <1>5
<1>7. n + 1 \in 1..(n + 2) /\ all[n + 1] = added[1]
  BY <1>0, <1>5
<1>8. n + 2 \in 1..(n + 2) /\ all[n + 2] = added[2]
  BY <1>0, <1>5
<1>9. \A i \in 1..(n + 2) : i \in 1..n \/ i = n + 1 \/ i = n + 2
  BY <1>0
<1>10. \A i \in 1..(n + 2) : all[i].decision \in Decisions /\ all[i].priority \in Int
  BY <1>0, <1>1, <1>6, <1>7, <1>8, <1>9
<1>11. Range(all) = {all[i] : i \in 1..(n + 2)}
  BY <1>5 DEF Range
<1>12. all \in Seq(Range(all))
  BY <1>0, <1>5, <1>11
<1>13. IsRules(all)
  BY <1>10, <1>11, <1>12 DEF IsRules
<1> QED
  BY <1>5, <1>6, <1>7, <1>8, <1>13 DEF all, added, n

\* The shipped bundle is a list of rules.
LEMMA StaticDefaultIsRules == IsRules(StaticDefault)
<1> DEFINE r == StaticDefault
<1>1. /\ Len(r) = 4 /\ DOMAIN r = 1..4
      /\ r[1].decision \in Decisions /\ r[1].priority \in Int
      /\ r[2].decision \in Decisions /\ r[2].priority \in Int
      /\ r[3].decision \in Decisions /\ r[3].priority \in Int
      /\ r[4].decision \in Decisions /\ r[4].priority \in Int
  BY RankFacts DEF StaticDefault
<1>2. r \in Seq({r[1], r[2], r[3], r[4]})
  BY DEF StaticDefault
<1> HIDE DEF r
<1>3. Range(r) = {r[1], r[2], r[3], r[4]}
  <2>1. \A i \in 1..4 : i = 1 \/ i = 2 \/ i = 3 \/ i = 4
    OBVIOUS
  <2>2. Range(r) = {r[i] : i \in 1..4}
    BY <1>1 DEF Range
  <2> QED
    BY <2>1, <2>2
<1>4. IsRules(r)
  BY <1>1, <1>2, <1>3 DEF IsRules
<1> QED
  BY <1>4 DEF r

\* With one bundle, the engine decides by that bundle and the two rules.
LEMMA OneBundle ==
  ASSUME NEW rules, IsRules(rules), NEW x
  PROVE  LET d == EvaluateBundleRules(rules \o InvariantRules, x)
         IN  BundleEngine(<<rules>>, x) = OutcomePass(IF d = NoDecision THEN "Allow" ELSE d, x)
<1> DEFINE d == EvaluateBundleRules(rules \o InvariantRules, x)
           said == [i \in 1..Len(<<rules>>) |-> EvaluateBundleRules(<<rules>>[i] \o InvariantRules, x)]
<1>1. d \in Decisions \cup {NoDecision}
  BY WithInvariantRules, LoopMeansBundle
<1>2. BundleEngine(<<rules>>, x) =
        OutcomePass(IF FirstDecision(said) = NoDecision THEN "Allow" ELSE FirstDecision(said), x)
  BY DEF BundleEngine
<1>3. Len(<<rules>>) = 1 /\ <<rules>>[1] = rules
  OBVIOUS
<1>4. said = [i \in 1..1 |-> d]
  BY <1>3
<1> HIDE DEF d, said
<1>5. Len(said) = 1 /\ 1 \in Nat /\ \A i \in 1..1 : said[i] = d
  BY <1>4
<1>6. FirstDecision(said) = d
  <2> DEFINE deciding == {i \in 1..1 : said[i] # NoDecision}
  <2>1. FirstDecision(said) = IF deciding = {} THEN NoDecision ELSE said[Min(deciding)]
    BY <1>1, <1>5, FirstWins
  <2>2. CASE d = NoDecision
    BY <1>5, <2>1, <2>2
  <2>3. CASE d # NoDecision
    <3>1. deciding = {1}
      BY <1>5, <2>3
    <3>2. deciding \in SUBSET Nat /\ deciding # {}
      BY <3>1
    <3> HIDE DEF deciding
    <3>3. Min(deciding) \in deciding
      BY <3>2, LeastNumber
    <3>4. Min(deciding) = 1 /\ 1 \in 1..1
      BY <3>1, <3>3
    <3> QED
      BY <1>5, <2>1, <3>2, <3>4
  <2> QED
    BY <2>2, <2>3
<1> QED
  BY <1>2, <1>6 DEF d

\* Matching one or two matchers.
LEMMA MatcherFacts ==
  ASSUME NEW x
  PROVE  /\ \A r : r.matchers = {"scope_mismatch"} =>
              (EvaluateRuleMatchers(r, x) <=> ~x.scoped /\ IsMutation(x))
         /\ \A r : r.matchers = {"critical_risk_no_approval"} =>
              (EvaluateRuleMatchers(r, x) <=> x.critical /\ x.approval = "None")
         /\ \A r : r.matchers = {"taint_at_least_70", "action_is_mutation"} =>
              (EvaluateRuleMatchers(r, x) <=> x.tainted /\ IsMutation(x))
         /\ \A r : r.matchers = {"rollback_class_r3"} =>
              (EvaluateRuleMatchers(r, x) <=> x.class = "R3")
         /\ \A r : r.matchers = {"approval_mode_draft_only"} =>
              (EvaluateRuleMatchers(r, x) <=> x.approval = "DraftOnly")
         /\ \A r : r.matchers = {} => EvaluateRuleMatchers(r, x)
<1>1. (EvaluateMatcher("scope_mismatch", x) <=> ~x.scoped /\ IsMutation(x))
  BY DEF EvaluateMatcher
<1>2. (EvaluateMatcher("critical_risk_no_approval", x) <=> x.critical /\ x.approval = "None")
  BY DEF EvaluateMatcher
<1>3. (EvaluateMatcher("taint_at_least_70", x) <=> x.tainted)
  BY DEF EvaluateMatcher
<1>4. (EvaluateMatcher("action_is_mutation", x) <=> IsMutation(x))
  BY DEF EvaluateMatcher
<1>5. (EvaluateMatcher("rollback_class_r3", x) <=> x.class = "R3")
  BY DEF EvaluateMatcher
<1>6. (EvaluateMatcher("approval_mode_draft_only", x) <=> x.approval = "DraftOnly")
  BY DEF EvaluateMatcher
<1> QED
  BY <1>1, <1>2, <1>3, <1>4, <1>5, <1>6 DEF EvaluateRuleMatchers

\* The bundle shipped and the built-in engine agree on every context: the six rules have
\* six priorities, so one of them decides.
LEMMA EnginesAgree ==
  ASSUME NEW x
  PROVE  BundleEngine(<<StaticDefault>>, x) = StaticEngine(x)
<1> DEFINE all == StaticDefault \o InvariantRules
           d == EvaluateBundleRules(all, x)
           M(i) == EvaluateRuleMatchers(all[i], x)
<1>1. /\ Len(StaticDefault) = 4
      /\ StaticDefault[1] = [decision |-> "Quarantine", priority |-> 5,
                             matchers |-> {"taint_at_least_70", "action_is_mutation"}]
      /\ StaticDefault[2] = [decision |-> "RequireApproval", priority |-> 4,
                             matchers |-> {"rollback_class_r3"}]
      /\ StaticDefault[3] = [decision |-> "AllowDraftOnly", priority |-> 3,
                             matchers |-> {"approval_mode_draft_only"}]
      /\ StaticDefault[4] = [decision |-> "Allow", priority |-> 0, matchers |-> {}]
  BY DEF StaticDefault
<1>2. /\ InvariantRules[1] = [decision |-> "Deny", priority |-> Top,
                              matchers |-> {"scope_mismatch"}]
      /\ InvariantRules[2] = [decision |-> "RequireApproval", priority |-> Top - 1,
                              matchers |-> {"critical_risk_no_approval"}]
  BY DEF InvariantRules
<1>3. /\ IsRules(all) /\ Len(all) = 6
      /\ all[1] = StaticDefault[1] /\ all[2] = StaticDefault[2] /\ all[3] = StaticDefault[3]
      /\ all[4] = StaticDefault[4] /\ all[5] = InvariantRules[1] /\ all[6] = InvariantRules[2]
  <2> DEFINE r == StaticDefault
  <2>1. IsRules(r) /\ Len(r) = 4
    BY <1>1, StaticDefaultIsRules
  <2> HIDE DEF r
  <2>2. /\ IsRules(r \o InvariantRules) /\ Len(r \o InvariantRules) = 4 + 2
        /\ \A i \in 1..4 : (r \o InvariantRules)[i] = r[i]
        /\ (r \o InvariantRules)[4 + 1] = InvariantRules[1]
        /\ (r \o InvariantRules)[4 + 2] = InvariantRules[2]
    BY <2>1, WithInvariantRules
  <2> QED
    BY <2>2 DEF r
<1> HIDE DEF all
<1>4. /\ all[1].priority = 5 /\ all[2].priority = 4 /\ all[3].priority = 3
      /\ all[4].priority = 0 /\ all[5].priority = Top /\ all[6].priority = Top - 1
  BY <1>1, <1>2, <1>3
<1>5. /\ all[1].decision = "Quarantine" /\ all[2].decision = "RequireApproval"
      /\ all[3].decision = "AllowDraftOnly" /\ all[4].decision = "Allow"
      /\ all[5].decision = "Deny" /\ all[6].decision = "RequireApproval"
  BY <1>1, <1>2, <1>3
<1>6. /\ all[1].matchers = {"taint_at_least_70", "action_is_mutation"}
      /\ all[2].matchers = {"rollback_class_r3"}
      /\ all[3].matchers = {"approval_mode_draft_only"} /\ all[4].matchers = {}
      /\ all[5].matchers = {"scope_mismatch"}
      /\ all[6].matchers = {"critical_risk_no_approval"}
  BY <1>1, <1>2, <1>3
<1>7. /\ M(1) <=> x.tainted /\ IsMutation(x)
      /\ M(2) <=> x.class = "R3"
      /\ M(3) <=> x.approval = "DraftOnly"
      /\ M(4)
      /\ M(5) <=> ~x.scoped /\ IsMutation(x)
      /\ M(6) <=> x.critical /\ x.approval = "None"
  BY <1>6, MatcherFacts
<1>8. \/ d = NoDecision /\ \A i \in 1..6 : ~M(i)
      \/ \E i \in 1..6 :
           /\ M(i) /\ d = all[i].decision
           /\ \A j \in 1..6 : M(j) => all[j].priority <= all[i].priority
  BY <1>3, RulesDecide
<1> HIDE DEF d, M
<1>9. PICK i \in 1..6 : /\ M(i) /\ d = all[i].decision
                        /\ \A j \in 1..6 : M(j) => all[j].priority <= all[i].priority
  <2>1. 4 \in 1..6
    OBVIOUS
  <2> QED
    BY <1>7, <1>8, <2>1
<1>10. Top \in Int /\ Top > 6
  BY PdpAssumption
<1>11. /\ i = 5 => M(5) /\ d = "Deny"
       /\ i = 6 => M(6) /\ ~M(5) /\ d = "RequireApproval"
       /\ i = 1 => M(1) /\ ~M(5) /\ ~M(6) /\ d = "Quarantine"
       /\ i = 2 => M(2) /\ ~M(1) /\ ~M(5) /\ ~M(6) /\ d = "RequireApproval"
       /\ i = 3 => M(3) /\ ~M(1) /\ ~M(2) /\ ~M(5) /\ ~M(6) /\ d = "AllowDraftOnly"
       /\ i = 4 => ~M(1) /\ ~M(2) /\ ~M(3) /\ ~M(5) /\ ~M(6) /\ d = "Allow"
  BY <1>4, <1>5, <1>9, <1>10
<1>12. i = 1 \/ i = 2 \/ i = 3 \/ i = 4 \/ i = 5 \/ i = 6
  OBVIOUS
<1>13. BundleEngine(<<StaticDefault>>, x) = OutcomePass(IF d = NoDecision THEN "Allow" ELSE d, x)
  BY StaticDefaultIsRules, OneBundle DEF d, all
<1>14. d # NoDecision /\ OutcomePass(d, x) = StaticEngine(x)
  BY <1>7, <1>11, <1>12 DEF OutcomePass, StaticEngine, NoDecision
<1> QED
  BY <1>13, <1>14

\* The two rules come first if the bundle's own priorities are below theirs.
LEMMA ReservedRulesLead ==
  ASSUME NEW rules, IsRules(rules), \A r \in Range(rules) : r.priority < Top - 1, NEW x
  PROVE  /\ ~x.scoped /\ IsMutation(x) => BundleEngine(<<rules>>, x) = "Deny"
         /\ x.critical /\ x.approval = "None" =>
              Rank(BundleEngine(<<rules>>, x)) >= Rank("RequireApproval")
<1> DEFINE n == Len(rules)
           all == rules \o InvariantRules
           d == EvaluateBundleRules(all, x)
           M(i) == EvaluateRuleMatchers(all[i], x)
<1>0. n \in Nat /\ \A i \in 1..n : rules[i] \in Range(rules) /\ rules[i].priority \in Int
  BY RuleFields
<1>1. /\ InvariantRules[1] = [decision |-> "Deny", priority |-> Top,
                              matchers |-> {"scope_mismatch"}]
      /\ InvariantRules[2] = [decision |-> "RequireApproval", priority |-> Top - 1,
                              matchers |-> {"critical_risk_no_approval"}]
  BY DEF InvariantRules
<1>2. /\ IsRules(all) /\ Len(all) = n + 2
      /\ \A i \in 1..n : all[i] = rules[i]
      /\ all[n + 1] = InvariantRules[1] /\ all[n + 2] = InvariantRules[2]
  BY WithInvariantRules
<1>3. \/ d = NoDecision /\ \A i \in 1..(n + 2) : ~M(i)
      \/ \E i \in 1..(n + 2) :
           /\ M(i) /\ d = all[i].decision
           /\ \A j \in 1..(n + 2) : M(j) => all[j].priority <= all[i].priority
  BY <1>2, RulesDecide
<1>4. BundleEngine(<<rules>>, x) = OutcomePass(IF d = NoDecision THEN "Allow" ELSE d, x)
  BY OneBundle
<1> HIDE DEF n, all
<1>5. /\ all[n + 1].priority = Top /\ all[n + 1].decision = "Deny"
      /\ all[n + 2].priority = Top - 1 /\ all[n + 2].decision = "RequireApproval"
      /\ all[n + 1].matchers = {"scope_mismatch"}
      /\ all[n + 2].matchers = {"critical_risk_no_approval"}
  BY <1>1, <1>2
<1>6. /\ M(n + 1) <=> ~x.scoped /\ IsMutation(x)
      /\ M(n + 2) <=> x.critical /\ x.approval = "None"
  BY <1>5, MatcherFacts
<1>7. \A i \in 1..n : all[i].priority \in Int /\ all[i].priority < Top - 1
  BY <1>0, <1>2
<1>8. Top \in Int /\ n + 1 \in 1..(n + 2) /\ n + 2 \in 1..(n + 2)
      /\ \A i \in 1..(n + 2) : i \in 1..n \/ i = n + 1 \/ i = n + 2
  BY <1>0, PdpAssumption
<1> HIDE DEF d, M
<1>9. ASSUME ~x.scoped /\ IsMutation(x)
      PROVE  BundleEngine(<<rules>>, x) = "Deny"
  <2>1. PICK i \in 1..(n + 2) : /\ M(i) /\ d = all[i].decision
                                /\ \A j \in 1..(n + 2) : M(j) => all[j].priority <= all[i].priority
    BY <1>3, <1>6, <1>8, <1>9
  <2>2. Top <= all[i].priority
    BY <1>5, <1>6, <1>8, <1>9, <2>1
  <2>3. i = n + 1
    BY <1>5, <1>7, <1>8, <2>2
  <2>4. d = "Deny"
    BY <1>5, <2>1, <2>3
  <2> QED
    BY <1>4, <2>4 DEF OutcomePass, NoDecision
<1>10. ASSUME x.critical /\ x.approval = "None"
       PROVE  Rank(BundleEngine(<<rules>>, x)) >= Rank("RequireApproval")
  <2>1. PICK i \in 1..(n + 2) : /\ M(i) /\ d = all[i].decision
                                /\ \A j \in 1..(n + 2) : M(j) => all[j].priority <= all[i].priority
    BY <1>3, <1>6, <1>8, <1>10
  <2>2. Top - 1 <= all[i].priority
    BY <1>5, <1>6, <1>8, <1>10, <2>1
  <2>3. i = n + 1 \/ i = n + 2
    BY <1>7, <1>8, <2>2
  <2>4. d = "Deny" \/ d = "RequireApproval"
    BY <1>5, <2>1, <2>3
  <2>5. BundleEngine(<<rules>>, x) = "Deny" \/ BundleEngine(<<rules>>, x) = "RequireApproval"
    BY <1>4, <2>4 DEF OutcomePass, NoDecision
  <2> QED
    BY <2>5, RankValues
<1> QED
  BY <1>9, <1>10

\* The active bundles decide by the first that has something to say.
LEMMA ActiveMeans ==
  ASSUME NEW n \in Nat, NEW bundles, Len(bundles) = n,
         \A i \in 1..n : IsRules(bundles[i]), NEW x
  PROVE  LET deciding == {i \in 1..n : BundleMeaning(bundles[i], x) # NoDecision}
         IN  /\ deciding = {} => ActiveBundles(bundles, x) = NoDecision
             /\ deciding # {} =>
                  /\ ActiveBundles(bundles, x) = BundleMeaning(bundles[Min(deciding)], x)
                  /\ ActiveBundles(bundles, x) # NoDecision
<1> DEFINE said == [i \in 1..n |-> EvaluateBundleRules(bundles[i], x)]
           D == {i \in 1..n : said[i] # NoDecision}
           deciding == {i \in 1..n : BundleMeaning(bundles[i], x) # NoDecision}
<1>1. \A i \in 1..n : /\ said[i] = BundleMeaning(bundles[i], x)
                      /\ said[i] \in Decisions \cup {NoDecision}
  BY LoopMeansBundle
<1>2. Len(said) = n
  OBVIOUS
<1>3. ActiveBundles(bundles, x) = FirstDecision(said)
  BY DEF ActiveBundles
<1> HIDE DEF said
<1>4. FirstDecision(said) = IF D = {} THEN NoDecision ELSE said[Min(D)]
  BY <1>1, <1>2, FirstWins
<1>5. D = deciding
  BY <1>1
<1>6. CASE D = {}
  BY <1>3, <1>4, <1>5, <1>6
<1>7. CASE D # {}
  <2>1. D \in SUBSET Nat
    OBVIOUS
  <2>2. Min(D) \in D
    BY <1>7, <2>1, LeastNumber
  <2>3. said[Min(D)] = BundleMeaning(bundles[Min(D)], x) /\ said[Min(D)] # NoDecision
    BY <1>1, <2>2
  <2> QED
    BY <1>3, <1>4, <1>5, <1>7, <2>3
<1> QED
  BY <1>6, <1>7

\* The answers there can be.
SimulateAnswer(a) ==
  \E x \in Context, rules \in Policies :
    LET d == EvaluateBundleRules(rules, x) IN
    a = [by |-> "simulate", bundles |-> <<rules>>, context |-> x,
         decision |-> IF d = NoDecision THEN "Allow" ELSE d]

EngineAnswer(a) ==
  \E x \in Context, rules \in Policies :
    a = [by |-> "engine", bundles |-> <<rules>>, context |-> x,
         decision |-> BundleEngine(<<rules>>, x)]

GatewayAnswer(a) ==
  \E x \in Context, rules \in Policies, mode \in {"Static", "Bundles", "Dual"} :
    \E read \in {<<rules, StaticDefault>>, <<>>} :
      a = [by |-> mode, bundles |-> read, context |-> x,
           decision |-> EvaluateProposalDecision(mode, read, x)]

PdpInv == answer = NoAnswer \/ SimulateAnswer(answer) \/ EngineAnswer(answer) \/ GatewayAnswer(answer)

\* An evaluation gives one of these answers.
LEMMA PdpStepInv ==
  ASSUME PdpInv, PdpNext \/ UNCHANGED answer
  PROVE  PdpInv'
<1>1. CASE UNCHANGED answer
  BY <1>1 DEF PdpInv
<1>2. CASE PdpNext
  <2>1. PICK x \in Context :
          \/ \E rules \in Policies : Simulate(rules, x) \/ Judge(<<rules>>, x)
          \/ \E mode \in {"Static", "Bundles", "Dual"}, rules \in Policies :
               Evaluate(mode, <<rules, StaticDefault>>, x)
    BY <1>2 DEF PdpNext
  <2>2. ASSUME NEW rules \in Policies, Simulate(rules, x)
        PROVE  PdpInv'
    BY <2>2 DEF Simulate, PdpInv, SimulateAnswer
  <2>3. ASSUME NEW rules \in Policies, Judge(<<rules>>, x)
        PROVE  PdpInv'
    BY <2>3 DEF Judge, PdpInv, EngineAnswer
  <2>4. ASSUME NEW mode \in {"Static", "Bundles", "Dual"}, NEW rules \in Policies,
               Evaluate(mode, <<rules, StaticDefault>>, x)
        PROVE  PdpInv'
    BY <2>4 DEF Evaluate, PdpInv, GatewayAnswer
  <2> QED
    BY <2>1, <2>2, <2>3, <2>4
<1> QED
  BY <1>1, <1>2

\* Each of them is right.
LEMMA AnswersAreRight ==
  ASSUME PdpInv
  PROVE  DecisionsHold
<1>0. \A rules \in Policies : IsRules(rules)
  BY PdpAssumption DEF IsRules
<1>1. CASE answer = NoAnswer
  <2>1. answer.by = "nobody"
    BY <1>1 DEF NoAnswer
  <2> QED
    BY <2>1 DEF DecisionsHold, StrictestOfTopGroup, StaticParity, InvariantRulesHold, BuiltInRulesApply
<1>2. ASSUME NEW x \in Context, NEW rules \in Policies, NEW d,
             d = EvaluateBundleRules(rules, x),
             answer = [by |-> "simulate", bundles |-> <<rules>>, context |-> x,
                       decision |-> IF d = NoDecision THEN "Allow" ELSE d]
      PROVE  DecisionsHold
  <2>1. /\ answer.by = "simulate" /\ answer.context = x
        /\ answer.decision = IF d = NoDecision THEN "Allow" ELSE d
    BY <1>2
  <2>2. answer.bundles = <<rules>> /\ DOMAIN <<rules>> = {1} /\ <<rules>>[1] = rules
    BY <1>2
  <2>3. d = BundleMeaning(rules, x)
    BY <1>0, <1>2, LoopMeansBundle
  <2> DEFINE deciding == {i \in DOMAIN answer.bundles :
                            BundleMeaning(answer.bundles[i], x) # NoDecision}
  <2>0. deciding = Deciding
    BY <2>1 DEF Deciding, Meaning
  <2>4. CASE d = NoDecision
    <3>1. deciding = {}
      BY <2>2, <2>3, <2>4
    <3> QED
      BY <2>0, <2>1, <2>4, <3>1
         DEF DecisionsHold, StrictestOfTopGroup, StaticParity, InvariantRulesHold, BuiltInRulesApply
  <2>5. CASE d # NoDecision
    <3>1. deciding = {1}
      BY <2>2, <2>3, <2>5
    <3>2. deciding \in SUBSET Nat /\ deciding # {}
      BY <3>1
    <3>3. Min(deciding) \in deciding
      <4> HIDE DEF deciding
      <4> QED
        BY <3>2, LeastNumber
    <3>4. Min(deciding) = 1
      BY <3>1, <3>3
    <3>5. Meaning(Min(deciding)) = d
      BY <2>1, <2>2, <2>3, <3>4 DEF Meaning
    <3> HIDE DEF deciding
    <3> QED
      BY <2>0, <2>1, <2>5, <3>2, <3>5
         DEF DecisionsHold, StrictestOfTopGroup, StaticParity, InvariantRulesHold, BuiltInRulesApply
  <2> QED
    BY <2>4, <2>5
<1>3. ASSUME NEW x \in Context, NEW rules \in Policies,
             answer = [by |-> "engine", bundles |-> <<rules>>, context |-> x,
                       decision |-> BundleEngine(<<rules>>, x)]
      PROVE  DecisionsHold
  <2>1. /\ answer.by = "engine" /\ answer.context = x
        /\ answer.decision = BundleEngine(<<rules>>, x)
    BY <1>3
  <2>2. answer.bundles = <<rules>> /\ 1 \in DOMAIN <<rules>> /\ <<rules>>[1] = rules
    BY <1>3
  <2>3. StrictestOfTopGroup
    BY <2>1 DEF StrictestOfTopGroup
  <2>4. StaticParity
    <3> SUFFICES ASSUME answer.bundles = <<StaticDefault>>
                 PROVE  answer.decision = StaticEngine(answer.context)
      BY DEF StaticParity
    <3>1. answer.decision = BundleEngine(<<StaticDefault>>, x)
      BY <2>1, <2>2
    <3> QED
      BY <2>1, <3>1, EnginesAgree
  <2>5. InvariantRulesHold
    <3> SUFFICES ASSUME \A i \in DOMAIN answer.bundles :
                          \A r \in Range(answer.bundles[i]) : r.priority < Top - 1
                 PROVE  /\ ~x.scoped /\ IsMutation(x) => answer.decision = "Deny"
                        /\ x.critical /\ x.approval = "None" =>
                             Rank(answer.decision) >= Rank("RequireApproval")
      BY <2>1 DEF InvariantRulesHold, BuiltInRulesApply
    <3>1. IsRules(rules) /\ \A r \in Range(rules) : r.priority < Top - 1
      BY <1>0, <2>2
    <3> QED
      BY <2>1, <3>1, ReservedRulesLead
  <2> QED
    BY <2>3, <2>4, <2>5 DEF DecisionsHold
<1>4. ASSUME NEW x \in Context, NEW rules \in Policies, NEW mode \in {"Static", "Bundles", "Dual"},
             NEW read \in {<<rules, StaticDefault>>, <<>>},
             answer = [by |-> mode, bundles |-> read, context |-> x,
                       decision |-> EvaluateProposalDecision(mode, read, x)]
      PROVE  DecisionsHold
  <2>1. /\ answer.by = mode /\ answer.context = x /\ answer.bundles = read
        /\ answer.decision = EvaluateProposalDecision(mode, read, x)
    BY <1>4
  <2>2. PICK n \in Nat : /\ Len(read) = n /\ DOMAIN read = 1..n
                         /\ \A i \in 1..n : IsRules(read[i])
    <3>1. CASE read = <<>>
      BY <3>1
    <3>2. CASE read = <<rules, StaticDefault>>
      <4>1. Len(read) = 2 /\ DOMAIN read = 1..2 /\ read[1] = rules /\ read[2] = StaticDefault
        BY <3>2
      <4>2. \A i \in 1..2 : i = 1 \/ i = 2
        OBVIOUS
      <4> QED
        BY <1>0, <4>1, <4>2, StaticDefaultIsRules
    <3> QED
      BY <3>1, <3>2
  <2> DEFINE deciding == {i \in 1..n : BundleMeaning(read[i], x) # NoDecision}
             active == ActiveBundles(read, x)
  <2>3. /\ deciding = {} => active = NoDecision
        /\ deciding # {} => active = BundleMeaning(read[Min(deciding)], x) /\ active # NoDecision
    <3>1. PICK held : held = read
      OBVIOUS
    <3>2. Len(held) = n /\ \A i \in 1..n : IsRules(held[i])
      BY <2>2, <3>1
    <3> DEFINE D == {i \in 1..n : BundleMeaning(held[i], x) # NoDecision}
    <3>3. /\ D = {} => ActiveBundles(held, x) = NoDecision
          /\ D # {} => /\ ActiveBundles(held, x) = BundleMeaning(held[Min(D)], x)
                        /\ ActiveBundles(held, x) # NoDecision
      BY <3>2, ActiveMeans, Zenon
    <3> QED
      BY <3>1, <3>3
  <2>4. /\ mode = "Bundles" =>
             answer.decision = IF active = NoDecision THEN "Allow" ELSE active
        /\ mode = "Dual" =>
             answer.decision = IF active = NoDecision THEN StaticEngine(x) ELSE active
    BY <2>1 DEF EvaluateProposalDecision
  <2>5. deciding = Deciding
    BY <2>1, <2>2 DEF Deciding, Meaning
  <2>6. \A i : Meaning(i) = BundleMeaning(read[i], x)
    BY <2>1 DEF Meaning
  <2> HIDE DEF active, deciding
  <2>7. StrictestOfTopGroup
    BY <2>1, <2>3, <2>4, <2>5, <2>6 DEF StrictestOfTopGroup
  <2>8. InvariantRulesHold
    <3> SUFFICES ASSUME BuiltInRulesApply
                 PROVE  /\ ~x.scoped /\ IsMutation(x) => answer.decision = "Deny"
                        /\ x.critical /\ x.approval = "None" =>
                             Rank(answer.decision) >= Rank("RequireApproval")
      BY <2>1 DEF InvariantRulesHold
    <3>1. mode = "Static" \/ (mode = "Dual" /\ deciding = {})
      <4>1. mode # "engine"
        OBVIOUS
      <4> QED
        BY <2>1, <2>5, <4>1, Zenon DEF BuiltInRulesApply
    <3>2. answer.decision = StaticEngine(x)
      BY <2>1, <2>3, <2>4, <3>1 DEF EvaluateProposalDecision
    <3>3. /\ ~x.scoped /\ IsMutation(x) => answer.decision = "Deny"
          /\ x.critical /\ x.approval = "None" => answer.decision \in {"Deny", "RequireApproval"}
      BY <3>2 DEF StaticEngine
    <3>4. Rank("Deny") >= Rank("RequireApproval") /\ Rank("RequireApproval") >= Rank("RequireApproval")
      BY RankValues
    <3> QED
      BY <3>3, <3>4
  <2> QED
    BY <2>1, <2>7, <2>8 DEF DecisionsHold, StaticParity
<1> QED
  BY <1>1, <1>2, <1>3, <1>4 DEF PdpInv, SimulateAnswer, EngineAnswer, GatewayAnswer

\* Whatever the bundles are, decisions are what the rules say: a bundle means the strictest
\* of its leading rules, the first active bundle that matches decides, the shipped bundle is
\* the built-in engine, and the two built-in rules hold where they apply
\* (evaluate_bundle_rules, PolicyBundlePdpEngine::evaluate, evaluate_proposal_decision).
THEOREM DecisionsAreRight == Spec => []DecisionsHold
<1>1. Init => PdpInv
  BY DEF Init, PdpInit, PdpInv
<1>2. PdpInv /\ [Next]_vars => PdpInv'
  BY StepOfPart, PdpStepInv
<1>3. PdpInv => DecisionsHold
  BY AnswersAreRight
<1> QED
  BY <1>1, <1>2, <1>3, PTL DEF Spec
=============================================================================
