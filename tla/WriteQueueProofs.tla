--------------------------- MODULE WriteQueueProofs ---------------------------
(***************************************************************************)
(* Proofs about WriteQueue for every finite set of calls and every         *)
(* capacity of the channel.                                                *)
(***************************************************************************)
EXTENDS WriteQueue, FiniteSetTheorems, TLAPS

------------------------------------------------------------------------------
(* The inductive invariant *)

\* The operation is in the channel.
Queued(c) == \E i \in 1..Len(channel) : channel[i] = c

\* An operation is in one place at a time: with its caller, in the channel,
\* with the writer or done, and it is done at most once.
OnePlace ==
  /\ \A i, j \in 1..Len(channel) : channel[i] = channel[j] => i = j
  /\ \A c \in Calls : Queued(c) => c # current /\ c \notin written \cup failed
  /\ \A c \in Calls : call[c] \in {"new", "counted"} =>
       ~Queued(c) /\ c # current /\ c \notin written \cup failed \cup early
  /\ written \cap failed = {}

\* A caller that waits has an operation that is yet to be executed, and one
\* that was answered heard of what happened.
AnswersFit ==
  \A c \in Calls :
    /\ call[c] = "sent" =>
         Queued(c) \/ (c = current /\ c \notin written \cup failed)
    /\ call[c] = "ok" /\ c \notin forget => c \in written
    /\ call[c] = "error" => c \in failed
    /\ call[c] \in {"closed", "cancelled"} =>
         ~Queued(c) /\ c # current /\ c \notin written

\* Nothing that was accepted in time has vanished; the writer leaves its loop
\* only when asked to, and stops with nothing in hand.
NothingVanishes ==
  /\ \A c \in early : c \in written \cup failed \/ c = current \/ Queued(c)
  /\ writer # "loop" => shutdown
  /\ writer \in {"announced", "gone"} => current = None

QueueInv ==
  /\ OnePlace /\ AnswersFit /\ NothingVanishes
  /\ DepthCovers /\ DrainedOnShutdown

------------------------------------------------------------------------------
(* The channel *)

\* What sending and receiving do to a sequence.
LEMMA Appended ==
  ASSUME NEW s \in Seq(Calls), NEW c \in Calls
  PROVE  /\ Append(s, c) \in Seq(Calls) /\ Len(Append(s, c)) = Len(s) + 1
         /\ \A i \in 1..Len(s) : Append(s, c)[i] = s[i]
         /\ Append(s, c)[Len(s) + 1] = c
OBVIOUS

\* Receiving takes the first operation and leaves the others in order.
LEMMA Received ==
  ASSUME NEW s \in Seq(Calls), s # <<>>
  PROVE  /\ Tail(s) \in Seq(Calls) /\ Len(Tail(s)) = Len(s) - 1
         /\ \A i \in 1..Len(s) - 1 : Tail(s)[i] = s[i + 1]
         /\ Head(s) = s[1] /\ Head(s) \in Calls /\ Len(s) \in Nat \ {0}
OBVIOUS

\* Sending puts one operation into the channel, the last one.
LEMMA SendQueues ==
  ASSUME TypeOK, NEW c \in Calls, channel' = Append(channel, c), ~Queued(c),
         \A i, j \in 1..Len(channel) : channel[i] = channel[j] => i = j
  PROVE  /\ \A d : Queued(d)' <=> Queued(d) \/ d = c
         /\ \A i, j \in 1..Len(channel') : channel'[i] = channel'[j] => i = j
<1>1. /\ channel' \in Seq(Calls) /\ Len(channel') = Len(channel) + 1
      /\ \A i \in 1..Len(channel) : channel'[i] = channel[i]
      /\ channel'[Len(channel) + 1] = c /\ Len(channel) \in Nat
  BY Appended DEF TypeOK
<1>2. \A i \in 1..Len(channel') : i \in 1..Len(channel) \/ i = Len(channel) + 1
  BY <1>1
<1>3. \A i \in 1..Len(channel) : channel[i] # c /\ i \in 1..Len(channel')
  BY <1>1 DEF Queued
<1>4. Len(channel) + 1 \in 1..Len(channel')
  BY <1>1
<1>5. \A d : Queued(d)' <=> Queued(d) \/ d = c
  BY <1>1, <1>2, <1>3, <1>4 DEF Queued
<1>6. \A i, j \in 1..Len(channel') : channel'[i] = channel'[j] => i = j
  BY <1>1, <1>2, <1>3
<1> QED BY <1>5, <1>6

\* Receiving takes one operation out of the channel, the first one.
LEMMA ReceiveDequeues ==
  ASSUME TypeOK, channel # <<>>, channel' = Tail(channel),
         \A i, j \in 1..Len(channel) : channel[i] = channel[j] => i = j
  PROVE  /\ Head(channel) \in Calls /\ Queued(Head(channel))
         /\ \A d : Queued(d)' <=> Queued(d) /\ d # Head(channel)
         /\ \A i, j \in 1..Len(channel') : channel'[i] = channel'[j] => i = j
<1>1. /\ channel' \in Seq(Calls) /\ Len(channel') = Len(channel) - 1
      /\ \A i \in 1..Len(channel) - 1 : channel'[i] = channel[i + 1]
      /\ Head(channel) = channel[1] /\ Head(channel) \in Calls
      /\ Len(channel) \in Nat \ {0}
  BY Received DEF TypeOK
<1>2. \A i \in 1..Len(channel') :
        i + 1 \in 2..Len(channel) /\ channel'[i] = channel[i + 1]
  BY <1>1
<1>3. \A i \in 2..Len(channel) :
        i - 1 \in 1..Len(channel') /\ channel'[i - 1] = channel[i]
  BY <1>1
<1>4. 1 \in 1..Len(channel) /\ \A i \in 2..Len(channel) : channel[i] # channel[1]
  BY <1>1
<1>5. ASSUME NEW d, Queued(d)'
      PROVE  Queued(d) /\ d # Head(channel)
  <2>1. PICK i \in 1..Len(channel') : channel'[i] = d
    BY <1>5 DEF Queued
  <2>2. i + 1 \in 2..Len(channel) /\ channel[i + 1] = d
    BY <1>2, <2>1
  <2>3. i + 1 \in 1..Len(channel) /\ channel[i + 1] # channel[1]
    BY <1>1, <1>4, <2>1, <2>2
  <2> QED BY <1>1, <2>2, <2>3 DEF Queued
<1>6. ASSUME NEW d, Queued(d), d # Head(channel)
      PROVE  Queued(d)'
  <2>1. PICK i \in 1..Len(channel) : channel[i] = d
    BY <1>6 DEF Queued
  <2>2. i \in 2..Len(channel)
    BY <1>1, <1>6, <2>1
  <2> QED BY <1>3, <2>1, <2>2 DEF Queued
<1>7. \A i, j \in 1..Len(channel') : channel'[i] = channel'[j] => i = j
  <2> SUFFICES ASSUME NEW i \in 1..Len(channel'), NEW j \in 1..Len(channel'),
                      channel'[i] = channel'[j]
               PROVE  i = j
    OBVIOUS
  <2>1. channel[i + 1] = channel[j + 1] /\ i + 1 \in 1..Len(channel)
        /\ j + 1 \in 1..Len(channel)
    BY <1>1, <1>2
  <2>2. i + 1 = j + 1
    BY <2>1
  <2> QED BY <1>1, <2>2
<1>8. Queued(Head(channel))
  BY <1>1, <1>4 DEF Queued
<1> QED BY <1>1, <1>5, <1>6, <1>7, <1>8

------------------------------------------------------------------------------
(* The depth *)

\* The load, before and after a step, is what is counted, queued or at hand.
LEMMA OutstandingIs ==
  /\ Outstanding = {c \in Calls : call[c] = "counted" \/ Queued(c) \/ current = c}
  /\ Outstanding' =
       {c \in Calls : call'[c] = "counted" \/ Queued(c)' \/ current' = c}
BY DEF Outstanding, Queued

\* The load is finite.
LEMMA OutstandingFinite ==
  IsFiniteSet(Outstanding) /\ Cardinality(Outstanding) \in Nat
<1>1. Outstanding \in SUBSET Calls
  BY DEF Outstanding
<1> QED BY <1>1, WriteQueueAssumption, FS_Subset, FS_CardinalityType

\* The counter keeps covering the load when it is raised for one new operation,
\* lowered for one that is over, or left alone while none is added.
LEMMA DepthRises ==
  ASSUME TypeOK, DepthCovers, NEW c, pending' = pending + 1,
         Outstanding' \subseteq Outstanding \cup {c}
  PROVE  DepthCovers'
<1>1. IsFiniteSet(Outstanding \cup {c})
      /\ Cardinality(Outstanding \cup {c}) \in Nat
      /\ Cardinality(Outstanding \cup {c}) <= Cardinality(Outstanding) + 1
  BY OutstandingFinite, FS_AddElement
<1>2. Cardinality(Outstanding') <= Cardinality(Outstanding \cup {c})
      /\ Cardinality(Outstanding') \in Nat
  BY <1>1, FS_Subset, FS_CardinalityType
<1> QED BY <1>1, <1>2, OutstandingFinite DEF TypeOK, DepthCovers

\* Lowering the counter by one for an operation that is over keeps it covering.
LEMMA DepthFalls ==
  ASSUME TypeOK, DepthCovers, NEW c \in Outstanding, pending' = pending - 1,
         Outstanding' \subseteq Outstanding \ {c}
  PROVE  DepthCovers'
<1>1. IsFiniteSet(Outstanding \ {c})
      /\ Cardinality(Outstanding \ {c}) = Cardinality(Outstanding) - 1
  BY OutstandingFinite, FS_RemoveElement
<1>2. Cardinality(Outstanding') <= Cardinality(Outstanding \ {c})
      /\ Cardinality(Outstanding') \in Nat
  BY <1>1, FS_Subset, FS_CardinalityType
<1> QED BY <1>1, <1>2, OutstandingFinite DEF TypeOK, DepthCovers

\* So does leaving it alone while nothing is added.
LEMMA DepthStays ==
  ASSUME TypeOK, DepthCovers, pending' = pending, Outstanding' \subseteq Outstanding
  PROVE  DepthCovers'
<1>1. Cardinality(Outstanding') <= Cardinality(Outstanding)
      /\ Cardinality(Outstanding') \in Nat
  BY OutstandingFinite, FS_Subset, FS_CardinalityType
<1> QED BY <1>1, OutstandingFinite DEF TypeOK, DepthCovers

------------------------------------------------------------------------------
(* Types *)

\* The initial state is typed.
LEMMA InitTypes == Init => TypeOK
<1> SUFFICES ASSUME Init PROVE TypeOK
  OBVIOUS
<1>1. channel \in Seq(Calls) /\ Len(channel) = 0
  BY DEF Init
<1>2. Len(channel) <= Capacity
  BY <1>1, WriteQueueAssumption
<1>3. shutdown \in BOOLEAN
  BY DEF Init
<1> QED BY <1>1, <1>2, <1>3 DEF Init, TypeOK

\* Every step keeps the types.
LEMMA StepTypes == TypeOK /\ [Next]_vars => TypeOK'
<1> SUFFICES ASSUME TypeOK, [Next]_vars PROVE TypeOK'
  OBVIOUS
<1>1. ASSUME NEW c \in Calls, Accept(c)
      PROVE  TypeOK'
  <2>1. channel' \in Seq(Calls) /\ Len(channel') <= Capacity
    BY <1>1, Appended, WriteQueueAssumption DEF Accept, TypeOK
  <2> QED BY <1>1, <2>1 DEF Accept, TypeOK, Told
<1>2. ASSUME NEW c \in Calls, Count(c) \/ DropFull(c) \/ Refuse(c) \/ Abandon(c)
      PROVE  TypeOK'
  BY <1>2 DEF Count, DropFull, Refuse, Abandon, TypeOK, Told
<1>3. CASE Receive
  <2>1. channel' \in Seq(Calls) /\ Len(channel') <= Capacity /\ current' \in Calls
    BY <1>3, Received, WriteQueueAssumption DEF Receive, TypeOK
  <2> QED BY <1>3, <2>1 DEF Receive, TypeOK
<1>4. CASE Execute
  BY <1>4 DEF Execute, Reply, TypeOK, Told
<1>5. CASE Settle \/ Idle \/ Announce \/ RequestShutdown
  <2>1. shutdown' \in BOOLEAN
    BY <1>5 DEF Settle, Idle, Announce, RequestShutdown, TypeOK
  <2>2. UNCHANGED <<forget, call, channel, written, failed, early>>
    BY <1>5 DEF Settle, Idle, Announce, RequestShutdown
  <2>3. /\ writer' \in {"loop", "last", "drain", "announced", "gone"}
        /\ current' \in Calls \cup {None} /\ pending' \in Int
    BY <1>5 DEF Settle, Idle, Announce, RequestShutdown, TypeOK
  <2> QED BY <2>1, <2>2, <2>3 DEF TypeOK
<1>6. CASE Exit
  <2>1. <<>> \in Seq(Calls) /\ Len(<<>>) = 0
    OBVIOUS
  <2> QED BY <1>6, <2>1, WriteQueueAssumption DEF Exit, TypeOK, Told
<1>7. CASE UNCHANGED vars
  BY <1>7 DEF vars, TypeOK
<1> QED BY <1>1, <1>2, <1>3, <1>4, <1>5, <1>6, <1>7 DEF Next

------------------------------------------------------------------------------
(* The steps of the callers *)

\* A step of one caller that leaves the channel and the writer alone.
CallerMoves(c, to) ==
  /\ call' = [call EXCEPT ![c] = to]
  /\ UNCHANGED <<forget, channel, writer, current, written, failed, shutdown, early>>

\* A caller that moves leaves the other callers and the channel alone.
LEMMA CallerStep ==
  ASSUME TypeOK, NEW c \in Calls, NEW to, CallerMoves(c, to)
  PROVE  /\ call'[c] = to /\ \A d \in Calls : d # c => call'[d] = call[d]
         /\ \A d : Queued(d)' <=> Queued(d)
BY DEF CallerMoves, TypeOK, Queued

\* What a caller may do without disturbing the others' operations.
LEMMA CallerKeeps ==
  ASSUME TypeOK, QueueInv, NEW c \in Calls, NEW to, CallerMoves(c, to),
         to \in {"new", "counted"} => call[c] \in {"new", "counted"},
         to \notin {"sent", "error", "cancelled"},
         to = "ok" => c \in forget,
         to = "closed" => call[c] = "counted"
  PROVE  OnePlace' /\ AnswersFit' /\ NothingVanishes' /\ DrainedOnShutdown'
<1>1. /\ call'[c] = to /\ \A d \in Calls : d # c => call'[d] = call[d]
      /\ \A d : Queued(d)' <=> Queued(d)
  BY CallerStep
<1>2. UNCHANGED <<forget, channel, writer, current, written, failed, shutdown, early>>
  BY DEF CallerMoves
<1>3. OnePlace'
  BY <1>1, <1>2 DEF QueueInv, OnePlace
<1>4. AnswersFit'
  BY <1>1, <1>2 DEF QueueInv, AnswersFit, OnePlace
<1>5. NothingVanishes' /\ DrainedOnShutdown'
  BY <1>1, <1>2 DEF QueueInv, NothingVanishes, DrainedOnShutdown
<1> QED BY <1>3, <1>4, <1>5

\* Counting an operation in keeps the queue invariant.
LEMMA CountKeeps ==
  ASSUME TypeOK, QueueInv, NEW c \in Calls, Count(c)
  PROVE  QueueInv'
<1>1. CallerMoves(c, "counted") /\ call[c] = "new" /\ pending' = pending + 1
  BY DEF Count, CallerMoves
<1>2. Outstanding' \subseteq Outstanding \cup {c}
  BY <1>1, CallerStep, OutstandingIs DEF CallerMoves
<1>3. DepthCovers'
  BY <1>1, <1>2, DepthRises DEF QueueInv
<1> QED BY <1>1, <1>3, CallerKeeps DEF QueueInv

\* A call that is given up before it was accepted is no longer outstanding.
LEMMA GivesUp ==
  ASSUME TypeOK, QueueInv, NEW c \in Calls, DropFull(c) \/ Refuse(c)
  PROVE  QueueInv'
<1>1. PICK to \in {"ok", "closed"} :
        /\ CallerMoves(c, to) /\ call[c] = "counted" /\ pending' = pending - 1
        /\ to = "ok" => c \in forget
  BY DEF DropFull, Refuse, CallerMoves
<1>2. ~Queued(c) /\ c # current
  BY <1>1 DEF QueueInv, OnePlace
<1>3. c \in Outstanding /\ Outstanding' \subseteq Outstanding \ {c}
  BY <1>1, <1>2, CallerStep, OutstandingIs DEF CallerMoves
<1>4. DepthCovers'
  BY <1>1, <1>3, DepthFalls DEF QueueInv
<1> QED BY <1>1, <1>4, CallerKeeps DEF QueueInv

\* Dropping the future of an operation that is under way keeps it too.
LEMMA AbandonKeeps ==
  ASSUME TypeOK, QueueInv, NEW c \in Calls, Abandon(c)
  PROVE  QueueInv'
<1>1. CallerMoves(c, "abandoned") /\ pending' = pending
  BY DEF Abandon, CallerMoves
<1>2. Outstanding' \subseteq Outstanding
  BY <1>1, CallerStep, OutstandingIs DEF CallerMoves
<1>3. DepthCovers'
  BY <1>1, <1>2, DepthStays DEF QueueInv
<1> QED BY <1>1, <1>3, CallerKeeps DEF QueueInv

\* An accepted operation moves from its caller into the channel; after the
\* request to shut down it is not one that the drain must find.
LEMMA AcceptKeeps ==
  ASSUME TypeOK, QueueInv, NEW c \in Calls, Accept(c)
  PROVE  QueueInv'
<1>1. /\ call[c] = "counted" /\ channel' = Append(channel, c)
      /\ call' = [call EXCEPT ![c] = IF c \in forget THEN "ok" ELSE "sent"]
      /\ early' = IF shutdown THEN early ELSE early \cup {c}
      /\ UNCHANGED <<forget, writer, current, written, failed, pending, shutdown>>
  BY DEF Accept
<1>2. ~Queued(c) /\ c # current /\ c \notin written \cup failed \cup early
  BY <1>1 DEF QueueInv, OnePlace
<1>3. /\ \A d : Queued(d)' <=> Queued(d) \/ d = c
      /\ \A i, j \in 1..Len(channel') : channel'[i] = channel'[j] => i = j
  BY <1>1, <1>2, SendQueues DEF QueueInv, OnePlace
<1>4. /\ call'[c] = IF c \in forget THEN "ok" ELSE "sent"
      /\ \A d \in Calls : d # c => call'[d] = call[d]
  BY <1>1 DEF TypeOK
<1>5. OnePlace'
  BY <1>1, <1>2, <1>3, <1>4 DEF QueueInv, OnePlace
<1>6. AnswersFit'
  BY <1>1, <1>2, <1>3, <1>4 DEF QueueInv, AnswersFit
<1>7. NothingVanishes' /\ DrainedOnShutdown'
  BY <1>1, <1>3 DEF QueueInv, NothingVanishes, DrainedOnShutdown
<1>8. Outstanding' \subseteq Outstanding
  BY <1>1, <1>3, <1>4, OutstandingIs
<1>9. DepthCovers'
  BY <1>1, <1>8, DepthStays DEF QueueInv
<1> QED BY <1>5, <1>6, <1>7, <1>9 DEF QueueInv

------------------------------------------------------------------------------
(* The steps of the writer *)

\* So does the worker when it takes an operation out of the channel.
LEMMA ReceiveKeeps ==
  ASSUME TypeOK, QueueInv, Receive
  PROVE  QueueInv'
<1>1. /\ writer \in {"loop", "drain"} /\ current = None /\ channel # <<>>
      /\ current' = Head(channel) /\ channel' = Tail(channel)
      /\ writer' = IF writer = "loop" /\ shutdown THEN "last" ELSE writer
      /\ UNCHANGED <<forget, call, written, failed, pending, shutdown, early>>
  BY DEF Receive
<1>2. /\ Head(channel) \in Calls /\ Queued(Head(channel))
      /\ \A d : Queued(d)' <=> Queued(d) /\ d # Head(channel)
      /\ \A i, j \in 1..Len(channel') : channel'[i] = channel'[j] => i = j
  BY <1>1, ReceiveDequeues DEF QueueInv, OnePlace
<1>3. Head(channel) # None /\ \A c \in Calls : c # None
  BY <1>2, WriteQueueAssumption
<1>4. OnePlace'
  BY <1>1, <1>2, <1>3 DEF QueueInv, OnePlace
<1>5. AnswersFit'
  BY <1>1, <1>2, <1>3 DEF QueueInv, OnePlace, AnswersFit
<1>6. NothingVanishes' /\ DrainedOnShutdown'
  BY <1>1, <1>2, <1>3 DEF QueueInv, NothingVanishes, DrainedOnShutdown, TypeOK
<1>7. Outstanding' \subseteq Outstanding
  BY <1>1, <1>2, OutstandingIs
<1>8. DepthCovers'
  BY <1>1, <1>7, DepthStays DEF QueueInv
<1> QED BY <1>4, <1>5, <1>6, <1>8 DEF QueueInv

\* The one execution of an operation decides what its caller hears.
LEMMA ExecuteKeeps ==
  ASSUME TypeOK, QueueInv, Execute
  PROVE  QueueInv'
<1>1. /\ current \in Calls /\ current \notin written \cup failed
      /\ UNCHANGED <<forget, channel, writer, current, pending, shutdown, early>>
  BY DEF Execute, TypeOK
<1>2. PICK done \in BOOLEAN :
        /\ written' = IF done THEN written \cup {current} ELSE written
        /\ failed' = IF done THEN failed ELSE failed \cup {current}
        /\ call' = [call EXCEPT ![current] = IF call[current] = "sent"
                                  THEN (IF done THEN "ok" ELSE "error") ELSE @]
  BY DEF Execute, Reply
<1>3. /\ call'[current] = IF call[current] = "sent"
                            THEN (IF done THEN "ok" ELSE "error")
                            ELSE call[current]
      /\ \A d \in Calls : d # current => call'[d] = call[d]
  BY <1>1, <1>2 DEF TypeOK
<1>4. \A d : Queued(d)' <=> Queued(d)
  BY <1>1 DEF Queued
<1>5. OnePlace'
  BY <1>1, <1>2, <1>3, <1>4 DEF QueueInv, OnePlace
<1>6. AnswersFit'
  BY <1>1, <1>2, <1>3, <1>4 DEF QueueInv, AnswersFit, OnePlace
<1>7. NothingVanishes' /\ DrainedOnShutdown'
  BY <1>1, <1>2, <1>4 DEF QueueInv, NothingVanishes, DrainedOnShutdown
<1>8. Outstanding' \subseteq Outstanding
  BY <1>1, <1>3, <1>4, OutstandingIs
<1>9. DepthCovers'
  BY <1>1, <1>8, DepthStays DEF QueueInv
<1> QED BY <1>5, <1>6, <1>7, <1>9 DEF QueueInv

\* And when it is done with one, whether it was written or failed.
LEMMA SettleKeeps ==
  ASSUME TypeOK, QueueInv, Settle
  PROVE  QueueInv'
<1>1. /\ current \in Calls /\ current \in written \cup failed
      /\ current' = None /\ pending' = pending - 1
      /\ writer' = IF writer = "last" THEN "drain" ELSE writer
      /\ UNCHANGED <<forget, call, channel, written, failed, shutdown, early>>
  BY DEF Settle, TypeOK
<1>2. \A c \in Calls : c # None
  BY WriteQueueAssumption
<1>3. \A d : Queued(d)' <=> Queued(d)
  BY <1>1 DEF Queued
<1>4. ~Queued(current) /\ call[current] # "counted" /\ call[current] # "sent"
  BY <1>1 DEF QueueInv, OnePlace, AnswersFit
<1>5. OnePlace'
  BY <1>1, <1>2, <1>3 DEF QueueInv, OnePlace
<1>6. AnswersFit'
  BY <1>1, <1>2, <1>3, <1>4 DEF QueueInv, AnswersFit
<1>7. NothingVanishes' /\ DrainedOnShutdown'
  BY <1>1, <1>3 DEF QueueInv, NothingVanishes, DrainedOnShutdown
<1>8. current \in Outstanding /\ Outstanding' \subseteq Outstanding \ {current}
  BY <1>1, <1>2, <1>3, <1>4, OutstandingIs
<1>9. DepthCovers'
  BY <1>1, <1>8, DepthFalls DEF QueueInv
<1> QED BY <1>5, <1>6, <1>7, <1>9 DEF QueueInv

\* An empty channel holds nothing.
LEMMA NothingQueued ==
  /\ channel = <<>> => \A d : ~Queued(d)
  /\ channel' = <<>> => \A d : ~Queued(d)'
BY DEF Queued

\* The writer announces its end with an empty channel and nothing in hand, so
\* everything accepted before the request was put to the database.
LEMMA WriterStops ==
  ASSUME TypeOK, QueueInv, Idle \/ Announce \/ RequestShutdown
  PROVE  QueueInv'
<1>1. UNCHANGED <<forget, call, channel, current, written, failed, pending, early>>
  BY DEF Idle, Announce, RequestShutdown
<1>2. \A d : Queued(d)' <=> Queued(d)
  BY <1>1 DEF Queued
<1>3. OnePlace' /\ AnswersFit'
  BY <1>1, <1>2 DEF QueueInv, OnePlace, AnswersFit
<1>4. NothingVanishes'
  BY <1>1, <1>2 DEF QueueInv, NothingVanishes, Idle, Announce, RequestShutdown
<1>5. \A c \in Calls : c # None
  BY WriteQueueAssumption
<1>6. DrainedOnShutdown'
  BY <1>1, <1>5, NothingQueued
  DEF QueueInv, NothingVanishes, DrainedOnShutdown, Idle, Announce,
      RequestShutdown, TypeOK
<1>7. Outstanding' \subseteq Outstanding
  BY <1>1, <1>2, OutstandingIs
<1>8. DepthCovers'
  BY <1>1, <1>7, DepthStays DEF QueueInv
<1> QED BY <1>3, <1>4, <1>6, <1>8 DEF QueueInv

\* What was accepted too late is dropped unexecuted, and its callers are told.
LEMMA ExitKeeps ==
  ASSUME TypeOK, QueueInv, Exit
  PROVE  QueueInv'
<1>1. /\ writer = "announced" /\ writer' = "gone" /\ channel' = <<>>
      /\ UNCHANGED <<forget, current, written, failed, pending, shutdown, early>>
      /\ current = None
  BY DEF Exit, QueueInv, NothingVanishes
<1>2. \A c \in Calls :
        call'[c] = IF call[c] = "sent" THEN "cancelled" ELSE call[c]
  BY DEF Exit, TypeOK
<1>3. \A d : ~Queued(d)'
  BY <1>1, NothingQueued
<1>4. \A c \in Calls : c # None
  BY WriteQueueAssumption
<1>5. OnePlace'
  <2>1. \A i, j \in 1..Len(channel') : channel'[i] = channel'[j] => i = j
    BY <1>1
  <2> QED BY <1>1, <1>2, <1>3, <2>1 DEF QueueInv, OnePlace
<1>6. AnswersFit'
  BY <1>1, <1>2, <1>3, <1>4 DEF QueueInv, AnswersFit, OnePlace
<1>7. NothingVanishes' /\ DrainedOnShutdown'
  BY <1>1 DEF QueueInv, NothingVanishes, DrainedOnShutdown
<1>8. Outstanding' \subseteq Outstanding
  BY <1>1, <1>2, <1>3, OutstandingIs
<1>9. DepthCovers'
  BY <1>1, <1>8, DepthStays DEF QueueInv
<1> QED BY <1>5, <1>6, <1>7, <1>9 DEF QueueInv

------------------------------------------------------------------------------
(* The theorem *)

\* The queue invariant is inductive.
LEMMA StepQueue == TypeOK /\ QueueInv /\ [Next]_vars => QueueInv'
<1> SUFFICES ASSUME TypeOK, QueueInv, [Next]_vars PROVE QueueInv'
  OBVIOUS
<1>1. ASSUME NEW c \in Calls,
             Count(c) \/ Accept(c) \/ DropFull(c) \/ Refuse(c) \/ Abandon(c)
      PROVE  QueueInv'
  BY <1>1, CountKeeps, AcceptKeeps, GivesUp, AbandonKeeps
<1>2. CASE Receive \/ Execute \/ Settle
  BY <1>2, ReceiveKeeps, ExecuteKeeps, SettleKeeps
<1>3. CASE Idle \/ Announce \/ RequestShutdown
  BY <1>3, WriterStops
<1>4. CASE Exit
  BY <1>4, ExitKeeps
<1>5. CASE UNCHANGED vars
  BY <1>5 DEF vars, QueueInv, OnePlace, AnswersFit, NothingVanishes, Queued,
              DepthCovers, DrainedOnShutdown, Outstanding
<1> QED BY <1>1, <1>2, <1>3, <1>4, <1>5 DEF Next

\* An empty queue satisfies it.
LEMMA InitQueue == Init => QueueInv
<1> SUFFICES ASSUME Init PROVE QueueInv
  OBVIOUS
<1>1. \A d : ~Queued(d)
  BY NothingQueued DEF Init
<1>2. \A c \in Calls : c # None /\ call[c] = "new"
  BY WriteQueueAssumption DEF Init
<1>3. Outstanding = {}
  BY <1>1, <1>2, OutstandingIs DEF Init
<1>4. DepthCovers
  BY <1>3, FS_EmptySet DEF Init, DepthCovers
<1>5. OnePlace
  BY <1>1, <1>2 DEF Init, OnePlace
<1>6. AnswersFit /\ NothingVanishes /\ DrainedOnShutdown
  BY <1>2 DEF Init, AnswersFit, NothingVanishes, DrainedOnShutdown
<1> QED BY <1>4, <1>5, <1>6 DEF QueueInv

\* WriteQueue and writer_loop, however many writes race for whatever room: the
\* reported depth covers the load, every caller that is told something is told
\* what happened to its write, and what was accepted before the shutdown
\* request has been put to the database when shutdown returns.
THEOREM AccountsForWrites == Spec => []WritesAccounted
<1>1. QueueInv => WritesAccounted
  BY DEF QueueInv, WritesAccounted, AnswersFit, OnePlace, AnswerIsTrue
<1> QED BY <1>1, InitTypes, StepTypes, InitQueue, StepQueue, PTL DEF Spec

------------------------------------------------------------------------------
(* Waiting *)

\* writer_loop has something to do: an operation to receive, to execute or to
\* settle, or a step towards its end.
WriterCanMove ==
  \/ current # None
  \/ writer \in {"loop", "drain"} /\ channel # <<>>
  \/ writer = "loop" /\ shutdown
  \/ writer \in {"drain", "announced"}

\* Nobody waits for somebody who waits too: not a caller for its reply, not a
\* caller for room in the channel and not SqliteStore::shutdown for the drain.
NobodyIsStuck ==
  /\ \A c \in Calls : call[c] = "sent" => WriterCanMove
  /\ \A c \in Calls : call[c] = "counted" =>
       \/ writer = "gone"
       \/ Len(channel) < Capacity
       \/ WriterCanMove
  /\ shutdown => writer = "gone" \/ WriterCanMove

\* The last operation before the drain is in hand, and the receiver that is gone
\* holds nothing.
WriterInv ==
  /\ writer = "last" => current # None
  /\ writer = "gone" => channel = <<>>

\* The operation c was accepted before d and both still wait.
Ahead(c, d) ==
  \E i, j \in 1..Len(channel) : i < j /\ channel[i] = c /\ channel[j] = d

\* An operation keeps its place before those accepted later until it is received,
\* or until the receiver is dropped with all of them.
InOrder ==
  \A c, d \in Calls : Ahead(c, d) =>
    Ahead(c, d)' \/ (current' = c /\ Queued(d)') \/ writer' = "gone"

\* The writer keeps its hand full after the flag, and nothing is accepted once the
\* receiver is gone.
LEMMA StepWriter == TypeOK /\ QueueInv /\ WriterInv /\ [Next]_vars => WriterInv'
<1> SUFFICES ASSUME TypeOK, QueueInv, WriterInv, [Next]_vars PROVE WriterInv'
  OBVIOUS
<1>1. ASSUME NEW c \in Calls,
             Count(c) \/ Accept(c) \/ DropFull(c) \/ Refuse(c) \/ Abandon(c)
      PROVE  WriterInv'
  BY <1>1 DEF Count, Accept, DropFull, Refuse, Abandon, WriterInv
<1>2. CASE Receive
  <2>1. Head(channel) # None
    BY <1>2, Received, WriteQueueAssumption DEF Receive, TypeOK
  <2> QED BY <1>2, <2>1 DEF Receive, WriterInv
<1>3. CASE Execute
  BY <1>3 DEF Execute, WriterInv
<1>4. CASE Settle
  <2>1. current # None
    BY <1>4, WriteQueueAssumption DEF Settle, TypeOK
  <2>2. writer # "gone"
    BY <2>1 DEF QueueInv, NothingVanishes
  <2> QED BY <1>4, <2>2 DEF Settle, WriterInv
<1>5. CASE Idle \/ Announce \/ Exit \/ RequestShutdown
  BY <1>5 DEF Idle, Announce, Exit, RequestShutdown, WriterInv
<1>6. CASE UNCHANGED vars
  BY <1>6 DEF vars, WriterInv
<1> QED BY <1>1, <1>2, <1>3, <1>4, <1>5, <1>6 DEF Next

\* Whoever waits, waits for a writer that can move.
LEMMA SomebodyMoves == TypeOK /\ QueueInv /\ WriterInv => NobodyIsStuck
<1> SUFFICES ASSUME TypeOK, QueueInv, WriterInv PROVE NobodyIsStuck
  OBVIOUS
<1>1. channel # <<>> => WriterCanMove
  BY DEF WriterInv, WriterCanMove, TypeOK
<1>2. shutdown => writer = "gone" \/ WriterCanMove
  BY DEF WriterInv, WriterCanMove, TypeOK
<1>3. ASSUME NEW c \in Calls, call[c] = "sent"
      PROVE  WriterCanMove
  <2>1. Queued(c) \/ c = current
    BY <1>3 DEF QueueInv, AnswersFit
  <2>2. Queued(c) => channel # <<>>
    BY NothingQueued
  <2>3. c # None
    BY WriteQueueAssumption
  <2> QED BY <1>1, <2>1, <2>2, <2>3 DEF WriterCanMove
<1>4. channel = <<>> => Len(channel) < Capacity
  BY WriteQueueAssumption
<1> QED BY <1>1, <1>2, <1>3, <1>4 DEF NobodyIsStuck

\* WriteQueue::send, writer_loop and shutdown: every caller that waits, for room
\* or for a reply, and every shutdown that waits for the drain faces a writer that
\* has a step to take.  With the fairness of the runtime this is why NothingHangs.
THEOREM NobodyGetsStuck == Spec => []NobodyIsStuck
<1>1. Init => WriterInv
  BY DEF Init, WriterInv
<1> QED BY <1>1, InitTypes, StepTypes, InitQueue, StepQueue, StepWriter,
           SomebodyMoves, PTL DEF Spec

\* Appending leaves the order of what waits as it is.
LEMMA AcceptInOrder ==
  ASSUME TypeOK, NEW e \in Calls, Accept(e), NEW c \in Calls, NEW d \in Calls,
         Ahead(c, d)
  PROVE  Ahead(c, d)'
<1>1. PICK i \in 1..Len(channel), j \in 1..Len(channel) :
        i < j /\ channel[i] = c /\ channel[j] = d
  BY DEF Ahead
<1>2. /\ Len(channel') = Len(channel) + 1 /\ Len(channel) \in Nat
      /\ \A k \in 1..Len(channel) : channel'[k] = channel[k]
  BY Appended DEF Accept, TypeOK
<1>3. i \in 1..Len(channel') /\ j \in 1..Len(channel')
  BY <1>1, <1>2
<1> QED BY <1>1, <1>2, <1>3 DEF Ahead

\* Receiving takes the first one, and everything behind it moves up in order.
LEMMA ReceiveInOrder ==
  ASSUME TypeOK, Receive, NEW c \in Calls, NEW d \in Calls, Ahead(c, d)
  PROVE  Ahead(c, d)' \/ (current' = c /\ Queued(d)')
<1>1. PICK i \in 1..Len(channel), j \in 1..Len(channel) :
        i < j /\ channel[i] = c /\ channel[j] = d
  BY DEF Ahead
<1>2. /\ Len(channel') = Len(channel) - 1 /\ Len(channel) \in Nat \ {0}
      /\ \A k \in 1..Len(channel) - 1 : channel'[k] = channel[k + 1]
      /\ current' = channel[1]
  BY Received DEF Receive, TypeOK
<1>3. j - 1 \in 1..Len(channel') /\ channel'[j - 1] = d
  BY <1>1, <1>2
<1>4. CASE i = 1
  BY <1>1, <1>2, <1>3, <1>4 DEF Queued
<1>5. CASE i # 1
  <2>1. i - 1 \in 1..Len(channel') /\ channel'[i - 1] = c /\ i - 1 < j - 1
    BY <1>1, <1>2, <1>5
  <2> QED BY <1>3, <2>1 DEF Ahead
<1> QED BY <1>4, <1>5

\* WriteQueue and writer_loop: whatever callers race, give up or are turned away,
\* writes are put to the database in the order in which they were accepted.
THEOREM WritesStayInOrder == Spec => [][InOrder]_vars
<1>1. ASSUME TypeOK, [Next]_vars
      PROVE  [InOrder]_vars
  <2> SUFFICES ASSUME NEW c \in Calls, NEW d \in Calls, Ahead(c, d), Next
               PROVE  Ahead(c, d)' \/ (current' = c /\ Queued(d)') \/ writer' = "gone"
    BY <1>1 DEF InOrder
  <2>1. ASSUME NEW e \in Calls, Accept(e)
        PROVE  Ahead(c, d)'
    BY <1>1, <2>1, AcceptInOrder
  <2>2. CASE Receive
    BY <1>1, <2>2, ReceiveInOrder
  <2>3. CASE Exit
    BY <2>3 DEF Exit
  <2>4. ASSUME channel' = channel
        PROVE  Ahead(c, d)'
    BY <2>4 DEF Ahead
  <2>5. ASSUME NEW e \in Calls, Count(e) \/ DropFull(e) \/ Refuse(e) \/ Abandon(e)
        PROVE  channel' = channel
    BY <2>5 DEF Count, DropFull, Refuse, Abandon
  <2>6. CASE Execute \/ Settle \/ Idle \/ Announce \/ RequestShutdown
    BY <2>4, <2>6 DEF Execute, Settle, Idle, Announce, RequestShutdown
  <2> QED BY <2>1, <2>2, <2>3, <2>4, <2>5, <2>6 DEF Next
<1> QED BY <1>1, InitTypes, StepTypes, PTL DEF Spec
====
