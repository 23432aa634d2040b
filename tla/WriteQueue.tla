------------------------------ MODULE WriteQueue ------------------------------
(***************************************************************************)
(* The SQLite store's write queue: handlers put their writes into a bounded *)
(* channel and one writer task executes them in turn.  A handler waits for *)
(* its reply, unless its future is dropped because the client went away; a *)
(* fire-and-forget call waits for nothing.  Shutting the store down asks   *)
(* the writer to stop, which it does after draining the channel, while     *)
(* background tasks may still be sending.                                  *)
(***************************************************************************)
EXTENDS Integers, Sequences, FiniteSets

CONSTANTS
  Calls,     \* the writes that are sent
  Capacity,  \* WRITE_QUEUE_CAPACITY
  None

ASSUME WriteQueueAssumption ==
  /\ IsFiniteSet(Calls)
  /\ Capacity \in Nat \ {0}
  /\ None \notin Calls

VARIABLES
  forget,    \* the calls made with try_fire_and_forget; the others use send
  call,      \* how far each call has come, and what it was told in the end
  channel,   \* accepted and not yet received
  writer,    \* where writer_loop is
  current,   \* the operation it has received
  written,   \* operations that the database has executed
  failed,    \* operations that the database refused
  pending,   \* pending_ops
  shutdown,  \* shutdown_requested
  early      \* accepted before shutdown was requested

vars == <<forget, call, channel, writer, current, written, failed, pending, shutdown, early>>

Told == {"ok", "error", "closed", "cancelled", "abandoned"}

TypeOK ==
  /\ forget \subseteq Calls
  /\ call \in [Calls -> {"new", "counted", "sent"} \cup Told]
  /\ channel \in Seq(Calls) /\ Len(channel) <= Capacity
  /\ writer \in {"loop", "last", "drain", "announced", "gone"}
  /\ current \in Calls \cup {None}
  /\ written \subseteq Calls /\ failed \subseteq Calls
  /\ pending \in Int
  /\ shutdown \in BOOLEAN
  /\ early \subseteq Calls

Init ==
  /\ forget \in SUBSET Calls
  /\ call = [c \in Calls |-> "new"]
  /\ channel = <<>>
  /\ writer = "loop"
  /\ current = None
  /\ written = {}
  /\ failed = {}
  /\ pending = 0
  /\ shutdown = FALSE
  /\ early = {}

------------------------------------------------------------------------------
(* WriteQueue *)

\* send and try_fire_and_forget count the operation first.
Count(c) ==
  /\ call[c] = "new"
  /\ call' = [call EXCEPT ![c] = "counted"]
  /\ pending' = pending + 1
  /\ UNCHANGED <<forget, channel, writer, current, written, failed, shutdown, early>>

\* The channel has room.  A fire-and-forget call is over by now.
Accept(c) ==
  /\ call[c] = "counted" /\ writer # "gone" /\ Len(channel) < Capacity
  /\ channel' = Append(channel, c)
  /\ call' = [call EXCEPT ![c] = IF c \in forget THEN "ok" ELSE "sent"]
  /\ early' = IF shutdown THEN early ELSE early \cup {c}
  /\ UNCHANGED <<forget, writer, current, written, failed, pending, shutdown>>

\* The channel is full: send waits, and a fire-and-forget write is dropped and
\* reported as done.
DropFull(c) ==
  /\ call[c] = "counted" /\ writer # "gone" /\ Len(channel) = Capacity
  /\ c \in forget
  /\ call' = [call EXCEPT ![c] = "ok"]
  /\ pending' = pending - 1
  /\ UNCHANGED <<forget, channel, writer, current, written, failed, shutdown, early>>

\* The receiver is gone.
Refuse(c) ==
  /\ call[c] = "counted" /\ writer = "gone"
  /\ call' = [call EXCEPT ![c] = "closed"]
  /\ pending' = pending - 1
  /\ UNCHANGED <<forget, channel, writer, current, written, failed, shutdown, early>>

\* Mutant: a caller that goes away takes its count with it, and the writer counts the
\* operation down again.
AbandonUncounts(c) ==
  /\ c \notin forget
  /\ \/ call[c] = "counted" /\ writer # "gone" /\ Len(channel) = Capacity
     \/ call[c] = "sent"
  /\ call' = [call EXCEPT ![c] = "abandoned"]
  /\ pending' = pending - 1
  /\ UNCHANGED <<forget, channel, writer, current, written, failed, shutdown, early>>

\* The handler's future is dropped while it waits for room or for its reply.
Abandon(c) ==
  /\ c \notin forget
  /\ \/ call[c] = "counted" /\ writer # "gone" /\ Len(channel) = Capacity
     \/ call[c] = "sent"
  /\ call' = [call EXCEPT ![c] = "abandoned"]
  /\ UNCHANGED <<forget, channel, writer, current, written, failed, pending, shutdown, early>>

------------------------------------------------------------------------------
(* writer_loop *)

\* The flag is read after an operation was received: that one is still executed
\* and then the rest is drained.
Receive ==
  /\ writer \in {"loop", "drain"} /\ current = None /\ channel # <<>>
  /\ current' = Head(channel)
  /\ channel' = Tail(channel)
  /\ writer' = IF writer = "loop" /\ shutdown THEN "last" ELSE writer
  /\ UNCHANGED <<forget, call, written, failed, pending, shutdown, early>>

\* The reply of execute_write_op, if somebody still waits for it.
Reply(c, answer) ==
  call' = [call EXCEPT ![c] = IF call[c] = "sent" THEN answer ELSE @]

\* Mutant: the caller hears of success whatever the database said.
ExecuteOptimistic ==
  /\ current # None /\ current \notin written \cup failed
  /\ \E done \in BOOLEAN :
       /\ written' = IF done THEN written \cup {current} ELSE written
       /\ failed' = IF done THEN failed ELSE failed \cup {current}
       /\ Reply(current, "ok")
  /\ UNCHANGED <<forget, channel, writer, current, pending, shutdown, early>>

Execute ==
  /\ current # None /\ current \notin written \cup failed
  /\ \E done \in BOOLEAN :
       /\ written' = IF done THEN written \cup {current} ELSE written
       /\ failed' = IF done THEN failed ELSE failed \cup {current}
       /\ Reply(current, IF done THEN "ok" ELSE "error")
  /\ UNCHANGED <<forget, channel, writer, current, pending, shutdown, early>>

Settle ==
  /\ current \in written \cup failed
  /\ current' = None
  /\ pending' = pending - 1
  /\ writer' = IF writer = "last" THEN "drain" ELSE writer
  /\ UNCHANGED <<forget, call, channel, written, failed, shutdown, early>>

\* Mutant: the flag is looked at only when an operation arrives.
IdleIgnoresFlag == FALSE /\ UNCHANGED vars

\* Nothing arrived for 100 ms.
Idle ==
  /\ writer = "loop" /\ current = None /\ channel = <<>> /\ shutdown
  /\ writer' = "drain"
  /\ UNCHANGED <<forget, call, channel, current, written, failed, pending, shutdown, early>>

\* Mutant: the writer stops without draining.
AnnounceAtOnce ==
  /\ writer = "drain" /\ current = None
  /\ writer' = "announced"
  /\ UNCHANGED <<forget, call, channel, current, written, failed, pending, shutdown, early>>

\* Nothing more to drain for 100 ms: notify_shutdown_complete.
Announce ==
  /\ writer = "drain" /\ current = None /\ channel = <<>>
  /\ writer' = "announced"
  /\ UNCHANGED <<forget, call, channel, current, written, failed, pending, shutdown, early>>

\* Mutant: the receiver outlives the loop.
ExitKeepingReceiver == FALSE /\ UNCHANGED vars

\* The task returns and drops the receiver with what was accepted meanwhile:
\* who waits for a reply learns that its write was cancelled.
Exit ==
  /\ writer = "announced"
  /\ writer' = "gone"
  /\ channel' = <<>>
  /\ call' = [c \in Calls |-> IF call[c] = "sent" THEN "cancelled" ELSE call[c]]
  /\ UNCHANGED <<forget, current, written, failed, pending, shutdown, early>>

\* SqliteStore::shutdown
RequestShutdown ==
  /\ ~shutdown
  /\ shutdown' = TRUE
  /\ UNCHANGED <<forget, call, channel, writer, current, written, failed, pending, early>>

Next ==
  \/ \E c \in Calls : Count(c) \/ Accept(c) \/ DropFull(c) \/ Refuse(c) \/ Abandon(c)
  \/ Receive \/ Execute \/ Settle \/ Idle \/ Announce \/ Exit
  \/ RequestShutdown

Spec == Init /\ [][Next]_vars

\* The runtime keeps polling the writer task and every future that is ready.
FairSpec ==
  /\ Spec
  /\ WF_vars(Receive \/ Execute \/ Settle \/ Idle \/ Announce \/ Exit)
  /\ \A c \in Calls : SF_vars(Accept(c)) /\ WF_vars(DropFull(c)) /\ WF_vars(Refuse(c))

------------------------------------------------------------------------------
(* Properties *)

\* The operations that have been counted and not been processed.
Outstanding ==
  {c \in Calls : \/ call[c] = "counted"
                 \/ \E i \in 1..Len(channel) : channel[i] = c
                 \/ current = c}

\* The depth that readiness and metrics report never understates the load and
\* so never wraps below zero, in whatever order callers and writer count.
DepthCovers == pending >= Cardinality(Outstanding)

\* What a waiting caller is told is what happened to its write, also when the
\* store shuts down under it.
AnswerIsTrue ==
  \A c \in Calls \ forget :
    /\ call[c] = "ok" => c \in written
    /\ call[c] \in {"error", "closed", "cancelled"} => c \notin written

\* Every operation that was accepted before the shutdown request has been put
\* to the database when shutdown returns.
DrainedOnShutdown ==
  writer \in {"announced", "gone"} => early \subseteq written \cup failed

\* No write is lost from sight: not by the depth that operators watch, not by the
\* answer its caller gets and not by the drain at shutdown.
WritesAccounted == DepthCovers /\ AnswerIsTrue /\ DrainedOnShutdown

\* A caller that waits is answered, whatever is shut down meanwhile.
EveryCallReturns == \A c \in Calls : call[c] \in {"counted", "sent"} ~> call[c] \in Told

\* A requested shutdown completes, also when no operation ever arrives.
ShutdownCompletes == shutdown ~> writer = "gone"

\* Neither a caller nor the shutdown of the store waits for ever.
NothingHangs == EveryCallReturns /\ ShutdownCompletes
==============================================================================
