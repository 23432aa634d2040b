------------------------------ MODULE McpSession ------------------------------
(***************************************************************************)
(* A session of the MCP server's HTTP transport and its replay buffer.     *)
(*                                                                         *)
(* Each POST is validated, dispatched and its response appended to the     *)
(* buffer; the event id is drawn before the lock on the buffer is taken,   *)
(* so that the pushes of concurrent requests may come in another order.    *)
(* A GET replays what follows the client's Last-Event-ID.                  *)
(***************************************************************************)
EXTENDS Naturals, Sequences, FiniteSetsExt

CONSTANTS
  Posts,           \* concurrent POST requests
  Sizes,           \* the sizes that a response may have
  MaxEventBytes,   \* max_event_bytes
  MaxTotalBytes,   \* max_total_bytes
  MaxEvents,       \* max_events
  SessionTtl,      \* ttl
  MaxEventId       \* bound on event ids

ASSUME McpAssumption ==
  /\ Sizes \subseteq Nat /\ SessionTtl \in Nat /\ MaxEventId \in Nat
  /\ MaxEvents \in Nat \ {0} /\ MaxEventBytes \in Nat \ {0} /\ MaxTotalBytes \in Nat \ {0}

VARIABLES
  session,     \* whether it is in the table, and the time since its last activity
  events,      \* the buffer: id and size of each event
  ids,         \* next_event_id, first_event_id, last_event_id
  total,       \* total_bytes
  post,        \* the requests: program point, event
  pushed,      \* every id that was put into the buffer
  reordered    \* an id was pushed after a later one

mcpVars == <<session, events, ids, total, post, pushed, reordered>>

NoPost == [pc |-> "idle", id |-> 0, size |-> 0]

\* initialize has created the session.
McpInit ==
  /\ session = [open |-> TRUE, idle |-> 0]
  /\ events = <<>>
  /\ ids = [next |-> 1, first |-> 0, last |-> 0]
  /\ total = 0
  /\ post = [p \in Posts |-> NoPost]
  /\ pushed = {}
  /\ reordered = FALSE

---------------------------------------------------------------------------
Touched == [session EXCEPT !.idle = 0]
Valid == session.open /\ session.idle <= SessionTtl

\* mcp_post_handler: validate_session, then the dispatch
Post(p) ==
  /\ post[p].pc = "idle" /\ Valid
  /\ session' = Touched
  /\ post' = [post EXCEPT ![p].pc = "dispatched"]
  /\ UNCHANGED <<events, ids, total, pushed, reordered>>

\* append_event. A session that is gone and a response that is too large are only logged.
DrawId(p, size) ==
  /\ post[p].pc = "dispatched"
  /\ \/ /\ ~session.open \/ size > MaxEventBytes
        /\ post' = [post EXCEPT ![p] = NoPost]
        /\ UNCHANGED ids
     \/ /\ session.open /\ size <= MaxEventBytes
        /\ ids.next <= MaxEventId
        /\ post' = [post EXCEPT ![p] = [pc |-> "push", id |-> ids.next, size |-> size]]
        /\ ids' = [ids EXCEPT !.next = @ + 1]
  /\ UNCHANGED <<session, events, total, pushed, reordered>>

Push(p) ==
  LET id == post[p].id IN
  /\ post[p].pc = "push"
  /\ events' = Append(events, [id |-> id, size |-> post[p].size])
  /\ total' = total + post[p].size
  /\ ids' = [ids EXCEPT !.first = IF @ = 0 THEN id ELSE @, !.last = id]
  /\ session' = Touched
  /\ pushed' = pushed \cup {id}
  /\ reordered' = (reordered \/ \E later \in pushed : later > id)
  /\ post' = [post EXCEPT ![p].pc = "bound"]

\* The bytes of the first n events, and of all of them
BytesTo(es) ==
  LET sum[n \in 0..Len(es)] == IF n = 0 THEN 0 ELSE sum[n - 1] + es[n].size IN sum
Bytes(es) == BytesTo(es)[Len(es)]

WithinLimits(count, bytes) == count <= MaxEvents /\ bytes <= MaxTotalBytes

\* total_bytes.saturating_sub for each event dropped
Left(bytes, dropped) == IF dropped > bytes THEN 0 ELSE bytes - dropped

\* Mutant: only the number of events is bounded.
EvictedByCount(es, bytes) == Len(es) - Min({Len(es), MaxEvents})

\* enforce_bounds drops the oldest events until none is left or both limits hold.
Evicted(es, bytes) ==
  Min({n \in 0..Len(es) :
         n = Len(es) \/ WithinLimits(Len(es) - n, Left(bytes, BytesTo(es)[n]))})

\* Mutant: first_event_id stays behind.
FirstIsKept(n) == ids

\* first_event_id follows the eviction of n events; an emptied buffer resets both ends.
EndsAfter(n) ==
  CASE n = 0 -> ids
    [] n > 0 /\ n < Len(events) -> [ids EXCEPT !.first = events[n + 1].id]
    [] OTHER -> [ids EXCEPT !.first = 0, !.last = 0]

EnforceBounds(p) ==
  LET n == Evicted(events, total) IN
  /\ post[p].pc = "bound"
  /\ events' = SubSeq(events, n + 1, Len(events))
  /\ total' = Left(total, BytesTo(events)[n])
  /\ ids' = EndsAfter(n)
  /\ post' = [post EXCEPT ![p] = NoPost]
  /\ UNCHANGED <<session, pushed, reordered>>

\* mcp_get_handler; the answer is Replay below
Get ==
  /\ Valid
  /\ session' = Touched
  /\ UNCHANGED <<events, ids, total, post, pushed, reordered>>

\* mcp_delete_handler
Delete ==
  /\ Valid
  /\ session' = [session EXCEPT !.open = FALSE]
  /\ UNCHANGED <<events, ids, total, post, pushed, reordered>>

\* cleanup_expired
CleanupExpired ==
  /\ session.open /\ session.idle > SessionTtl
  /\ session' = [session EXCEPT !.open = FALSE]
  /\ UNCHANGED <<events, ids, total, post, pushed, reordered>>

TickSession ==
  /\ session.open /\ session.idle <= SessionTtl
  /\ session' = [session EXCEPT !.idle = @ + 1]
  /\ UNCHANGED <<events, ids, total, post, pushed, reordered>>

McpNext ==
  \/ \E p \in Posts : \/ Post(p)
                      \/ \E size \in Sizes : DrawId(p, size)
                      \/ Push(p) \/ EnforceBounds(p)
  \/ Get \/ Delete \/ CleanupExpired \/ TickSession

---------------------------------------------------------------------------
\* events_after: refused when the id is unknown or its successor was evicted
Stale(last) ==
  \/ last > 0 /\ ids.last = 0
  \/ ids.first > 0 /\ last + 1 < ids.first
  \/ last > ids.last

Replay(last) == {events[i].id : i \in {j \in DOMAIN events : events[j].id > last}}

(* Properties. *)

\* A client that reconnects with the last id it saw gets every later event or is refused:
\* evictions leave no silent gap, as long as no push overtook another
\* (events_after, enforce_bounds).
ReplayIsComplete ==
  session.open /\ ~reordered =>
    \A last \in pushed : Stale(last) \/ Replay(last) = {id \in pushed : id > last}

\* Once no request is between its push and its eviction, the buffer is within both limits
\* and total_bytes is the size of what it holds, whatever the pushes and evictions of
\* concurrent requests did in between (append_event, enforce_bounds).
BufferWithinLimits ==
  (\A p \in Posts : post[p].pc # "bound") =>
    WithinLimits(Len(events), total) /\ total = Bytes(events)

\* The event buffer serves reconnecting clients within its limits.
BufferHolds == ReplayIsComplete /\ BufferWithinLimits
=============================================================================
