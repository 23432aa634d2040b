------------------------------- MODULE AgentAuth -------------------------------
(***************************************************************************)
(* Replay protection of signed agent requests: the timestamp window and    *)
(* the in-memory nonce cache.                                              *)
(*                                                                         *)
(* The window is checked against the wall clock, which may be set, and the *)
(* nonce later, against the monotonic clock.                               *)
(***************************************************************************)
EXTENDS Integers, Sequences, FiniteSets

CONSTANTS
  Nonces,
  Signed,      \* the nonces of requests that an agent signed
  Skew,        \* agent_clock_skew_secs
  NonceTtls,   \* the values of nonce_cache_ttl_secs
  MinTtl,      \* the least derived ttl, 60 seconds
  MaxEntries,  \* nonce_cache_max_entries
  MaxRestarts, \* bound on restarts
  MaxNow,      \* bound on the clock
  Settings     \* bound on how far the wall clock is set off

ASSUME AgentAuthAssumption ==
  /\ Signed \subseteq Nonces
  /\ Skew \in Nat /\ NonceTtls \subseteq Nat /\ MinTtl \in Nat /\ MaxEntries \in Nat \ {0}
  /\ MaxNow \in Nat /\ MaxRestarts \in Nat /\ Settings \subseteq Int

VARIABLES
  nonceTtl,   \* nonce_cache_ttl_secs; it does not change
  now,        \* the monotonic clock
  off,        \* how far the wall clock is off from it
  cache,      \* the nonces in the cache with the time of their insertion
  stamp,      \* the timestamp that the agent signed with each nonce
  admitted,   \* copies of a request at work whose timestamp was in the window: the time
              \* on the wall clock then
  accepts,    \* the copies that passed: that time, and the time of the nonce check
  restarts,
  lost        \* nonces that fell out of the cache before their time

authVars == <<nonceTtl, now, off, cache, stamp, admitted, accepts, restarts, lost>>

AuthInit ==
  /\ nonceTtl \in NonceTtls
  /\ now = 0 /\ off = 0
  /\ cache = [n \in {} |-> 0]
  /\ stamp \in [Signed -> 0..MaxNow]
  /\ admitted = [n \in Signed |-> {}]
  /\ accepts = [n \in Signed |-> <<>>]
  /\ restarts = 0
  /\ lost = {}

Wall == now + off

\* Mutant: the ttl covers one side of the window.
TtlHalf == IF nonceTtl > 0 THEN nonceTtl ELSE IF Skew > MinTtl THEN Skew ELSE MinTtl

\* nonce_cache_ttl_secs = 0: the ttl is derived from the skew.
Ttl ==
  IF nonceTtl > 0 THEN nonceTtl ELSE IF 2 * Skew > MinTtl THEN 2 * Skew ELSE MinTtl

\* Mutant: timestamps of the future are let through.
InWindowAhead(ts) == ~(ts < Wall - Skew)

InWindow(ts) == ~(ts < Wall - Skew \/ ts > Wall + Skew)

\* check_and_insert: first the entries that are too old, then the oldest ones above the
\* capacity less one, whether or not the nonce is new.
Fresh == {n \in DOMAIN cache : now - cache[n] < Ttl}
PruneChoices ==
  LET room == MaxEntries - 1 IN
  {keep \in SUBSET Fresh :
     /\ Cardinality(keep) = (IF Cardinality(Fresh) > room THEN room ELSE Cardinality(Fresh))
     /\ \A k \in keep, d \in Fresh \ keep : cache[d] <= cache[k]}

CheckAndInsert(n, keep) ==
  /\ keep \in PruneChoices
  /\ cache' = [m \in keep \cup {n} |-> IF m \in keep THEN cache[m] ELSE now]
  /\ lost' = lost \cup (Fresh \ (keep \cup {n})) \cup (IF n \in Fresh \ keep THEN {n} ELSE {})

\* verify_agent_request of a request that the agent signed, and of copies of it: the
\* timestamp ...
CheckTimestamp(n) ==
  /\ InWindow(stamp[n])
  /\ admitted' = [admitted EXCEPT ![n] = @ \cup {Wall}]
  /\ UNCHANGED <<nonceTtl, now, off, cache, stamp, accepts, restarts, lost>>

\* ... and the nonce.
VerifyAgentRequest(n, seen, keep) ==
  /\ seen \in admitted[n] /\ Len(accepts[n]) < 2
  /\ CheckAndInsert(n, keep)
  /\ accepts' = IF n \in keep THEN accepts
                ELSE [accepts EXCEPT ![n] = Append(@, [seen |-> seen, checked |-> now])]
  /\ UNCHANGED <<nonceTtl, now, off, stamp, admitted, restarts>>

\* A request that fails after the nonce check, for its body, agent or signature: the
\* nonce stays in the cache.
RejectAgentRequest(n, keep) ==
  /\ CheckAndInsert(n, keep)
  /\ UNCHANGED <<nonceTtl, now, off, stamp, admitted, accepts, restarts>>

\* The cache and the requests at work are in memory.
RestartGateway ==
  /\ restarts < MaxRestarts
  /\ restarts' = restarts + 1
  /\ cache' = [n \in {} |-> 0]
  /\ admitted' = [n \in Signed |-> {}]
  /\ lost' = lost \cup DOMAIN cache
  /\ UNCHANGED <<nonceTtl, now, off, stamp, accepts>>

Second ==
  /\ now < MaxNow
  /\ now' = now + 1
  /\ UNCHANGED <<nonceTtl, off, cache, stamp, admitted, accepts, restarts, lost>>

SetWallClock ==
  /\ off' \in Settings
  /\ UNCHANGED <<nonceTtl, now, cache, stamp, admitted, accepts, restarts, lost>>

AuthNext ==
  \/ \E n \in Signed : CheckTimestamp(n)
  \/ \E n \in Signed, keep \in SUBSET Nonces :
       \E seen \in admitted[n] : VerifyAgentRequest(n, seen, keep)
  \/ \E n \in Nonces, keep \in SUBSET Nonces : RejectAgentRequest(n, keep)
  \/ RestartGateway
  \/ Second
  \/ SetWallClock

\* By how much the nonce check came after the time that the window check saw: the copy
\* waited, or the wall clock was behind.
Late(a) == a.checked - a.seen

\* How long a nonce has to be remembered: as long as is configured, or else as the window.
Promised == IF nonceTtl > 0 THEN nonceTtl ELSE 2 * Skew

\* A copy of a request that passed is refused, unless the cache lost the nonce to a
\* restart or to its capacity, or the ttl was over between the two nonce checks and the
\* timestamp still in the window, as wide as it is and as far as the two checks of the
\* later copy lay further apart than those of the first.  When they did not, a ttl beyond
\* the window leaves no such copy, and the derived one only those at the first and at the
\* last instant of the window (check_and_insert, verify_agent_request).
ReplayNeedsLoss ==
  \A n \in Signed : \A i, j \in DOMAIN accepts[n] : i < j =>
    LET gap == accepts[n][j].checked - accepts[n][i].checked IN
    \/ n \in lost
    \/ Promised <= gap /\ gap <= 2 * Skew + Late(accepts[n][j]) - Late(accepts[n][i])
=============================================================================
