-------------------------------- MODULE Limits --------------------------------
(***************************************************************************)
(* What the system counts per client in memory: the token buckets of the   *)
(* MCP server, per actor and per address, and the gateway's behavioural    *)
(* profiler, which reports clusters of high-risk proposals.                *)
(*                                                                         *)
(* Each reads the clock first and takes its lock then: a call comes with a *)
(* reading at that may be older than that of the call before it.           *)
(***************************************************************************)
EXTENDS Integers, Sequences, FiniteSetsExt, Functions

CONSTANTS
  Principals,    \* addresses, actors
  Bursts, Rate,  \* of the token bucket, per tick of the clock
  IdleTimeout,   \* IP_RATE_LIMITER_IDLE_TIMEOUT
  Window, Warning, Critical, MaxActors,   \* of the profiler
  MaxTick,       \* bound on the clock
  MaxPassed,     \* bound on requests let through
  MaxAsked       \* bound on proposals

\* A warning comes before a critical finding.
ASSUME LimitsAssumption ==
  /\ Bursts \subseteq Nat \ {0} /\ Rate \in Nat /\ IdleTimeout \in Nat
  /\ Window \in Nat \ {0} /\ Warning \in Nat \ {0} /\ Critical \in Nat /\ Warning <= Critical
  /\ MaxActors \in Nat \ {0} /\ MaxTick \in Nat /\ MaxPassed \in Nat /\ MaxAsked \in Nat

VARIABLES
  tick,      \* the clock
  burst,     \* the configured burst; it does not change
  buckets,   \* principal -> tokens, last_check
  passed,    \* the requests let through: principal and reading
  forgotten, \* principal -> reading of the cleanup that dropped its bucket
  slips,     \* calls that were overtaken and buckets that were dropped early, with the
             \* number of requests let through before
  actors,    \* principal -> the readings of its proposals in the profiler
  asked,     \* every qualifying proposal: principal and reading
  evicted,   \* principals that the profiler dropped at its limit, and when
  finding    \* the profiler's latest finding: principal, reading, severity

throttleVars == <<burst, buckets, passed, forgotten, slips>>
profilerVars == <<actors, asked, evicted, finding>>
limitVars == <<tick, throttleVars, profilerVars>>

NoFinding == [of |-> "nobody", at |-> 0, severity |-> "none"]

LimitsInit ==
  /\ tick = 0
  /\ burst \in Bursts
  /\ buckets = <<>> /\ passed = <<>> /\ forgotten = <<>> /\ slips = {}
  /\ actors = <<>> /\ asked = <<>> /\ evicted = {}
  /\ finding = NoFinding

---------------------------------------------------------------------------
FullBucket(at) == [tokens |-> burst, checked |-> at]

\* A reading older than last_check counts as no time.
Elapsed(b, at) == Max({at - b.checked, 0})

\* Mutant: tokens pile up without end.
RefilledUncapped(b, at) == [tokens |-> b.tokens + Elapsed(b, at) * Rate, checked |-> at]

\* last_check is set to the reading, backwards too.
Refilled(b, at) == [tokens |-> Min({b.tokens + Elapsed(b, at) * Rate, burst}), checked |-> at]

Bound(f, p, new) == IF p \in DOMAIN f THEN f[p] ELSE new
With(f, p, v) == [q \in DOMAIN f \cup {p} |-> IF q = p THEN v ELSE f[q]]

\* The latest reading with which the principal's bucket was looked at
LastLook(p) == IF p \in DOMAIN buckets THEN buckets[p].checked ELSE Bound(forgotten, p, 0)

Slip(p, cause) == [who |-> p, after |-> Len(passed), cause |-> cause]

\* check_at of RateLimiter and of IpRateLimiter
Check(p, at) ==
  LET b == Refilled(Bound(buckets, p, FullBucket(at)), at) IN
  /\ Len(passed) < MaxPassed
  /\ \/ /\ b.tokens >= 1
        /\ buckets' = With(buckets, p, [b EXCEPT !.tokens = @ - 1])
        /\ passed' = Append(passed, [who |-> p, at |-> at])
     \/ /\ b.tokens < 1
        /\ buckets' = With(buckets, p, b)
        /\ UNCHANGED passed
  /\ slips' = IF at < LastLook(p) THEN slips \cup {Slip(p, "overtaken")} ELSE slips
  /\ UNCHANGED <<tick, burst, forgotten, profilerVars>>

\* cleanup_idle of IpRateLimiter
Idle(at) == {p \in DOMAIN buckets : at - buckets[p].checked > IdleTimeout}

CleanupIdle(at) ==
  /\ buckets' = Restrict(buckets, DOMAIN buckets \ Idle(at))
  /\ forgotten' = [p \in DOMAIN forgotten \cup Idle(at) |-> IF p \in Idle(at) THEN at ELSE forgotten[p]]
  /\ slips' = slips \cup {Slip(p, "early") :
                          p \in {q \in Idle(at) : Refilled(buckets[q], at).tokens < burst}}
  /\ UNCHANGED <<tick, burst, passed, profilerVars>>

---------------------------------------------------------------------------
Recent(t, at) == at - t < Window

\* prune: what has left the window is dropped from the front, up to the first that has not.
Pruned(times, at) ==
  LET first == Min({n \in 1..(Len(times) + 1) : n > Len(times) \/ Recent(times[n], at)})
  IN SubSeq(times, first, Len(times))

\* Mutant: the queue is shorter than the critical threshold.
MaxKeptShort == Critical - 1

\* max_events_per_actor
MaxKept == Critical + 1

Latest(times) == SubSeq(times, Len(times) - Min({Len(times), MaxKept}) + 1, Len(times))

Severity(count) ==
  CASE count >= Critical -> "critical"
    [] count < Critical /\ count >= Warning -> "warning"
    [] OTHER -> "none"

\* inspect_proposal, for a proposal of high risk or rollback class R3. At the limit some
\* principal is dropped.
Inspect(p, at) ==
  /\ Len(asked) < MaxAsked
  /\ asked' = Append(asked, [who |-> p, at |-> at])
  /\ \E victims \in IF p \notin DOMAIN actors /\ Cardinality(DOMAIN actors) >= MaxActors
                    THEN {{q} : q \in DOMAIN actors} ELSE {{}} :
       LET rest == Restrict(actors, DOMAIN actors \ victims)
           recent == Pruned(Bound(rest, p, <<>>), at)
           times == Latest(Append(recent, at))
       IN /\ actors' = With(rest, p, times)
          /\ evicted' = evicted \cup {[who |-> q, at |-> Len(asked)] : q \in victims}
          /\ finding' = [of |-> p, at |-> at, severity |-> Severity(Len(times))]
  /\ UNCHANGED <<tick, throttleVars>>

TickLimits ==
  /\ tick < MaxTick
  /\ tick' = tick + 1
  /\ UNCHANGED <<throttleVars, profilerVars>>

\* The two share nothing but the clock.
ThrottleNext ==
  \/ \E at \in 0..tick : (\E p \in Principals : Check(p, at)) \/ CleanupIdle(at)
  \/ TickLimits
ProfilerNext ==
  \/ \E at \in 0..tick : \E p \in Principals : Inspect(p, at)
  \/ TickLimits

---------------------------------------------------------------------------
(* Properties. *)

\* From one request that was let through to another a client gets no more through than the
\* burst and the refill of that stretch, although idle buckets are forgotten.  Excepted are
\* stretches in which a call of the client was overtaken, so that an interval is refilled
\* twice, and, when the burst is larger than what the idle timeout refills, those in which
\* its bucket was forgotten before it had filled up (check_at, cleanup_idle).
NeverOverRate ==
  \A i, j \in DOMAIN passed :
    i <= j /\ passed[i].who = passed[j].who =>
      \/ Cardinality({k \in i..j : passed[k].who = passed[j].who})
           <= burst + (passed[j].at - passed[i].at) * Rate
      \/ \E e \in slips : /\ e.who = passed[j].who /\ e.after \in i..(j - 1)
                          /\ e.cause = "early" => Rate * IdleTimeout < burst

\* A finding says how many qualifying proposals the principal made within the window, as
\* long as it was not dropped since the first of them, and as long as none of those within
\* the window has overtaken another: neither the pruning nor the cap on the queue hides a
\* cluster (inspect_proposal).
FindingIsRight ==
  LET p == finding.of
      mine == {k \in DOMAIN asked : asked[k].who = p}
      counted == {k \in mine : Recent(asked[k].at, finding.at)}
  IN finding # NoFinding =>
       \/ finding.severity = Severity(Cardinality(counted))
       \/ \E e \in evicted : e.who = p /\ \E k \in counted : k <= e.at
       \/ \E k \in counted, m \in mine : k < m /\ asked[m].at < asked[k].at

\* A client whose calls are counted in the order of their readings stays within its rate
\* and its clusters are found.
LimitsHold == NeverOverRate /\ FindingIsRight
=============================================================================
