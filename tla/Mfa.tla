---------------------------------- MODULE Mfa ----------------------------------
(***************************************************************************)
(* One agent's TOTP factors: enrolment, verification, rotation and the     *)
(* step-up check of the approval and quarantine handlers, with the lockout *)
(* counters kept for the agent and for each factor.                        *)
(*                                                                         *)
(* A request awaits the store between its steps, so that several requests  *)
(* for the same agent interleave.  Time is counted in TOTP steps; the code *)
(* of a factor for step n is n.  A lock with less than a second left is    *)
(* taken to have expired.                                                  *)
(***************************************************************************)
EXTENDS Integers, Sequences, FiniteSets

CONSTANTS
  Callers,       \* the callers whose requests are about the agent, each with one request
                 \* at a time: the sets of callers considered, each with a bound on the
                 \* requests they make
  MaxFactors,    \* bound on factors
  MaxAttempts,   \* mfa_lockout_max_attempts
  LockSteps,     \* mfa_lockout_duration_secs, in TOTP steps
  MaxStep        \* bound on the clock

ASSUME MfaAssumption ==
  /\ MaxFactors \in Nat /\ MaxStep \in Nat
  /\ \A w \in Callers : w \in [who : {w.who}, requests : Nat] /\ IsFiniteSet(w.who)
  /\ MaxAttempts \in Nat \ {0} /\ LockSteps \in Nat \ {0}

VARIABLES
  callers,    \* the callers and the number of requests they may still make
  step,       \* the TOTP step of the clock
  factors,    \* mfa_credentials of the agent, by creation: status, last_used_counter,
              \* failed_attempts, locked_until
  lockout,    \* mfa_agent_lockouts: failed_attempts, locked_until
  request,    \* the requests: program point, handler, factor, its locked_until when
              \* it was read, code, whether the code was accepted
  accepted,   \* the counters accepted for each factor, in order
  wrong       \* wrong codes recorded since the last accepted code, or since the
              \* agent's lock ran out

mfaVars == <<callers, step, factors, lockout, request, accepted, wrong>>

Clients == callers.who

Never == -1          \* last_used_counter IS NULL; no code
Unlocked == 0        \* locked_until IS NULL
Locked(until) == until > step

NewFactor == [status |-> "Pending", used |-> Never, failed |-> 0, until |-> Unlocked]
NoRequest == [pc |-> "idle", handler |-> "none", factor |-> 0, until |-> Unlocked, code |-> Never,
              fresh |-> FALSE]

Handlers == {"verify", "disable", "rotate", "resolve"}

MfaInit ==
  /\ callers \in Callers
  /\ step = 1
  /\ factors = <<>>
  /\ lockout = [failed |-> 0, until |-> Unlocked]
  /\ request = [c \in Clients |-> NoRequest]
  /\ accepted = [f \in 1..MaxFactors |-> <<>>]
  /\ wrong = 0

---------------------------------------------------------------------------
(* The store. *)

WithStatus(status) == {f \in DOMAIN factors : factors[f].status = status}
Newest(ids) == CHOOSE f \in ids : \A g \in ids : g <= f

\* Mutant: the other factors stay active.
activateOnly(f) ==
  [factors EXCEPT ![f].status = IF @ = "Pending" THEN "Active" ELSE @]

\* The other active factors of the agent are revoked, whether or not the factor can be
\* activated.
activate(f) ==
  [g \in DOMAIN factors |->
     IF g = f /\ factors[g].status = "Pending" THEN [factors[g] EXCEPT !.status = "Active"]
     ELSE IF g # f /\ factors[g].status = "Active" THEN [factors[g] EXCEPT !.status = "Inactive"]
     ELSE factors[g]]

\* Mutant: a counter counts again as long as no later one was used.
record_useAgain(f, counter) == factors[f].used <= counter

\* A counter is used once, and never after a later one.
record_use(f, counter) == factors[f].used < counter

record_failed_attempt(f) ==
  LET failed == factors[f].failed + 1 IN
  [factors EXCEPT ![f].failed = failed,
                  ![f].until = IF failed >= MaxAttempts THEN step + LockSteps ELSE @]

\* A lock that is still in force is extended; after one that ran out the count starts
\* anew.
record_agent_failed_attempt ==
  LET expired == lockout.until # Unlocked /\ ~Locked(lockout.until)
      failed == IF expired THEN 1 ELSE lockout.failed + 1
      locks == Locked(lockout.until) \/ failed >= MaxAttempts
  IN [failed |-> failed, until |-> IF locks THEN step + LockSteps ELSE Unlocked]

---------------------------------------------------------------------------
(* The handlers. *)

Goto(c, pc) == request' = [request EXCEPT ![c].pc = pc]
Done(c) == request' = [request EXCEPT ![c] = NoRequest]

\* The factors a handler may work on: the newest pending one, the newest active one, or
\* the active one that the client names.
Candidates(handler) ==
  CASE handler = "verify" -> {f \in WithStatus("Pending") : f = Newest(WithStatus("Pending"))}
    [] handler = "resolve" -> WithStatus("Active")
    [] OTHER -> {f \in WithStatus("Active") : f = Newest(WithStatus("Active"))}

\* A code is for a step around the present one, or wrong.
Codes == {Never} \cup {n \in 0..MaxStep : n \in step - 1 .. step + 1}

Begin(c) ==
  /\ request[c].pc = "idle" /\ callers.requests > 0
  /\ callers' = [callers EXCEPT !.requests = @ - 1]

\* enroll_mfa
Enroll ==
  /\ Len(factors) < MaxFactors
  /\ factors' = Append(factors, NewFactor)
  /\ UNCHANGED <<callers, step, lockout, request, accepted, wrong>>

\* A handler reads the factor. verify_mfa and the step-up check turn a locked agent away
\* before.
Load(c, handler, f, code) ==
  /\ Begin(c)
  /\ f \in Candidates(handler) /\ code \in Codes
  /\ handler \in {"verify", "resolve"} => ~Locked(lockout.until)
  /\ request' = [request EXCEPT ![c] = [pc |-> "check", handler |-> handler, factor |-> f,
                                        until |-> factors[f].until, code |-> code,
                                        fresh |-> FALSE]]
  /\ UNCHANGED <<step, factors, lockout, accepted, wrong>>

\* verify_or_breakglass without a code, for a caller with the scope admin:mfa:breakglass
BreakGlass(c, handler, f) ==
  /\ Begin(c)
  /\ handler \in {"disable", "rotate"} /\ f \in Candidates(handler)
  /\ request' = [request EXCEPT ![c] = [NoRequest EXCEPT !.pc = "revoke", !.handler = handler,
                                                         !.factor = f]]
  /\ UNCHANGED <<step, factors, lockout, accepted, wrong>>

\* rotate_mfa without an active factor enrols one
RotateNone(c) ==
  /\ Begin(c)
  /\ WithStatus("Active") = {}
  /\ request' = [request EXCEPT ![c] = [NoRequest EXCEPT !.pc = "insert", !.handler = "rotate"]]
  /\ UNCHANGED <<step, factors, lockout, accepted, wrong>>

\* The clock skew that verify_totp_code_with_counter tolerates is one step either way.
CodeMatches(code) == code # Never /\ code \in step - 1 .. step + 1

\* verify_totp_with_lockout: the agent's lock as it is, the factor's as it was read.
Verify(c) ==
  /\ request[c].pc = "check"
  /\ \/ /\ Locked(lockout.until) \/ Locked(request[c].until)
        /\ Done(c)
     \/ /\ ~Locked(lockout.until) /\ ~Locked(request[c].until)
        /\ request' = [request EXCEPT ![c].until = Unlocked,
             ![c].pc = IF CodeMatches(request[c].code) THEN "use" ELSE "failAgent"]
  /\ UNCHANGED <<callers, step, factors, lockout, accepted, wrong>>

FailAgent(c) ==
  /\ request[c].pc = "failAgent"
  /\ lockout' = record_agent_failed_attempt
  /\ wrong' = wrong + 1
  /\ Goto(c, "failFactor")
  /\ UNCHANGED <<callers, step, factors, accepted>>

FailFactor(c) ==
  /\ request[c].pc = "failFactor"
  /\ factors' = record_failed_attempt(request[c].factor)
  /\ Done(c)
  /\ UNCHANGED <<callers, step, lockout, accepted, wrong>>

\* Mutant: the lockouts are reset whether or not the code was new.
UseIgnored(c) ==
  LET f == request[c].factor  counter == request[c].code IN
  /\ request[c].pc = "use"
  /\ factors' = [factors EXCEPT ![f].used = IF record_use(f, counter) THEN counter ELSE @]
  /\ accepted' = IF record_use(f, counter) THEN [accepted EXCEPT ![f] = Append(@, counter)]
                 ELSE accepted
  /\ request' = [request EXCEPT ![c].pc = "resetAgent", ![c].fresh = record_use(f, counter)]
  /\ UNCHANGED <<callers, step, lockout, wrong>>

\* A replayed code ends the request here: the lockout is not reset.
Use(c) ==
  LET f == request[c].factor  counter == request[c].code IN
  /\ request[c].pc = "use"
  /\ \/ /\ record_use(f, counter)
        /\ factors' = [factors EXCEPT ![f].used = counter]
        /\ accepted' = [accepted EXCEPT ![f] = Append(@, counter)]
        /\ request' = [request EXCEPT ![c].pc = "resetAgent", ![c].fresh = TRUE]
     \/ /\ ~record_use(f, counter)
        /\ Done(c)
        /\ UNCHANGED <<factors, accepted>>
  /\ UNCHANGED <<callers, step, lockout, wrong>>

\* reset_mfa_lockout_after_success, the agent and then the factor
ResetAgent(c) ==
  /\ request[c].pc = "resetAgent"
  /\ lockout' = [failed |-> 0, until |-> Unlocked]
  /\ wrong' = IF request[c].fresh THEN 0 ELSE wrong
  /\ Goto(c, "resetFactor")
  /\ UNCHANGED <<callers, step, factors, accepted>>

ResetFactor(c) ==
  /\ request[c].pc = "resetFactor"
  /\ factors' = [factors EXCEPT ![request[c].factor].failed = 0,
                                ![request[c].factor].until = Unlocked]
  /\ CASE request[c].handler = "verify" -> Goto(c, "activate")
       [] request[c].handler = "resolve" -> Done(c)
       [] OTHER -> Goto(c, "revoke")
  /\ UNCHANGED <<callers, step, lockout, accepted, wrong>>

Activate(c) ==
  /\ request[c].pc = "activate"
  /\ factors' = activate(request[c].factor)
  /\ Done(c)
  /\ UNCHANGED <<callers, step, lockout, accepted, wrong>>

\* disable_mfa answers 404 when the factor was revoked meanwhile, rotate_mfa goes on.
Revoke(c) ==
  LET f == request[c].factor IN
  /\ request[c].pc = "revoke"
  /\ factors' = [factors EXCEPT ![f].status = "Inactive"]
  /\ IF request[c].handler = "rotate" THEN Goto(c, "insert") ELSE Done(c)
  /\ UNCHANGED <<callers, step, lockout, accepted, wrong>>

\* The new factor of rotate_mfa; the old one was revoked before, in a write of its own.
Insert(c) ==
  /\ request[c].pc = "insert"
  /\ Len(factors) < MaxFactors
  /\ factors' = Append(factors, NewFactor)
  /\ Done(c)
  /\ UNCHANGED <<callers, step, lockout, accepted, wrong>>

\* A store error, a dropped connection or a crash ends the request where it is.
Abort(c) ==
  /\ request[c].pc # "idle"
  /\ Done(c)
  /\ UNCHANGED <<callers, step, factors, lockout, accepted, wrong>>

NextStep ==
  /\ step < MaxStep
  /\ step' = step + 1
  /\ wrong' = IF lockout.until = step' THEN 0 ELSE wrong
  /\ UNCHANGED <<callers, factors, lockout, request, accepted>>

MfaNext ==
  \/ Enroll
  \/ \E c \in Clients :
       \/ \E h \in Handlers, f \in DOMAIN factors, n \in Codes : Load(c, h, f, n)
       \/ \E h \in {"disable", "rotate"}, f \in DOMAIN factors : BreakGlass(c, h, f)
       \/ RotateNone(c)
       \/ Verify(c) \/ FailAgent(c) \/ FailFactor(c)
       \/ Use(c) \/ ResetAgent(c) \/ ResetFactor(c)
       \/ Activate(c) \/ Revoke(c) \/ Insert(c)
       \/ Abort(c)
  \/ NextStep

---------------------------------------------------------------------------
(* Properties. *)

\* A TOTP code is good for one action: whatever the requests that present it at the same
\* time or again later, the counters accepted for a factor only grow (record_use).
CodeUsedOnce ==
  \A f \in DOMAIN accepted : \A i, j \in DOMAIN accepted[f] :
    i < j => accepted[f][i] < accepted[f][j]

\* However the verifications, rotations and break-glass calls interleave, an agent never
\* has two active factors (activate).
OneActiveFactor == Cardinality(WithStatus("Active")) <= 1

\* The agent lockout bounds guessing: between two accepted codes, and between the end of
\* one lock and the next, at most MaxAttempts wrong codes are counted, plus those of the
\* requests that had passed the lock check when the lock came into force.  A code whose
\* request is dropped between its comparison and the count is not among them.  A replayed
\* code does not lift the lock, nor do the counters that handlers share lose a
\* failure (verify_totp_with_lockout, record_agent_failed_attempt).
GuessesBounded == wrong <= MaxAttempts - 1 + Cardinality(Clients)

\* Second factors hold under concurrent requests: no code counts twice, no agent has two
\* factors in force, and guessing stays bounded.
SecondFactorHolds == CodeUsedOnce /\ OneActiveFactor /\ GuessesBounded
=============================================================================
