------------------------------ MODULE Governance ------------------------------
(***************************************************************************)
(* What must happen before an execution exists: a proposal is evaluated, a *)
(* human answers the approval or the quarantine hold it needs, a           *)
(* capability is minted, and the capability is spent on one execution or   *)
(* revoked.  Handlers of several gateway processes and the two timeout     *)
(* reconcilers work on the same rows; each await of a handler is a step,   *)
(* and a handler may stop for good between two of them.                    *)
(*                                                                         *)
(* One proposal with its approval, its hold and its capabilities.  ferrumd *)
(* runs StoreCapabilityService, so a capability has one copy, its row.     *)
(***************************************************************************)
EXTENDS Naturals

CONSTANTS
  Capability,       \* capability identifiers
  NoCapability,     \* the capability of a request that concerns none
  Handler,          \* slots in which HTTP handlers run
  Sweeper,          \* timeout reconciler loops
  Horizon,          \* bound on the clock
  ApprovalExpires,  \* approvals.expires_at; the approval is created at time 0
  ApprovalTimeout,  \* config approval_timeout_seconds
  HoldTimeout,      \* config quarantine_timeout_seconds
  Policy,           \* the decisions that the policy in force may reach
  Approval,         \* states in which the approval row may be found at first
  Ask,              \* the bindings that clients ask for
  Ttl,              \* the requested_ttl_secs that clients ask for
  FailClosed        \* config audit_fail_closed

VARIABLES
  now,         \* the clock
  proposal,    \* the proposal row exists
  decision,    \* the decision of its PolicyEvaluated event, None before
  row,         \* state of the approval row and of the hold row
  hardened,    \* approvals.resolver_evidence_version is set
  requester,   \* a historical approval's requested_by has an allowed role
  holdExpires, \* quarantine_holds.expires_at
  verdicts,    \* provenance events about the approval and about the hold
  refused,     \* objects whose resolver was told that the audit failed
  status,      \* capabilities.status, None before the row is inserted
  expires,     \* capabilities.expires_at
  binding,     \* the approval_binding of the lease
  capEvents,   \* provenance events about the capability
  executions,  \* number of execution rows inserted for the capability
  spentAt,     \* the time at which the last of them was inserted
  req          \* what each slot is doing

decisionVars == <<proposal, decision>>
verdictVars == <<row, hardened, requester, holdExpires, verdicts, refused>>
capVars == <<status, expires, binding, capEvents, executions, spentAt>>
vars == <<now, proposal, decision, row, hardened, requester, holdExpires,
          verdicts, refused, status, expires, binding, capEvents, executions,
          spentAt, req>>

Slot == Handler \cup Sweeper

------------------------------------------------------------------------------
(* Vocabulary *)

None == "None"

Object == {"approval", "hold"}

Decision ==
  {"Allow", "Deny", "Quarantine", "RequireApproval", "AllowDraftOnly"}

RowState == {"Pending", "Granted", "Allowed", "Denied", "Expired"}

\* The statuses that are stored: expiry is a comparison with expires_at.
CapabilityStatus == {"Active", "Used", "Revoked"}

\* A lease may name an approval, and may ask that an allowed role granted it.
Binding == {"Unbound", "Bound", "RoleBound"}

\* ApprovalGranted events tell whether the resolver was authenticated with a
\* role that the binding allows.
Verdict == {"GrantedByRole", "GrantedByOther", "Allowed", "Denied", "TimedOut"}

\* The row state that a verdict stands for.
StateOf(v) ==
  CASE v \in {"GrantedByRole", "GrantedByOther"} -> "Granted"
    [] v = "TimedOut" -> "Expired"
    [] OTHER -> v

\* What a resolver may answer: the approve or allow flag of the request, and
\* for a granted approval the standing of the resolver.
Answers(o) ==
  IF o = "approval" THEN {"GrantedByRole", "GrantedByOther", "Denied"}
                    ELSE {"Allowed", "Denied"}

Operation ==
  {"none", "evaluate", "resolve", "sweep", "mint", "authorize", "revoke"}

ProgramPoint ==
  { "idle",
    "loaded",   \* rows read and accepted
    "cleared",  \* every check passed, nothing written yet
    "written",  \* the row is written, an event is owed
    "audited",  \* resolve: the audit entry is written, the event is owed
    "lost",     \* revoke: the conditional update changed no row
    "missed",   \* revoke: the service answered NotFound
    "stale" }   \* revoke: the fallback holds a copy of the row

Request ==
  [ pc : ProgramPoint, op : Operation, o : Object \cup {None},
    c : Capability \cup {NoCapability}, t : Nat,
    arg : Decision \cup Verdict \cup Binding \cup {None} ]

Idle ==
  [ pc |-> "idle", op |-> "none", o |-> None, c |-> NoCapability, t |-> 0,
    arg |-> None ]

Finish(s) == req' = [req EXCEPT ![s] = Idle]
Goto(s, pc) == req' = [req EXCEPT ![s].pc = pc]
At(s, op, pc) == req[s].op = op /\ req[s].pc = pc
Begin(s, r) == req[s].pc = "idle" /\ req' = [req EXCEPT ![s] = r]

ASSUME NoCapabilityAssumption == NoCapability \notin Capability
ASSUME WorkerAssumption == Handler \cap Sweeper = {}
ASSUME TimeAssumption ==
  /\ {Horizon, ApprovalExpires, ApprovalTimeout, HoldTimeout} \subseteq Nat
  /\ Ttl \subseteq Nat
ASSUME InputAssumption ==
  /\ Policy \subseteq Decision
  /\ Approval \subseteq {None, "Pending", "Granted"}
  /\ Ask \subseteq Binding
ASSUME FailClosedAssumption == FailClosed \in BOOLEAN

------------------------------------------------------------------------------
(* The initial state *)

\* The approval is inserted by whoever integrates the gateway; no handler does
\* it.  It may be missing, and a granted one is from the time before resolvers
\* left evidence.
Init ==
  /\ now = 0
  /\ proposal = FALSE
  /\ decision = None
  /\ \E a \in Approval :
       row = [o \in Object |-> IF o = "approval" THEN a ELSE None]
  /\ hardened = FALSE
  /\ requester \in BOOLEAN
  /\ holdExpires = 0
  /\ verdicts = [o \in Object |-> {}]
  /\ refused = {}
  /\ status = [c \in Capability |-> None]
  /\ expires = [c \in Capability |-> 0]
  /\ binding = [c \in Capability |-> "Unbound"]
  /\ capEvents = [c \in Capability |-> {}]
  /\ executions = [c \in Capability |-> 0]
  /\ spentAt = [c \in Capability |-> 0]
  /\ req = [s \in Slot |-> Idle]

Tick ==
  /\ now < Horizon
  /\ now' = now + 1
  /\ UNCHANGED <<decisionVars, verdictVars, capVars, req>>

\* A crash, a dropped connection or a store error ends a request anywhere.
Stop(s) ==
  /\ req[s].pc # "idle"
  /\ Finish(s)
  /\ UNCHANGED <<now, decisionVars, verdictVars, capVars>>

------------------------------------------------------------------------------
(* evaluate_proposal *)

\* The primary key lets one evaluation through; the decision is the policy
\* engine's and may be any.
EvaluateInsert(h, d) ==
  /\ ~proposal
  /\ proposal' = TRUE
  /\ Begin(h, [Idle EXCEPT !.pc = "loaded", !.op = "evaluate", !.arg = d])
  /\ UNCHANGED <<now, decision, verdictVars, capVars>>

EvaluateAppend(h) ==
  /\ At(h, "evaluate", "loaded")
  /\ decision' = req[h].arg
  /\ IF decision' = "Quarantine" THEN Goto(h, "cleared") ELSE Finish(h)
  /\ UNCHANGED <<now, proposal, verdictVars, capVars>>

\* create_quarantine_hold; its QuarantineHoldCreated event, the parent of all
\* later ones, is written by CreatedAppend.
EvaluateHold(h) ==
  /\ At(h, "evaluate", "cleared")
  /\ row' = [row EXCEPT !["hold"] = "Pending"]
  /\ holdExpires' = now + HoldTimeout
  /\ Goto(h, "written")
  /\ UNCHANGED <<now, decisionVars, hardened, requester, verdicts, refused,
                 capVars>>

CreatedAppend(h) ==
  /\ At(h, "evaluate", "written")
  /\ verdicts' = [verdicts EXCEPT !["hold"] = @ \cup {"Created"}]
  /\ Finish(h)
  /\ UNCHANGED <<now, decisionVars, row, hardened, requester, holdExpires,
                 refused, capVars>>

------------------------------------------------------------------------------
(* resolve_approval, resolve_quarantine_hold and the timeout reconcilers *)

ExpiresAt(o) == IF o = "approval" THEN ApprovalExpires ELSE holdExpires

\* MFA is checked before the row is read and is left out.
ResolveLoad(h, o, v) ==
  /\ row[o] = "Pending"
  /\ ExpiresAt(o) >= now
  /\ Begin(h, [Idle EXCEPT !.pc = "loaded", !.op = "resolve", !.o = o,
                           !.t = now, !.arg = v])
  /\ UNCHANGED <<now, decisionVars, verdictVars, capVars>>

\* Mutant: the update tests only the expiry, not the state it read.
ResolvableUntested(o, t) == o = "approval" => ApprovalExpires > t

\* The conditional update.  An approval is compared with the time that the
\* handler read, a hold is not compared with any.
Resolvable(o, t) ==
  /\ row[o] = "Pending"
  /\ o = "approval" => ApprovalExpires > t

ResolveWrite(h) ==
  /\ At(h, "resolve", "loaded")
  /\ LET r == req[h] IN
     \/ /\ Resolvable(r.o, r.t)
        /\ row' = [row EXCEPT ![r.o] = StateOf(r.arg)]
        /\ hardened' = (hardened \/ r.o = "approval")
        /\ Goto(h, "written")
     \/ /\ ~Resolvable(r.o, r.t)
        /\ Finish(h)
        /\ UNCHANGED <<row, hardened>>
  /\ UNCHANGED <<now, decisionVars, requester, holdExpires, verdicts, refused,
                 capVars>>

\* append_audit_checked: in fail-closed mode a failure ends the request with
\* 503, otherwise it is only logged.
ResolveAudit(h) ==
  /\ At(h, "resolve", "written")
  /\ \/ /\ Goto(h, "audited")
        /\ UNCHANGED refused
     \/ /\ FailClosed
        /\ refused' = refused \cup {req[h].o}
        /\ Finish(h)
  /\ UNCHANGED <<now, decisionVars, row, hardened, requester, holdExpires,
                 verdicts, capVars>>

\* append_governance_event refuses an event whose parent is missing.
HasParent(o) == o = "hold" => "Created" \in verdicts["hold"]

AppendVerdict(s, o, v) ==
  /\ verdicts' = [verdicts EXCEPT ![o] = IF HasParent(o) THEN @ \cup {v} ELSE @]
  /\ Finish(s)
  /\ UNCHANGED <<now, decisionVars, row, hardened, requester, holdExpires,
                 refused, capVars>>

ResolveAppend(h) ==
  /\ At(h, "resolve", "audited")
  /\ AppendVerdict(h, req[h].o, req[h].arg)

\* Mutant: only expires_at makes an approval stale, not its age.
StaleByExpiry(o) == ExpiresAt(o) < now

\* The SELECT of expire_stale_pending: past expires_at or older than the
\* configured age.  For a hold the two tests are the same one, because
\* create_quarantine_hold sets expires_at to that age.
Stale(o) ==
  \/ ExpiresAt(o) < now
  \/ o = "approval" /\ ApprovalTimeout < now

SweepSelect(s, o) ==
  /\ row[o] = "Pending"
  /\ Stale(o)
  /\ Begin(s, [Idle EXCEPT !.pc = "loaded", !.op = "sweep", !.o = o])
  /\ UNCHANGED <<now, decisionVars, verdictVars, capVars>>

\* Mutant: the rows that were selected are expired unconditionally.
ExpirableAny(o) == TRUE

Expirable(o) == row[o] = "Pending"

SweepWrite(s) ==
  /\ At(s, "sweep", "loaded")
  /\ LET o == req[s].o IN
     \/ /\ Expirable(o)
        /\ row' = [row EXCEPT ![o] = "Expired"]
        /\ Goto(s, "written")
     \/ /\ ~Expirable(o)
        /\ Finish(s)
        /\ UNCHANGED row
  /\ UNCHANGED <<now, decisionVars, hardened, requester, holdExpires, verdicts,
                 refused, capVars>>

SweepAppend(s) ==
  /\ At(s, "sweep", "written")
  /\ AppendVerdict(s, req[s].o, "TimedOut")

------------------------------------------------------------------------------
(* mint_capability *)

\* Mutant: without an event the role of the requester decides, as for a
\* historical approval.
RoleEvidenceLegacy ==
  IF verdicts["approval"] # {} THEN "GrantedByRole" \in verdicts["approval"]
                               ELSE requester

\* The marker, or any event of the hardened resolver, asks for an
\* authenticated resolver with an allowed role.
RoleEvidence ==
  IF hardened \/ verdicts["approval"] # {}
    THEN "GrantedByRole" \in verdicts["approval"]
    ELSE requester

\* validate_approval_binding_digest for a request whose digests match.
BindingValid(b) ==
  /\ row["approval"] = "Granted"
  /\ ApprovalExpires >= now
  /\ b = "RoleBound" => RoleEvidence

\* Mutant: a hold that is not there does not block.
HoldAllowsMissing == row["hold"] \in {"Allowed", None}

HoldAllows == row["hold"] = "Allowed"

MintLoad(h, b) ==
  /\ decision \in {"Allow", "RequireApproval", "Quarantine"}
  /\ decision = "RequireApproval" => b # "Unbound"
  /\ Begin(h, [Idle EXCEPT !.pc = IF decision = "Allow" THEN "cleared"
                                                        ELSE "loaded",
                           !.op = "mint", !.arg = b])
  /\ UNCHANGED <<now, decisionVars, verdictVars, capVars>>

MintAllowed(b) ==
  IF decision = "RequireApproval" THEN BindingValid(b) ELSE HoldAllows

MintCheck(h) ==
  /\ At(h, "mint", "loaded")
  /\ IF MintAllowed(req[h].arg) THEN Goto(h, "cleared") ELSE Finish(h)
  /\ UNCHANGED <<now, decisionVars, verdictVars, capVars>>

MintInsert(h, c, ttl) ==
  /\ At(h, "mint", "cleared")
  /\ status[c] = None
  /\ status' = [status EXCEPT ![c] = "Active"]
  /\ expires' = [expires EXCEPT ![c] = now + ttl]
  /\ binding' = [binding EXCEPT ![c] = req[h].arg]
  /\ req' = [req EXCEPT ![h].pc = "written", ![h].c = c]
  /\ UNCHANGED <<now, decisionVars, verdictVars, capEvents, executions,
                 spentAt>>

CapabilityAppend(h, kind) ==
  /\ capEvents' = [capEvents EXCEPT ![req[h].c] = @ \cup {kind}]
  /\ Finish(h)
  /\ UNCHANGED <<now, decisionVars, verdictVars, status, expires, binding,
                 executions, spentAt>>

MintAppend(h) == At(h, "mint", "written") /\ CapabilityAppend(h, "Minted")

------------------------------------------------------------------------------
(* authorize_execution *)

\* StoreCapabilityService::get refuses a revoked or expired lease, not a used
\* one.
AuthorizeLoad(h, c) ==
  /\ status[c] \in {"Active", "Used"}
  /\ expires[c] >= now
  /\ Begin(h, [Idle EXCEPT !.pc = "loaded", !.op = "authorize", !.c = c])
  /\ UNCHANGED <<now, decisionVars, verdictVars, capVars>>

\* A binding is checked whatever the policy decided.
AuthorizeCheck(h) ==
  /\ At(h, "authorize", "loaded")
  /\ LET b == binding[req[h].c] IN
       IF b # "Unbound" => BindingValid(b) THEN Goto(h, "cleared")
                                           ELSE Finish(h)
  /\ UNCHANGED <<now, decisionVars, verdictVars, capVars>>

\* Mutant: the lease is checked by the read, the update tests only the status.
ConsumableEver(c) == status[c] = "Active"

\* Mutant: the boundary instant counts as unexpired, as in the reads.
ConsumableAtExpiry(c) == status[c] = "Active" /\ expires[c] >= now

\* Mutant: the status was tested when the lease was read.
ConsumableUntested(c) == expires[c] > now

\* The conditional update of record_authorization.
Consumable(c) == status[c] = "Active" /\ expires[c] > now

\* The record_authorization transaction.  mark_used then finds the row used
\* and changes nothing; the event is appended as in ExecutionLifecycle.
AuthorizeCommit(h) ==
  /\ At(h, "authorize", "cleared")
  /\ LET c == req[h].c IN
     \/ /\ Consumable(c)
        /\ status' = [status EXCEPT ![c] = "Used"]
        /\ executions' = [executions EXCEPT ![c] = @ + 1]
        /\ spentAt' = [spentAt EXCEPT ![c] = now]
     \/ /\ ~Consumable(c)
        /\ UNCHANGED <<status, executions, spentAt>>
  /\ Finish(h)
  /\ UNCHANGED <<now, decisionVars, verdictVars, expires, binding, capEvents>>

------------------------------------------------------------------------------
(* revoke_capability *)

Revocable(c) == status[c] = "Active" /\ expires[c] >= now

\* The conditional update of revoke_if_active.
RevokeIfActive(c) == status[c] = "Active" /\ expires[c] > now

RevokeLoad(h, c) ==
  /\ Revocable(c)
  /\ Begin(h, [Idle EXCEPT !.pc = "loaded", !.op = "revoke", !.c = c])
  /\ UNCHANGED <<now, decisionVars, verdictVars, capVars>>

RevokeWrite(h) ==
  /\ At(h, "revoke", "loaded")
  /\ LET c == req[h].c IN
     \/ /\ RevokeIfActive(c)
        /\ status' = [status EXCEPT ![c] = "Revoked"]
        /\ Goto(h, "written")
     \/ /\ ~RevokeIfActive(c)
        /\ Goto(h, "lost")
        /\ UNCHANGED status
  /\ UNCHANGED <<now, decisionVars, verdictVars, expires, binding, capEvents,
                 executions, spentAt>>

\* The service reads the row again to explain the loss: used, revoked, expired
\* or, when it still looks revocable, NotFound, which the handler takes for a
\* miss of the in-memory cache and answers with its fallback: read, check,
\* then write the whole row unconditionally.
RevokeReload(h) ==
  /\ At(h, "revoke", "lost")
  /\ IF Revocable(req[h].c) THEN Goto(h, "missed") ELSE Finish(h)
  /\ UNCHANGED <<now, decisionVars, verdictVars, capVars>>

RevokeFallback(h) ==
  /\ At(h, "revoke", "missed")
  /\ IF Revocable(req[h].c) THEN Goto(h, "stale") ELSE Finish(h)
  /\ UNCHANGED <<now, decisionVars, verdictVars, capVars>>

RevokeOverwrite(h) ==
  /\ At(h, "revoke", "stale")
  /\ status' = [status EXCEPT ![req[h].c] = "Revoked"]
  /\ Goto(h, "written")
  /\ UNCHANGED <<now, decisionVars, verdictVars, expires, binding, capEvents,
                 executions, spentAt>>

RevokeAppend(h) == At(h, "revoke", "written") /\ CapabilityAppend(h, "Revoked")

------------------------------------------------------------------------------
(* The system *)

Evaluate(h) ==
  \/ \E d \in Policy : EvaluateInsert(h, d)
  \/ EvaluateAppend(h)
  \/ EvaluateHold(h)
  \/ CreatedAppend(h)

Resolve(h) ==
  \/ \E o \in Object : \E v \in Answers(o) : ResolveLoad(h, o, v)
  \/ ResolveWrite(h)
  \/ ResolveAudit(h)
  \/ ResolveAppend(h)

Mint(h) ==
  \/ \E b \in Ask : MintLoad(h, b)
  \/ MintCheck(h)
  \/ \E c \in Capability, ttl \in Ttl : MintInsert(h, c, ttl)
  \/ MintAppend(h)

Authorize(h) ==
  \/ \E c \in Capability : AuthorizeLoad(h, c)
  \/ AuthorizeCheck(h)
  \/ AuthorizeCommit(h)

Revoke(h) ==
  \/ \E c \in Capability : RevokeLoad(h, c)
  \/ RevokeWrite(h)
  \/ RevokeReload(h)
  \/ RevokeFallback(h)
  \/ RevokeOverwrite(h)
  \/ RevokeAppend(h)

Sweep(s) ==
  \/ \E o \in Object : SweepSelect(s, o)
  \/ SweepWrite(s)
  \/ SweepAppend(s)

Next ==
  \/ Tick
  \/ \E h \in Handler :
       Evaluate(h) \/ Resolve(h) \/ Mint(h) \/ Authorize(h) \/ Revoke(h)
  \/ \E s \in Sweeper : Sweep(s)
  \/ \E s \in Slot : Stop(s)

Spec == Init /\ [][Next]_vars

\* The clock advances and every loop of a reconciler ticks again.  A pass may
\* fail on a store error, not for ever.
Fairness ==
  /\ WF_vars(Tick)
  /\ \E s \in Sweeper :
       /\ \A o \in Object : SF_vars(SweepSelect(s, o))
       /\ SF_vars(SweepWrite(s))
       /\ WF_vars(SweepAppend(s))

FairSpec == Spec /\ Fairness

------------------------------------------------------------------------------
(* Properties *)

TypeOK ==
  /\ now \in 0..Horizon
  /\ proposal \in BOOLEAN
  /\ decision \in Decision \cup {None}
  /\ row \in [Object -> RowState \cup {None}]
  /\ hardened \in BOOLEAN
  /\ requester \in BOOLEAN
  /\ holdExpires \in Nat
  /\ verdicts \in [Object -> SUBSET (Verdict \cup {"Created"})]
  /\ refused \subseteq Object
  /\ status \in [Capability -> CapabilityStatus \cup {None}]
  /\ expires \in [Capability -> Nat]
  /\ binding \in [Capability -> Binding]
  /\ capEvents \in [Capability -> SUBSET {"Minted", "Revoked"}]
  /\ executions \in [Capability -> Nat]
  /\ spentAt \in [Capability -> 0..Horizon]
  /\ req \in [Slot -> Request]

\* A capability buys one execution and none once it is revoked: a row is Used
\* exactly when one execution was inserted for it.  Racing authorize requests,
\* a revocation and the unconditional write of its fallback meet here.
SpentOnce ==
  \A c \in Capability :
    executions[c] = IF status[c] = "Used" THEN 1 ELSE 0

\* No execution is authorized at or after the end of the lease, although the
\* lease was read several awaits earlier.
SpentInTime ==
  \A c \in Capability : executions[c] > 0 => spentAt[c] < expires[c]

\* A CapabilityRevoked event is never followed by a use of the capability.
RevocationHolds ==
  \A c \in Capability :
    "Revoked" \in capEvents[c] => status[c] = "Revoked" /\ executions[c] = 0

\* An execution whose lease names an approval exists only if that approval is
\* granted, and stays granted: no timeout pass takes the verdict back.
SpentWithApproval ==
  \A c \in Capability :
    executions[c] > 0 /\ binding[c] # "Unbound" => row["approval"] = "Granted"

\* A lease that asks for an approver role is never spent on a grant whose
\* resolver left no authenticated evidence, a lost event included.
RoleIsProven ==
  \A c \in Capability :
    executions[c] > 0 /\ binding[c] = "RoleBound" /\ hardened =>
      "GrantedByRole" \in verdicts["approval"]

\* Every capability is backed by the decision on its proposal: an approval
\* that is granted, a hold that is allowed, or a plain Allow.
MintIsBacked ==
  \A c \in Capability : status[c] # None =>
    \/ decision = "Allow"
    \/ decision = "RequireApproval" /\ row["approval"] = "Granted"
    \/ decision = "Quarantine" /\ row["hold"] = "Allowed"

\* Provenance never tells another verdict than the row: a resolver and a
\* timeout pass that race leave one verdict and at most its event.
OneVerdict ==
  \A o \in Object : \A v \in verdicts[o] \ {"Created"} : StateOf(v) = row[o]

\* The last instant at which the row is not yet stale.
LastFresh(o) ==
  IF o = "hold" \/ ApprovalExpires < ApprovalTimeout THEN ExpiresAt(o)
                                                     ELSE ApprovalTimeout

\* Every approval and every hold is answered or times out, if its time comes
\* before the clock of the model stops: handlers that die holding a read row
\* and passes that fail between select and update do not leave it pending.
PendingEnds ==
  \A o \in Object :
    row[o] = "Pending" /\ LastFresh(o) < Horizon ~> row[o] # "Pending"

------------------------------------------------------------------------------
(* The abstract specification *)

Lease == INSTANCE GovernedLease WITH
  clock <- now, decided <- decision, answer <- row, lease <- status, ends <- expires,
  bound <- [c \in Capability |-> binding[c] # "Unbound"], bought <- executions

\* Governance keeps its promise: handlers that act on rows read some awaits ago,
\* revocations that overwrite a row and timeout passes that select it before they
\* update it are, seen from outside, single steps on current rows.
ImplementsGovernedLease == Lease!Spec
==============================================================================
