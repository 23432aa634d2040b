--------------------------- MODULE GovernanceProofs ---------------------------
(***************************************************************************)
(* Proofs about Governance for every set of capabilities, handlers and     *)
(* sweepers, every clock bound and every lifetime.                         *)
(***************************************************************************)
EXTENDS Governance, TLAPS

------------------------------------------------------------------------------
(* What a busy slot may hold *)

\* A request names the object, capability and argument its operation needs.
RequestOK(r) ==
  /\ r.op \in {"authorize", "revoke"} => r.c \in Capability
  /\ r.op = "mint" /\ r.pc = "written" => r.c \in Capability
  /\ r.op \in {"resolve", "sweep"} => r.o \in Object
  /\ r.op = "resolve" => r.arg \in Answers(r.o)
  /\ r.op = "evaluate" => r.arg \in Decision
  /\ r.op = "mint" => r.arg \in Binding

RequestsOK == \A s \in Slot : RequestOK(req[s])

RequestInv == req \in [Slot -> Request] /\ RequestsOK

\* Idle is a request, and needs nothing.
LEMMA IdleIsRequest == Idle \in Request /\ RequestOK(Idle)
BY DEF Idle, Request, RequestOK, ProgramPoint, Operation, None

\* Writing one good request keeps all requests good.
LEMMA SlotUpdate ==
  ASSUME RequestInv, NEW s \in Slot, NEW r \in Request, RequestOK(r),
         req' = [req EXCEPT ![s] = r]
  PROVE  RequestInv'
<1>1. req' \in [Slot -> Request]
  BY DEF RequestInv
<1>2. \A u \in Slot : req'[u] = IF u = s THEN r ELSE req[u]
  BY DEF RequestInv
<1>3. \A u \in Slot : RequestOK(req'[u])
  BY <1>2 DEF RequestInv, RequestsOK
<1>4. RequestsOK'
  BY <1>3 DEF RequestsOK, RequestOK
<1> QED BY <1>1, <1>4 DEF RequestInv

\* A request that ends leaves all requests good.
LEMMA FinishOK ==
  ASSUME RequestInv, NEW s \in Slot, Finish(s)
  PROVE  RequestInv'
BY IdleIsRequest, SlotUpdate DEF Finish

\* A request that moves to another program point stays good; only a mint that
\* has written its row needs more than it had.
LEMMA GotoOK ==
  ASSUME RequestInv, NEW s \in Slot, NEW pc \in ProgramPoint, Goto(s, pc),
         req[s].op = "mint" => pc # "written"
  PROVE  RequestInv'
<1> DEFINE r == [req[s] EXCEPT !.pc = pc]
<1>1. req[s] \in Request /\ RequestOK(req[s])
  BY DEF RequestInv, RequestsOK
<1>2. r \in Request
  BY <1>1 DEF Request
<1>3. /\ r.op = req[s].op /\ r.pc = pc /\ r.o = req[s].o /\ r.c = req[s].c
      /\ r.arg = req[s].arg
  BY <1>1 DEF Request
<1>4. RequestOK(r)
  <2> HIDE DEF r
  <2> QED BY <1>1, <1>3 DEF RequestOK
<1>5. req' = [req EXCEPT ![s] = r]
  BY DEF Goto, RequestInv
<1> HIDE DEF r
<1> QED BY <1>2, <1>4, <1>5, SlotUpdate

------------------------------------------------------------------------------
(* Types *)

\* Facts about the clock and the constants that many steps need.
LEMMA Constants ==
  /\ Policy \subseteq Decision /\ Ask \subseteq Binding /\ Ttl \subseteq Nat
  /\ ApprovalExpires \in Nat /\ HoldTimeout \in Nat /\ Horizon \in Nat
  /\ Handler \subseteq Slot /\ Sweeper \subseteq Slot
BY InputAssumption, TimeAssumption DEF Slot

\* A resolver's answer is a verdict and stands for a row state.
LEMMA AnswersAreVerdicts ==
  ASSUME NEW o \in Object, NEW v \in Answers(o)
  PROVE  v \in Verdict /\ StateOf(v) \in RowState
BY DEF Object, Answers, Verdict, StateOf, RowState

TypeInv == TypeOK /\ RequestsOK

\* The requests of a typed state are good.
LEMMA TypedRequests == TypeInv => RequestInv
BY DEF TypeInv, TypeOK, RequestInv

\* The steps of evaluate_proposal preserve types.
LEMMA EvaluateTypes ==
  ASSUME TypeInv, NEW h \in Handler, Evaluate(h)
  PROVE  TypeInv'
<1>0. RequestInv /\ h \in Slot
  BY TypedRequests, Constants
<1>r. req[h] \in Request /\ RequestOK(req[h])
  BY <1>0 DEF RequestInv, RequestsOK
<1>1. ASSUME NEW d \in Policy, EvaluateInsert(h, d)
      PROVE  TypeInv'
  <2> DEFINE r == [Idle EXCEPT !.pc = "loaded", !.op = "evaluate", !.arg = d]
  <2>1. r \in Request /\ RequestOK(r)
    BY Constants, <1>1 DEF Idle, Request, RequestOK, ProgramPoint, Operation, None
  <2>2. RequestInv'
    BY <1>0, <1>1, <2>1, SlotUpdate DEF EvaluateInsert, Begin
  <2> QED BY <1>1, <2>2 DEF EvaluateInsert, TypeInv, TypeOK, RequestInv,
                            verdictVars, capVars
<1>2. CASE EvaluateAppend(h)
  <2>1. RequestInv'
    BY <1>0, <1>r, <1>2, FinishOK, GotoOK DEF EvaluateAppend, At, ProgramPoint
  <2>2. decision' \in Decision
    BY <1>r, <1>2 DEF EvaluateAppend, At, RequestOK
  <2> QED BY <1>2, <2>1, <2>2 DEF EvaluateAppend, TypeInv, TypeOK, RequestInv,
                                  verdictVars, capVars
<1>3. CASE EvaluateHold(h)
  <2>1. RequestInv'
    BY <1>0, <1>3, GotoOK DEF EvaluateHold, At, ProgramPoint
  <2>2. holdExpires' \in Nat
    BY <1>3, Constants DEF EvaluateHold, TypeInv, TypeOK
  <2>3. row' \in [Object -> RowState \cup {None}]
    BY <1>3 DEF EvaluateHold, TypeInv, TypeOK, RowState
  <2> QED BY <1>3, <2>1, <2>2, <2>3 DEF EvaluateHold, TypeInv, TypeOK,
                                  RequestInv, decisionVars, capVars
<1>4. CASE CreatedAppend(h)
  <2>1. RequestInv'
    BY <1>0, <1>4, FinishOK DEF CreatedAppend
  <2>2. verdicts' \in [Object -> SUBSET (Verdict \cup {"Created"})]
    BY <1>4 DEF CreatedAppend, TypeInv, TypeOK
  <2> QED BY <1>4, <2>1, <2>2 DEF CreatedAppend, TypeInv, TypeOK, RequestInv,
                                  decisionVars, capVars
<1> QED BY <1>1, <1>2, <1>3, <1>4 DEF Evaluate

\* Appending a verdict preserves types.
LEMMA AppendTypes ==
  ASSUME TypeInv, NEW s \in Slot, NEW o \in Object, NEW v \in Verdict,
         AppendVerdict(s, o, v)
  PROVE  TypeInv'
<1>1. RequestInv'
  BY TypedRequests, FinishOK DEF AppendVerdict
<1>2. verdicts' \in [Object -> SUBSET (Verdict \cup {"Created"})]
  BY DEF AppendVerdict, TypeInv, TypeOK
<1> QED BY <1>1, <1>2 DEF AppendVerdict, TypeInv, TypeOK, RequestInv,
                          decisionVars, capVars

\* The steps of the resolvers preserve types.
LEMMA ResolveTypes ==
  ASSUME TypeInv, NEW h \in Handler, Resolve(h)
  PROVE  TypeInv'
<1>0. RequestInv /\ h \in Slot
  BY TypedRequests, Constants
<1>r. req[h] \in Request /\ RequestOK(req[h])
  BY <1>0 DEF RequestInv, RequestsOK
<1>1. ASSUME NEW o \in Object, NEW v \in Answers(o), ResolveLoad(h, o, v)
      PROVE  TypeInv'
  <2> DEFINE r == [Idle EXCEPT !.pc = "loaded", !.op = "resolve", !.o = o,
                               !.t = now, !.arg = v]
  <2>0. now \in Nat /\ v \in Verdict
    BY <1>1, AnswersAreVerdicts, Constants DEF TypeInv, TypeOK
  <2>1. r \in Request /\ RequestOK(r)
    BY <2>0, <1>1 DEF Idle, Request, RequestOK, ProgramPoint, Operation, None
  <2>2. RequestInv'
    BY <1>0, <1>1, <2>1, SlotUpdate DEF ResolveLoad, Begin
  <2> QED BY <1>1, <2>2 DEF ResolveLoad, TypeInv, TypeOK, RequestInv,
                            decisionVars, verdictVars, capVars
<1>2. CASE ResolveWrite(h)
  <2>1. RequestInv'
    BY <1>0, <1>2, FinishOK, GotoOK DEF ResolveWrite, At, ProgramPoint
  <2>2. req[h].o \in Object /\ StateOf(req[h].arg) \in RowState
    BY <1>r, <1>2, AnswersAreVerdicts DEF ResolveWrite, At, RequestOK
  <2>3. row' \in [Object -> RowState \cup {None}]
    BY <1>2, <2>2 DEF ResolveWrite, TypeInv, TypeOK
  <2>4. hardened' \in BOOLEAN
    BY <1>2 DEF ResolveWrite, TypeInv, TypeOK
  <2> QED BY <1>2, <2>1, <2>3, <2>4 DEF ResolveWrite, TypeInv, TypeOK,
                            RequestInv, decisionVars, capVars
<1>3. CASE ResolveAudit(h)
  <2>1. RequestInv'
    BY <1>0, <1>3, FinishOK, GotoOK DEF ResolveAudit, At, ProgramPoint
  <2>2. refused' \subseteq Object
    BY <1>r, <1>3 DEF ResolveAudit, At, RequestOK, TypeInv, TypeOK
  <2> QED BY <1>3, <2>1, <2>2 DEF ResolveAudit, TypeInv, TypeOK, RequestInv,
                            decisionVars, capVars
<1>4. CASE ResolveAppend(h)
  <2>1. req[h].o \in Object /\ req[h].arg \in Verdict
    BY <1>r, <1>4, AnswersAreVerdicts DEF ResolveAppend, At, RequestOK
  <2> QED BY <1>0, <1>4, <2>1, AppendTypes DEF ResolveAppend
<1> QED BY <1>1, <1>2, <1>3, <1>4 DEF Resolve

\* The steps of the timeout reconcilers preserve types.
LEMMA SweepTypes ==
  ASSUME TypeInv, NEW s \in Sweeper, Sweep(s)
  PROVE  TypeInv'
<1>0. RequestInv /\ s \in Slot
  BY TypedRequests, Constants
<1>r. req[s] \in Request /\ RequestOK(req[s])
  BY <1>0 DEF RequestInv, RequestsOK
<1>1. ASSUME NEW o \in Object, SweepSelect(s, o)
      PROVE  TypeInv'
  <2> DEFINE r == [Idle EXCEPT !.pc = "loaded", !.op = "sweep", !.o = o]
  <2>1. r \in Request /\ RequestOK(r)
    BY <1>1 DEF Idle, Request, RequestOK, ProgramPoint, Operation, None
  <2>2. RequestInv'
    BY <1>0, <1>1, <2>1, SlotUpdate DEF SweepSelect, Begin
  <2> QED BY <1>1, <2>2 DEF SweepSelect, TypeInv, TypeOK, RequestInv,
                            decisionVars, verdictVars, capVars
<1>2. CASE SweepWrite(s)
  <2>1. RequestInv'
    BY <1>0, <1>2, FinishOK, GotoOK DEF SweepWrite, At, ProgramPoint
  <2>2. row' \in [Object -> RowState \cup {None}]
    BY <1>r, <1>2 DEF SweepWrite, TypeInv, TypeOK, RowState
  <2> QED BY <1>2, <2>1, <2>2 DEF SweepWrite, TypeInv, TypeOK, RequestInv,
                            decisionVars, capVars
<1>3. CASE SweepAppend(s)
  <2>1. req[s].o \in Object /\ "TimedOut" \in Verdict
    BY <1>r, <1>3 DEF SweepAppend, At, RequestOK, Verdict
  <2> QED BY <1>0, <1>3, <2>1, AppendTypes DEF SweepAppend
<1> QED BY <1>1, <1>2, <1>3 DEF Sweep

\* The steps of mint_capability preserve types.
LEMMA MintTypes ==
  ASSUME TypeInv, NEW h \in Handler, Mint(h)
  PROVE  TypeInv'
<1>0. RequestInv /\ h \in Slot
  BY TypedRequests, Constants
<1>r. req[h] \in Request /\ RequestOK(req[h])
  BY <1>0 DEF RequestInv, RequestsOK
<1>1. ASSUME NEW b \in Ask, MintLoad(h, b)
      PROVE  TypeInv'
  <2>1. PICK p \in {"cleared", "loaded"} :
          req' = [req EXCEPT ![h] = [Idle EXCEPT !.pc = p, !.op = "mint",
                                                 !.arg = b]]
    BY <1>1 DEF MintLoad, Begin
  <2> DEFINE r == [Idle EXCEPT !.pc = p, !.op = "mint", !.arg = b]
  <2>2. r \in Request /\ RequestOK(r)
    BY <1>1, Constants DEF Idle, Request, RequestOK, ProgramPoint, Operation, None
  <2>3. RequestInv'
    BY <1>0, <2>1, <2>2, SlotUpdate
  <2> QED BY <1>1, <2>3 DEF MintLoad, TypeInv, TypeOK, RequestInv,
                            decisionVars, verdictVars, capVars
<1>2. CASE MintCheck(h)
  <2>1. RequestInv'
    BY <1>0, <1>2, FinishOK, GotoOK DEF MintCheck, ProgramPoint
  <2> QED BY <1>2, <2>1 DEF MintCheck, TypeInv, TypeOK, RequestInv,
                            decisionVars, verdictVars, capVars
<1>3. ASSUME NEW c \in Capability, NEW ttl \in Ttl, MintInsert(h, c, ttl)
      PROVE  TypeInv'
  <2> DEFINE r == [req[h] EXCEPT !.pc = "written", !.c = c]
  <2>1. r \in Request
    BY <1>r DEF Request, ProgramPoint
  <2>2. r.op = "mint" /\ r.c = c /\ r.arg = req[h].arg /\ req[h].arg \in Binding
    BY <1>r, <1>3 DEF MintInsert, At, Request, RequestOK
  <2>3. RequestOK(r)
    <3> HIDE DEF r
    <3> QED BY <2>2 DEF RequestOK
  <2>4. req' = [req EXCEPT ![h] = r]
    BY <1>0, <1>3 DEF MintInsert, RequestInv
  <2>5. RequestInv'
    <3> HIDE DEF r
    <3> QED BY <1>0, <2>1, <2>3, <2>4, SlotUpdate
  <2>6. status' \in [Capability -> CapabilityStatus \cup {None}]
    BY <1>3 DEF MintInsert, TypeInv, TypeOK, CapabilityStatus
  <2>7. expires' \in [Capability -> Nat]
    BY <1>3, Constants DEF MintInsert, TypeInv, TypeOK
  <2>8. binding' \in [Capability -> Binding]
    BY <1>3, <2>2 DEF MintInsert, TypeInv, TypeOK
  <2> QED BY <1>3, <2>5, <2>6, <2>7, <2>8 DEF MintInsert, TypeInv, TypeOK,
                            RequestInv, decisionVars, verdictVars
<1>4. CASE MintAppend(h)
  <2>1. RequestInv'
    BY <1>0, <1>4, FinishOK DEF MintAppend, CapabilityAppend
  <2>2. capEvents' \in [Capability -> SUBSET {"Minted", "Revoked"}]
    BY <1>4 DEF MintAppend, CapabilityAppend, TypeInv, TypeOK
  <2> QED BY <1>4, <2>1, <2>2 DEF MintAppend, CapabilityAppend, TypeInv,
                            TypeOK, RequestInv, decisionVars, verdictVars
<1> QED BY <1>1, <1>2, <1>3, <1>4 DEF Mint

\* The steps of authorize_execution preserve types.
LEMMA AuthorizeTypes ==
  ASSUME TypeInv, NEW h \in Handler, Authorize(h)
  PROVE  TypeInv'
<1>0. RequestInv /\ h \in Slot
  BY TypedRequests, Constants
<1>1. ASSUME NEW c \in Capability, AuthorizeLoad(h, c)
      PROVE  TypeInv'
  <2> DEFINE r == [Idle EXCEPT !.pc = "loaded", !.op = "authorize", !.c = c]
  <2>1. r \in Request /\ RequestOK(r)
    BY <1>1 DEF Idle, Request, RequestOK, ProgramPoint, Operation, None
  <2>2. RequestInv'
    BY <1>0, <1>1, <2>1, SlotUpdate DEF AuthorizeLoad, Begin
  <2> QED BY <1>1, <2>2 DEF AuthorizeLoad, TypeInv, TypeOK, RequestInv,
                            decisionVars, verdictVars, capVars
<1>2. CASE AuthorizeCheck(h)
  <2>1. RequestInv'
    BY <1>0, <1>2, FinishOK, GotoOK DEF AuthorizeCheck, ProgramPoint
  <2> QED BY <1>2, <2>1 DEF AuthorizeCheck, TypeInv, TypeOK, RequestInv,
                            decisionVars, verdictVars, capVars
<1>3. CASE AuthorizeCommit(h)
  <2>1. RequestInv'
    BY <1>0, <1>3, FinishOK DEF AuthorizeCommit
  <2>2. status' \in [Capability -> CapabilityStatus \cup {None}]
    BY <1>3 DEF AuthorizeCommit, TypeInv, TypeOK, CapabilityStatus
  <2>3. executions' \in [Capability -> Nat]
    BY <1>3 DEF AuthorizeCommit, TypeInv, TypeOK
  <2>4. spentAt' \in [Capability -> 0..Horizon]
    BY <1>3 DEF AuthorizeCommit, TypeInv, TypeOK
  <2> QED BY <1>3, <2>1, <2>2, <2>3, <2>4 DEF AuthorizeCommit, TypeInv, TypeOK,
                            RequestInv, decisionVars, verdictVars
<1> QED BY <1>1, <1>2, <1>3 DEF Authorize

\* The steps of revoke_capability preserve types.
LEMMA RevokeTypes ==
  ASSUME TypeInv, NEW h \in Handler, Revoke(h)
  PROVE  TypeInv'
<1>0. RequestInv /\ h \in Slot
  BY TypedRequests, Constants
<1>1. ASSUME NEW c \in Capability, RevokeLoad(h, c)
      PROVE  TypeInv'
  <2> DEFINE r == [Idle EXCEPT !.pc = "loaded", !.op = "revoke", !.c = c]
  <2>1. r \in Request /\ RequestOK(r)
    BY <1>1 DEF Idle, Request, RequestOK, ProgramPoint, Operation, None
  <2>2. RequestInv'
    BY <1>0, <1>1, <2>1, SlotUpdate DEF RevokeLoad, Begin
  <2> QED BY <1>1, <2>2 DEF RevokeLoad, TypeInv, TypeOK, RequestInv,
                            decisionVars, verdictVars, capVars
<1>2. CASE RevokeWrite(h)
  <2>1. RequestInv'
    BY <1>0, <1>2, GotoOK DEF RevokeWrite, At, ProgramPoint
  <2>2. status' \in [Capability -> CapabilityStatus \cup {None}]
    BY <1>2 DEF RevokeWrite, TypeInv, TypeOK, CapabilityStatus
  <2> QED BY <1>2, <2>1, <2>2 DEF RevokeWrite, TypeInv, TypeOK, RequestInv,
                            decisionVars, verdictVars
<1>3. CASE RevokeReload(h)
  <2>1. RequestInv'
    BY <1>0, <1>3, FinishOK, GotoOK DEF RevokeReload, ProgramPoint
  <2> QED BY <1>3, <2>1 DEF RevokeReload, TypeInv, TypeOK, RequestInv,
                            decisionVars, verdictVars, capVars
<1>4. CASE RevokeFallback(h)
  <2>1. RequestInv'
    BY <1>0, <1>4, FinishOK, GotoOK DEF RevokeFallback, ProgramPoint
  <2> QED BY <1>4, <2>1 DEF RevokeFallback, TypeInv, TypeOK, RequestInv,
                            decisionVars, verdictVars, capVars
<1>5. CASE RevokeOverwrite(h)
  <2>1. RequestInv'
    BY <1>0, <1>5, GotoOK DEF RevokeOverwrite, At, ProgramPoint
  <2>2. status' \in [Capability -> CapabilityStatus \cup {None}]
    BY <1>5 DEF RevokeOverwrite, TypeInv, TypeOK, CapabilityStatus
  <2> QED BY <1>5, <2>1, <2>2 DEF RevokeOverwrite, TypeInv, TypeOK, RequestInv,
                            decisionVars, verdictVars
<1>6. CASE RevokeAppend(h)
  <2>1. RequestInv'
    BY <1>0, <1>6, FinishOK DEF RevokeAppend, CapabilityAppend
  <2>2. capEvents' \in [Capability -> SUBSET {"Minted", "Revoked"}]
    BY <1>6 DEF RevokeAppend, CapabilityAppend, TypeInv, TypeOK
  <2> QED BY <1>6, <2>1, <2>2 DEF RevokeAppend, CapabilityAppend, TypeInv,
                            TypeOK, RequestInv, decisionVars, verdictVars
<1> QED BY <1>1, <1>2, <1>3, <1>4, <1>5, <1>6 DEF Revoke

\* The clock and a request that stops preserve types.
LEMMA TickTypes ==
  ASSUME TypeInv, Tick
  PROVE  TypeInv'
<1>1. now' \in 0..Horizon
  BY Constants DEF Tick, TypeInv, TypeOK
<1>2. RequestsOK'
  BY DEF Tick, TypeInv, RequestsOK, RequestOK
<1> QED BY <1>1, <1>2 DEF Tick, TypeInv, TypeOK, decisionVars, verdictVars,
                          capVars

\* A request that ends, for whatever reason, leaves the state typed.
LEMMA StopTypes ==
  ASSUME TypeInv, NEW s \in Slot, Stop(s)
  PROVE  TypeInv'
<1>1. RequestInv'
  BY TypedRequests, FinishOK DEF Stop
<1> QED BY <1>1 DEF Stop, TypeInv, TypeOK, RequestInv, decisionVars,
                    verdictVars, capVars

\* Every step preserves types.
LEMMA StepTypes == TypeInv /\ [Next]_vars => TypeInv'
<1> SUFFICES ASSUME TypeInv, [Next]_vars
             PROVE  TypeInv'
  OBVIOUS
<1>1. CASE Tick
  BY <1>1, TickTypes
<1>2. ASSUME NEW h \in Handler,
             Evaluate(h) \/ Resolve(h) \/ Mint(h) \/ Authorize(h) \/ Revoke(h)
      PROVE  TypeInv'
  BY <1>2, EvaluateTypes, ResolveTypes, MintTypes, AuthorizeTypes, RevokeTypes
<1>3. ASSUME NEW s \in Sweeper, Sweep(s)
      PROVE  TypeInv'
  BY <1>3, SweepTypes
<1>4. ASSUME NEW s \in Slot, Stop(s)
      PROVE  TypeInv'
  BY <1>4, StopTypes
<1>5. CASE UNCHANGED vars
  BY <1>5 DEF vars, TypeInv, TypeOK, RequestsOK, RequestOK
<1> QED BY <1>1, <1>2, <1>3, <1>4, <1>5 DEF Next

\* The initial state is well typed.
LEMMA InitTypes == Init => TypeInv
<1> SUFFICES ASSUME Init PROVE TypeInv
  OBVIOUS
<1>1. req \in [Slot -> Request] /\ RequestsOK
  BY IdleIsRequest DEF Init, RequestsOK
<1>2. row \in [Object -> RowState \cup {None}]
  BY InputAssumption DEF Init, RowState
<1>3. now \in 0..Horizon /\ spentAt \in [Capability -> 0..Horizon]
  BY Constants DEF Init
<1> QED BY <1>1, <1>2, <1>3 DEF Init, TypeInv, TypeOK, CapabilityStatus, Binding

\* Rows, events and requests keep their types, and every busy slot holds the
\* object, capability and argument that the rest of its handler uses.
THEOREM TypeSafety == Spec => []TypeOK
<1>1. Spec => []TypeInv
  BY InitTypes, StepTypes, PTL DEF Spec
<1>2. TypeInv => TypeOK
  BY DEF TypeInv
<1> QED BY <1>1, <1>2, PTL

------------------------------------------------------------------------------
(* Capabilities *)

\* What a request on a capability may rely on although its row was read
\* earlier.  The capability exists.  Once a revocation has lost its conditional
\* update the lease can no longer be spent; one about to overwrite the row saw
\* it unspent; one that owes its event has revoked it.
LeaseRequestOK(r) ==
  /\ r.op \in {"authorize", "revoke"} => status[r.c] # None
  /\ r.op = "revoke" /\ r.pc \in {"lost", "missed", "stale"} =>
       status[r.c] # "Active" \/ expires[r.c] <= now
  /\ r.op = "revoke" /\ r.pc = "stale" => status[r.c] # "Used"
  /\ r.op = "revoke" /\ r.pc = "written" => status[r.c] = "Revoked"

LeaseRequestsOK == \A s \in Slot : LeaseRequestOK(req[s])

RevokedStays ==
  \A c \in Capability : "Revoked" \in capEvents[c] => status[c] = "Revoked"

LeaseInv == SpentOnce /\ SpentInTime /\ RevokedStays /\ LeaseRequestsOK

\* What a step may do to a lease that requests have read.
LeaseStep(c) ==
  /\ now <= now'
  /\ \/ status'[c] = status[c] /\ expires'[c] = expires[c]
     \/ status[c] = None
     \/ status[c] = "Active" /\ expires[c] > now /\ status'[c] = "Used"
     \/ status'[c] = "Revoked"

\* Requests keep what they rely on through the steps of others, so only the
\* slot that moves has to be looked at.
LEMMA LeaseRequestsKept ==
  ASSUME TypeInv, TypeInv', LeaseRequestsOK,
         \A c \in Capability : LeaseStep(c),
         NEW s \in Slot,
         \A u \in Slot : u # s => req'[u] = req[u],
         LeaseRequestOK(req[s])'
  PROVE  LeaseRequestsOK'
<1> SUFFICES ASSUME NEW u \in Slot, u # s
             PROVE  LeaseRequestOK(req[u])'
  BY DEF LeaseRequestsOK
<1>1. PICK r : r = req[u]
  OBVIOUS
<1>2. r = req'[u] /\ r \in Request /\ RequestOK(r) /\ LeaseRequestOK(r)
  BY <1>1 DEF TypeInv, TypeOK, RequestsOK, LeaseRequestsOK
<1>3. now \in Nat /\ now' \in Nat
  BY Constants DEF TypeInv, TypeOK
<1>4. CASE r.op \in {"authorize", "revoke"}
  <2>1. r.c \in Capability /\ LeaseStep(r.c)
    BY <1>2, <1>4 DEF RequestOK
  <2>2. expires[r.c] \in Nat
    BY <2>1 DEF TypeInv, TypeOK
  <2> QED BY <1>2, <1>3, <2>1, <2>2 DEF LeaseStep, LeaseRequestOK, None
<1>5. CASE r.op \notin {"authorize", "revoke"}
  BY <1>2, <1>5 DEF LeaseRequestOK
<1> QED BY <1>4, <1>5

\* Steps that leave the leases alone, and whose slot takes up no request on a
\* lease, keep the invariant.
LEMMA LeaseUntouched ==
  ASSUME TypeInv, TypeInv', LeaseInv, UNCHANGED capVars, now <= now',
         NEW s \in Slot,
         \A u \in Slot : u # s => req'[u] = req[u],
         LeaseRequestOK(req[s])'
  PROVE  LeaseInv'
<1>1. \A c \in Capability : LeaseStep(c)
  BY DEF LeaseStep, capVars
<1>2. LeaseRequestsOK'
  BY <1>1, LeaseRequestsKept DEF LeaseInv
<1> QED BY <1>2 DEF LeaseInv, capVars, SpentOnce, SpentInTime, RevokedStays

\* A slot that works on no lease relies on nothing.
LEMMA NoLease ==
  ASSUME NEW s \in Slot, req'[s].op \notin {"authorize", "revoke"}
  PROVE  LeaseRequestOK(req[s])'
BY DEF LeaseRequestOK

\* What the three ways of moving on do to the slots.
LEMMA FinishSlot ==
  ASSUME TypeInv, NEW s \in Slot, Finish(s)
  PROVE  /\ \A u \in Slot : u # s => req'[u] = req[u]
         /\ req'[s].op = "none"
BY DEF Finish, Idle, TypeInv, TypeOK

\* A request that moves on changes its program point only.
LEMMA GotoSlot ==
  ASSUME TypeInv, NEW s \in Slot, NEW pc, Goto(s, pc)
  PROVE  /\ \A u \in Slot : u # s => req'[u] = req[u]
         /\ req'[s].op = req[s].op /\ req'[s].pc = pc /\ req'[s].c = req[s].c
<1>1. req[s] \in Request /\ req' = [req EXCEPT ![s] = [req[s] EXCEPT !.pc = pc]]
  BY DEF Goto, TypeInv, TypeOK
<1>2. \A u \in Slot : u # s => req'[u] = req[u]
  BY <1>1 DEF TypeInv, TypeOK
<1>3. req'[s] = [req[s] EXCEPT !.pc = pc]
  BY <1>1 DEF TypeInv, TypeOK
<1> QED BY <1>1, <1>2, <1>3 DEF Request

\* A request that begins leaves the others alone.
LEMMA BeginSlot ==
  ASSUME TypeInv, NEW s \in Slot, NEW r, Begin(s, r)
  PROVE  /\ \A u \in Slot : u # s => req'[u] = req[u]
         /\ req'[s] = r
BY DEF Begin, TypeInv, TypeOK

\* A slot that finishes, or works on no lease, keeps the invariant.
LEMMA LeaseIdle ==
  ASSUME TypeInv, TypeInv', LeaseInv, UNCHANGED <<now, capVars>>,
         NEW s \in Slot,
         \A u \in Slot : u # s => req'[u] = req[u],
         req'[s].op \notin {"authorize", "revoke"}
  PROVE  LeaseInv'
<1>1. now <= now'
  BY Constants DEF TypeInv, TypeOK
<1> QED BY <1>1, NoLease, LeaseUntouched

\* evaluate_proposal works on no lease.
LEMMA EvaluateLease ==
  ASSUME TypeInv, TypeInv', LeaseInv, NEW h \in Handler, Evaluate(h)
  PROVE  LeaseInv'
<1>0. h \in Slot
  BY Constants
<1>1. ASSUME NEW d \in Policy, EvaluateInsert(h, d)
      PROVE  LeaseInv'
  <2>1. PICK r : r = [Idle EXCEPT !.pc = "loaded", !.op = "evaluate", !.arg = d]
    OBVIOUS
  <2>2. r.op = "evaluate" /\ Begin(h, r) /\ UNCHANGED <<now, capVars>>
    BY <1>1, <2>1 DEF EvaluateInsert, Idle
  <2> QED BY <1>0, <2>2, BeginSlot, LeaseIdle
<1>2. CASE EvaluateAppend(h) \/ EvaluateHold(h) \/ CreatedAppend(h)
  <2>1. UNCHANGED <<now, capVars>> /\ req[h].op = "evaluate"
    BY <1>2 DEF EvaluateAppend, EvaluateHold, CreatedAppend, At
  <2>2. Finish(h) \/ Goto(h, "cleared") \/ Goto(h, "written")
    BY <1>2 DEF EvaluateAppend, EvaluateHold, CreatedAppend
  <2> QED BY <1>0, <2>1, <2>2, FinishSlot, GotoSlot, LeaseIdle
<1> QED BY <1>1, <1>2 DEF Evaluate

\* The resolvers work on no lease.
LEMMA ResolveLease ==
  ASSUME TypeInv, TypeInv', LeaseInv, NEW h \in Handler, Resolve(h)
  PROVE  LeaseInv'
<1>0. h \in Slot
  BY Constants
<1>1. ASSUME NEW o \in Object, NEW v \in Answers(o), ResolveLoad(h, o, v)
      PROVE  LeaseInv'
  <2>1. PICK r : r = [Idle EXCEPT !.pc = "loaded", !.op = "resolve", !.o = o,
                                  !.t = now, !.arg = v]
    OBVIOUS
  <2>2. r.op = "resolve" /\ Begin(h, r) /\ UNCHANGED <<now, capVars>>
    BY <1>1, <2>1 DEF ResolveLoad, Idle
  <2> QED BY <1>0, <2>2, BeginSlot, LeaseIdle
<1>2. CASE ResolveWrite(h) \/ ResolveAudit(h) \/ ResolveAppend(h)
  <2>1. UNCHANGED <<now, capVars>> /\ req[h].op = "resolve"
    BY <1>2 DEF ResolveWrite, ResolveAudit, ResolveAppend, AppendVerdict, At
  <2>2. Finish(h) \/ Goto(h, "audited") \/ Goto(h, "written")
    BY <1>2 DEF ResolveWrite, ResolveAudit, ResolveAppend, AppendVerdict
  <2> QED BY <1>0, <2>1, <2>2, FinishSlot, GotoSlot, LeaseIdle
<1> QED BY <1>1, <1>2 DEF Resolve

\* The timeout reconcilers work on no lease.
LEMMA SweepLease ==
  ASSUME TypeInv, TypeInv', LeaseInv, NEW s \in Sweeper, Sweep(s)
  PROVE  LeaseInv'
<1>0. s \in Slot
  BY Constants
<1>1. ASSUME NEW o \in Object, SweepSelect(s, o)
      PROVE  LeaseInv'
  <2>1. PICK r : r = [Idle EXCEPT !.pc = "loaded", !.op = "sweep", !.o = o]
    OBVIOUS
  <2>2. r.op = "sweep" /\ Begin(s, r) /\ UNCHANGED <<now, capVars>>
    BY <1>1, <2>1 DEF SweepSelect, Idle
  <2> QED BY <1>0, <2>2, BeginSlot, LeaseIdle
<1>2. CASE SweepWrite(s) \/ SweepAppend(s)
  <2>1. UNCHANGED <<now, capVars>> /\ req[s].op = "sweep"
    BY <1>2 DEF SweepWrite, SweepAppend, AppendVerdict, At
  <2>2. Finish(s) \/ Goto(s, "written")
    BY <1>2 DEF SweepWrite, SweepAppend, AppendVerdict
  <2> QED BY <1>0, <2>1, <2>2, FinishSlot, GotoSlot, LeaseIdle
<1> QED BY <1>1, <1>2 DEF Sweep

\* A mint inserts a row that no request has read, and that was never spent.
LEMMA MintLease ==
  ASSUME TypeInv, TypeInv', LeaseInv, NEW h \in Handler, Mint(h)
  PROVE  LeaseInv'
<1>0. h \in Slot /\ now \in Nat
  BY Constants DEF TypeInv, TypeOK
<1>1. ASSUME NEW b \in Ask, MintLoad(h, b)
      PROVE  LeaseInv'
  <2>1. PICK r : r.op = "mint" /\ Begin(h, r)
    BY <1>1 DEF MintLoad, Idle
  <2>2. UNCHANGED <<now, capVars>>
    BY <1>1 DEF MintLoad
  <2> QED BY <1>0, <2>1, <2>2, BeginSlot, LeaseIdle
<1>2. CASE MintCheck(h)
  <2>1. UNCHANGED <<now, capVars>> /\ req[h].op = "mint"
    BY <1>2 DEF MintCheck, At
  <2>2. Finish(h) \/ Goto(h, "cleared")
    BY <1>2 DEF MintCheck
  <2> QED BY <1>0, <2>1, <2>2, FinishSlot, GotoSlot, LeaseIdle
<1>3. ASSUME NEW c \in Capability, NEW ttl \in Ttl, MintInsert(h, c, ttl)
      PROVE  LeaseInv'
  <2>1. /\ now' = now /\ status[c] = None
        /\ status' = [status EXCEPT ![c] = "Active"]
        /\ expires' = [expires EXCEPT ![c] = now + ttl]
        /\ UNCHANGED <<capEvents, executions, spentAt>>
    BY <1>3 DEF MintInsert
  <2>2. executions[c] = 0 /\ "Revoked" \notin capEvents[c]
    BY <2>1 DEF LeaseInv, SpentOnce, RevokedStays, None
  <2>3. \A d \in Capability : d # c => status'[d] = status[d]
                                       /\ expires'[d] = expires[d]
    BY <2>1 DEF TypeInv, TypeOK
  <2>4. status'[c] = "Active"
    BY <2>1 DEF TypeInv, TypeOK
  <2>5. \A d \in Capability : LeaseStep(d)
    BY <1>0, <2>1, <2>3 DEF LeaseStep
  <2>6. SpentOnce' /\ SpentInTime' /\ RevokedStays'
    <3>1. SpentOnce'
      BY <2>1, <2>2, <2>3, <2>4 DEF LeaseInv, SpentOnce
    <3>2. SpentInTime'
      BY <2>1, <2>2, <2>3 DEF LeaseInv, SpentInTime
    <3>3. RevokedStays'
      BY <2>1, <2>2, <2>3 DEF LeaseInv, RevokedStays
    <3> QED BY <3>1, <3>2, <3>3
  <2>7. req'[h].op = "mint" /\ \A u \in Slot : u # h => req'[u] = req[u]
    <3>1. req' = [req EXCEPT ![h] = [req[h] EXCEPT !.pc = "written", !.c = c]]
      BY <1>0, <1>3 DEF MintInsert, TypeInv, TypeOK
    <3>2. req'[h] = [req[h] EXCEPT !.pc = "written", !.c = c]
      BY <1>0, <3>1 DEF TypeInv, TypeOK
    <3>3. req[h] \in Request /\ req[h].op = "mint"
      BY <1>0, <1>3 DEF MintInsert, At, TypeInv, TypeOK
    <3>4. req'[h].op = "mint"
      BY <3>2, <3>3 DEF Request
    <3> QED BY <1>0, <3>1, <3>4 DEF TypeInv, TypeOK
  <2>8. LeaseRequestsOK'
    BY <1>0, <2>5, <2>7, NoLease, LeaseRequestsKept DEF LeaseInv
  <2> QED BY <2>6, <2>8 DEF LeaseInv
<1>4. CASE MintAppend(h)
  <2>1. /\ UNCHANGED <<now, status, expires, executions, spentAt>> /\ Finish(h)
        /\ capEvents' = [capEvents EXCEPT ![req[h].c] = @ \cup {"Minted"}]
    BY <1>4 DEF MintAppend, CapabilityAppend
  <2>2. \A c \in Capability : LeaseStep(c)
    BY <1>0, <2>1 DEF LeaseStep
  <2>3. LeaseRequestsOK'
    BY <1>0, <2>1, <2>2, FinishSlot, NoLease, LeaseRequestsKept DEF LeaseInv
  <2>4. RevokedStays'
    BY <2>1 DEF LeaseInv, RevokedStays, TypeInv, TypeOK
  <2> QED BY <2>1, <2>3, <2>4 DEF LeaseInv, SpentOnce, SpentInTime
<1> QED BY <1>1, <1>2, <1>3, <1>4 DEF Mint

\* An authorization spends an active lease before it ends, or nothing.
LEMMA AuthorizeLease ==
  ASSUME TypeInv, TypeInv', LeaseInv, NEW h \in Handler, Authorize(h)
  PROVE  LeaseInv'
<1>0. h \in Slot /\ now \in Nat
  BY Constants DEF TypeInv, TypeOK
<1>1. ASSUME NEW c \in Capability, AuthorizeLoad(h, c)
      PROVE  LeaseInv'
  <2>1. PICK r : r = [Idle EXCEPT !.pc = "loaded", !.op = "authorize", !.c = c]
    OBVIOUS
  <2>2. r.op = "authorize" /\ r.c = c /\ Begin(h, r) /\ UNCHANGED <<now, capVars>>
        /\ status[c] # None
    BY <1>1, <2>1 DEF AuthorizeLoad, Idle, None
  <2>3. LeaseRequestOK(req[h])'
    BY <1>0, <2>2, BeginSlot DEF LeaseRequestOK, capVars
  <2> QED BY <1>0, <2>2, <2>3, BeginSlot, LeaseUntouched
<1>2. CASE AuthorizeCheck(h)
  <2>1. UNCHANGED <<now, capVars>> /\ req[h].op = "authorize"
    BY <1>2 DEF AuthorizeCheck, At
  <2>2. CASE Finish(h)
    BY <1>0, <2>1, <2>2, FinishSlot, LeaseIdle
  <2>3. CASE Goto(h, "cleared")
    <3>1. LeaseRequestOK(req[h])'
      BY <1>0, <2>1, <2>3, GotoSlot
      DEF LeaseInv, LeaseRequestsOK, LeaseRequestOK, capVars
    <3> QED BY <1>0, <2>1, <2>3, <3>1, GotoSlot, LeaseUntouched
  <2> QED BY <1>2, <2>2, <2>3 DEF AuthorizeCheck
<1>3. CASE AuthorizeCommit(h)
  <2> DEFINE c == req[h].c
  <2>1. c \in Capability
    BY <1>0, <1>3 DEF AuthorizeCommit, At, TypeInv, RequestsOK, RequestOK
  <2>2. Finish(h) /\ now' = now /\ UNCHANGED <<expires, capEvents>>
    BY <1>3 DEF AuthorizeCommit
  <2>3. CASE Consumable(c)
    <3>1. /\ status' = [status EXCEPT ![c] = "Used"]
          /\ executions' = [executions EXCEPT ![c] = @ + 1]
          /\ spentAt' = [spentAt EXCEPT ![c] = now]
          /\ status[c] = "Active" /\ expires[c] > now
      BY <1>3, <2>3 DEF AuthorizeCommit, Consumable
    <3> HIDE DEF c
    <3>2. executions[c] = 0 /\ "Revoked" \notin capEvents[c]
      BY <2>1, <3>1 DEF LeaseInv, SpentOnce, RevokedStays
    <3>3. \A d \in Capability : d # c =>
            /\ status'[d] = status[d] /\ executions'[d] = executions[d]
            /\ spentAt'[d] = spentAt[d]
      BY <3>1 DEF TypeInv, TypeOK
    <3>4. status'[c] = "Used" /\ executions'[c] = 1 /\ spentAt'[c] = now
      BY <2>1, <3>1, <3>2 DEF TypeInv, TypeOK
    <3>5. \A d \in Capability : LeaseStep(d)
      BY <1>0, <2>2, <3>1, <3>3, <3>4 DEF LeaseStep
    <3>6. SpentOnce'
      BY <3>3, <3>4 DEF LeaseInv, SpentOnce
    <3>7. SpentInTime'
      BY <1>0, <2>2, <3>1, <3>3, <3>4 DEF LeaseInv, SpentInTime, TypeInv, TypeOK
    <3>8. RevokedStays'
      BY <2>2, <3>2, <3>3 DEF LeaseInv, RevokedStays
    <3>9. LeaseRequestsOK'
      BY <1>0, <2>2, <3>5, FinishSlot, NoLease, LeaseRequestsKept DEF LeaseInv
    <3> QED BY <3>6, <3>7, <3>8, <3>9 DEF LeaseInv
  <2>4. CASE ~Consumable(c)
    <3>1. UNCHANGED capVars
      BY <1>3, <2>4 DEF AuthorizeCommit, capVars
    <3> QED BY <1>0, <2>2, <3>1, FinishSlot, LeaseIdle
  <2> QED BY <2>3, <2>4
<1> QED BY <1>1, <1>2, <1>3 DEF Authorize

\* Marking an unspent lease revoked, and moving the slot that does it.
LEMMA MarkRevoked ==
  ASSUME TypeInv, TypeInv', LeaseInv, NEW h \in Slot, NEW c \in Capability,
         req[h].op = "revoke", req[h].c = c, status[c] # "Used",
         status' = [status EXCEPT ![c] = "Revoked"], Goto(h, "written"),
         UNCHANGED <<now, expires, capEvents, executions, spentAt>>
  PROVE  LeaseInv'
<1>0. now \in Nat
  BY Constants DEF TypeInv, TypeOK
<1>1. status'[c] = "Revoked" /\ \A d \in Capability : d # c => status'[d] = status[d]
  BY DEF TypeInv, TypeOK
<1>2. \A d \in Capability : LeaseStep(d)
  BY <1>0, <1>1 DEF LeaseStep
<1>3. LeaseRequestOK(req[h])'
  BY <1>1, GotoSlot DEF LeaseRequestOK, None
<1>4. LeaseRequestsOK'
  BY <1>2, <1>3, GotoSlot, LeaseRequestsKept DEF LeaseInv
<1>5. SpentOnce'
  BY <1>1 DEF LeaseInv, SpentOnce
<1>6. RevokedStays'
  BY <1>1 DEF LeaseInv, RevokedStays
<1> QED BY <1>4, <1>5, <1>6 DEF LeaseInv, SpentInTime

\* A revocation marks only an unspent lease, its unconditional write included:
\* when the conditional update lost and the lease still looked active, its end
\* had come, so nobody can spend it in between.
LEMMA RevokeLease ==
  ASSUME TypeInv, TypeInv', LeaseInv, NEW h \in Handler, Revoke(h)
  PROVE  LeaseInv'
<1>0. h \in Slot /\ now \in Nat /\ now <= now
  BY Constants DEF TypeInv, TypeOK
<1>r. LeaseRequestOK(req[h])
  BY <1>0 DEF LeaseInv, LeaseRequestsOK
<1>c. req[h].op = "revoke" => req[h].c \in Capability /\ expires[req[h].c] \in Nat
  BY <1>0 DEF TypeInv, TypeOK, RequestsOK, RequestOK
<1>1. ASSUME NEW c \in Capability, RevokeLoad(h, c)
      PROVE  LeaseInv'
  <2>1. PICK r : r = [Idle EXCEPT !.pc = "loaded", !.op = "revoke", !.c = c]
    OBVIOUS
  <2>2. r.op = "revoke" /\ r.pc = "loaded" /\ r.c = c /\ Begin(h, r)
        /\ UNCHANGED <<now, capVars>> /\ status[c] # None
    BY <1>1, <2>1 DEF RevokeLoad, Revocable, Idle, None
  <2>3. LeaseRequestOK(req[h])'
    BY <1>0, <2>2, BeginSlot DEF LeaseRequestOK, capVars
  <2> QED BY <1>0, <2>2, <2>3, BeginSlot, LeaseUntouched
<1>2. CASE RevokeWrite(h)
  <2>1. /\ req[h].op = "revoke"
        /\ UNCHANGED <<now, expires, binding, capEvents, executions, spentAt>>
    BY <1>2 DEF RevokeWrite, At
  <2>2. CASE RevokeIfActive(req[h].c)
    <3>1. /\ status' = [status EXCEPT ![req[h].c] = "Revoked"]
          /\ Goto(h, "written") /\ status[req[h].c] # "Used"
      BY <1>2, <2>2 DEF RevokeWrite, RevokeIfActive
    <3> QED BY <1>0, <1>c, <2>1, <3>1, MarkRevoked
  <2>3. CASE ~RevokeIfActive(req[h].c)
    <3>1. Goto(h, "lost") /\ UNCHANGED capVars
      BY <1>2, <2>1, <2>3 DEF RevokeWrite, capVars
    <3>2. status[req[h].c] # "Active" \/ expires[req[h].c] <= now
      BY <1>0, <1>c, <2>1, <2>3 DEF RevokeIfActive
    <3>3. LeaseRequestOK(req[h])'
      BY <1>0, <1>r, <2>1, <3>1, <3>2, GotoSlot DEF LeaseRequestOK, capVars
    <3> QED BY <1>0, <2>1, <3>1, <3>3, GotoSlot, LeaseUntouched
  <2> QED BY <2>2, <2>3
<1>3. CASE RevokeReload(h) \/ RevokeFallback(h)
  <2>1. /\ req[h].op = "revoke" /\ req[h].pc \in {"lost", "missed"}
        /\ UNCHANGED <<now, capVars>>
    BY <1>3 DEF RevokeReload, RevokeFallback, At
  <2>2. CASE Finish(h)
    BY <1>0, <2>1, <2>2, FinishSlot, LeaseIdle
  <2>3. ASSUME NEW p \in {"missed", "stale"}, Goto(h, p), Revocable(req[h].c)
        PROVE  LeaseInv'
    <3>1. LeaseRequestOK(req[h])'
      BY <1>0, <1>r, <2>1, <2>3, GotoSlot DEF LeaseRequestOK, Revocable, capVars
    <3> QED BY <1>0, <2>1, <2>3, <3>1, GotoSlot, LeaseUntouched
  <2> QED BY <1>3, <2>2, <2>3 DEF RevokeReload, RevokeFallback
<1>4. CASE RevokeOverwrite(h)
  <2>1. /\ req[h].op = "revoke" /\ req[h].pc = "stale"
        /\ status' = [status EXCEPT ![req[h].c] = "Revoked"] /\ Goto(h, "written")
        /\ UNCHANGED <<now, expires, binding, capEvents, executions, spentAt>>
    BY <1>4 DEF RevokeOverwrite, At
  <2>2. status[req[h].c] # "Used"
    BY <1>r, <2>1 DEF LeaseRequestOK
  <2> QED BY <1>0, <1>c, <2>1, <2>2, MarkRevoked
<1>5. CASE RevokeAppend(h)
  <2>1. /\ req[h].op = "revoke" /\ req[h].pc = "written" /\ Finish(h)
        /\ capEvents' = [capEvents EXCEPT ![req[h].c] = @ \cup {"Revoked"}]
        /\ UNCHANGED <<now, status, expires, executions, spentAt>>
    BY <1>5 DEF RevokeAppend, CapabilityAppend, At
  <2>2. status[req[h].c] = "Revoked"
    BY <1>r, <2>1 DEF LeaseRequestOK
  <2>3. RevokedStays'
    BY <2>1, <2>2 DEF LeaseInv, RevokedStays, TypeInv, TypeOK
  <2>4. \A c \in Capability : LeaseStep(c)
    BY <1>0, <2>1 DEF LeaseStep
  <2>5. LeaseRequestsOK'
    BY <1>0, <2>1, <2>4, FinishSlot, NoLease, LeaseRequestsKept DEF LeaseInv
  <2> QED BY <2>1, <2>3, <2>5 DEF LeaseInv, SpentOnce, SpentInTime
<1> QED BY <1>1, <1>2, <1>3, <1>4, <1>5 DEF Revoke

\* Time passes for the requests that wait, and stopping forgets one of them.
LEMMA TickLease ==
  ASSUME TypeInv, TypeInv', LeaseInv, Tick
  PROVE  LeaseInv'
<1>1. /\ now \in Nat /\ now' = now + 1 /\ UNCHANGED <<capVars, req>>
  BY Constants DEF Tick, TypeInv, TypeOK
<1>2. ASSUME NEW s \in Slot
      PROVE  LeaseRequestOK(req[s])'
  <2>1. LeaseRequestOK(req[s]) /\ RequestOK(req[s])
    BY DEF LeaseInv, LeaseRequestsOK, TypeInv, RequestsOK
  <2>2. req[s].op = "revoke" => expires[req[s].c] \in Nat
    BY <2>1 DEF RequestOK, TypeInv, TypeOK
  <2> QED BY <1>1, <2>1, <2>2 DEF LeaseRequestOK, capVars
<1>3. LeaseRequestsOK'
  BY <1>2 DEF LeaseRequestsOK
<1> QED BY <1>1, <1>3 DEF LeaseInv, capVars, SpentOnce, SpentInTime, RevokedStays

\* A request that ends keeps the invariant about leases.
LEMMA StopLease ==
  ASSUME TypeInv, TypeInv', LeaseInv, NEW s \in Slot, Stop(s)
  PROVE  LeaseInv'
<1>1. Finish(s) /\ UNCHANGED <<now, capVars>>
  BY DEF Stop
<1> QED BY <1>1, FinishSlot, LeaseIdle

\* Every step of a typed state keeps the invariant about leases.
LEMMA StepLease == TypeInv /\ TypeInv' /\ LeaseInv /\ [Next]_vars => LeaseInv'
<1> SUFFICES ASSUME TypeInv, TypeInv', LeaseInv, [Next]_vars
             PROVE  LeaseInv'
  OBVIOUS
<1>1. CASE Tick
  BY <1>1, TickLease
<1>2. ASSUME NEW h \in Handler,
             Evaluate(h) \/ Resolve(h) \/ Mint(h) \/ Authorize(h) \/ Revoke(h)
      PROVE  LeaseInv'
  BY <1>2, EvaluateLease, ResolveLease, MintLease, AuthorizeLease, RevokeLease
<1>3. ASSUME NEW s \in Sweeper, Sweep(s)
      PROVE  LeaseInv'
  BY <1>3, SweepLease
<1>4. ASSUME NEW s \in Slot, Stop(s)
      PROVE  LeaseInv'
  BY <1>4, StopLease
<1>5. CASE UNCHANGED vars
  BY <1>5 DEF vars, LeaseInv, SpentOnce, SpentInTime, RevokedStays,
              LeaseRequestsOK, LeaseRequestOK
<1> QED BY <1>1, <1>2, <1>3, <1>4, <1>5 DEF Next

\* Nothing is spent, revoked or asked for at first.
LEMMA InitLease == Init => LeaseInv
BY DEF Init, LeaseInv, SpentOnce, SpentInTime, RevokedStays, LeaseRequestsOK,
       LeaseRequestOK, Idle, None

\* The invariant holds always.
LEMMA LeaseAlways == Spec => []LeaseInv
<1>1. Spec => []TypeInv
  BY InitTypes, StepTypes, PTL DEF Spec
<1> QED BY <1>1, InitLease, StepLease, PTL DEF Spec

\* record_authorization and both ways of revoking: a capability buys exactly
\* one execution if it is Used and none if it is not, whatever authorize and
\* revoke requests race.
THEOREM SpendsOnce == Spec => []SpentOnce
<1>1. LeaseInv => SpentOnce
  BY DEF LeaseInv
<1> QED BY <1>1, LeaseAlways, PTL

\* record_authorization: no execution is authorized at or after the end of its
\* lease, however long ago the handler read it.
THEOREM SpendsInTime == Spec => []SpentInTime
<1>1. LeaseInv => SpentInTime
  BY DEF LeaseInv
<1> QED BY <1>1, LeaseAlways, PTL

\* revoke_capability: once its event is recorded, the capability was never
\* spent and never will be.
THEOREM RevocationIsFinal == Spec => []RevocationHolds
<1>1. LeaseInv => RevocationHolds
  BY DEF LeaseInv, SpentOnce, RevokedStays, RevocationHolds
<1> QED BY <1>1, LeaseAlways, PTL

------------------------------------------------------------------------------
(* Verdicts *)

\* What backs a capability of the proposal.
Backed ==
  \/ decision = "Allow"
  \/ decision = "RequireApproval" /\ row["approval"] = "Granted"
  \/ decision = "Quarantine" /\ row["hold"] = "Allowed"

\* The grant that a lease with binding b needs before it is spent.
GrantStands(b) ==
  /\ b # "Unbound" => row["approval"] = "Granted"
  /\ b = "RoleBound" /\ hardened => "GrantedByRole" \in verdicts["approval"]

\* One request evaluates the proposal.  Until it has appended its decision
\* there is none, and until it has inserted the hold there is no hold.
EvaluateInv ==
  /\ \A s, u \in Slot :
       req[s].op = "evaluate" /\ req[u].op = "evaluate" => s = u
  /\ \A s \in Slot : req[s].op = "evaluate" =>
       /\ proposal
       /\ req[s].pc = "loaded" => decision = None
       /\ req[s].pc \in {"loaded", "cleared"} => row["hold"] = None
  /\ ~proposal => decision = None /\ row["hold"] = None

\* What a request may rely on although the rows were read, or written, some
\* awaits earlier.  One that owes an event wrote the verdict it will tell; one
\* that passed its checks still has what they found.
VerdictRequestOK(r) ==
  /\ r.op = "resolve" /\ r.pc \in {"written", "audited"} =>
       row[r.o] = StateOf(r.arg)
  /\ r.op = "sweep" /\ r.pc = "written" => row[r.o] = "Expired"
  /\ r.op = "mint" => decision \in {"Allow", "RequireApproval", "Quarantine"}
  /\ r.op = "mint" /\ r.pc = "cleared" => Backed
  /\ r.op = "authorize" /\ r.pc = "cleared" => GrantStands(binding[r.c])

VerdictRequestsOK == \A s \in Slot : VerdictRequestOK(req[s])

SpentOnGrant ==
  \A c \in Capability : executions[c] > 0 => GrantStands(binding[c])

VerdictInv ==
  EvaluateInv /\ VerdictRequestsOK /\ OneVerdict /\ MintIsBacked /\ SpentOnGrant

\* A row that carries a verdict.
Settled == {"Granted", "Allowed", "Denied", "Expired"}

\* What a step may do to the decision and the verdicts that requests have seen,
\* and to the leases that stand on them.
VerdictStep ==
  /\ decision # None => decision' = decision
  /\ \A o \in Object :
       /\ row[o] \in Settled => row'[o] = row[o]
       /\ verdicts[o] \subseteq verdicts'[o]
       /\ \A v \in verdicts'[o] \ {"Created"} :
            v \in verdicts[o] \/ StateOf(v) = row'[o]
  /\ hardened' => hardened \/ row["approval"] = "Pending"

LeaseUse ==
  \A c \in Capability :
    /\ status[c] # None => binding'[c] = binding[c]
    /\ status'[c] # None => status[c] # None \/ Backed
    /\ executions'[c] > 0 =>
         executions[c] > 0 \/ (status[c] # None /\ GrantStands(binding[c]))

OthersWait(s) == \A u \in Slot : u # s => req'[u] = req[u]

\* Steps that leave the rows and the decision alone.
LEMMA VerdictsAside ==
  ASSUME UNCHANGED <<decisionVars, verdictVars>>
  PROVE  VerdictStep /\ UNCHANGED decisionVars /\ row' = row
BY DEF VerdictStep, decisionVars, verdictVars

\* Steps that leave the leases alone.
LEMMA LeasesAside ==
  ASSUME UNCHANGED capVars
  PROVE  LeaseUse
BY DEF LeaseUse, capVars

\* A verdict is a settled state.
LEMMA VerdictsSettle ==
  ASSUME NEW v \in Verdict
  PROVE  StateOf(v) \in Settled
BY DEF Verdict, StateOf, Settled

\* What backs a capability, or lets it be spent, is never taken back.
LEMMA BackingStands ==
  ASSUME TypeInv, VerdictStep
  PROVE  /\ Backed => Backed'
         /\ \A b : b = "RoleBound" /\ GrantStands(b) => GrantStands(b)'
         /\ \A b : b # "RoleBound" /\ GrantStands(b) => GrantStands(b)'
BY DEF TypeInv, TypeOK, VerdictStep, Backed, GrantStands, Object, Settled, None

\* A request keeps what it relies on through the steps of others.
LEMMA VerdictRequestKept ==
  ASSUME TypeInv, LeaseInv, VerdictStep, LeaseUse,
         NEW r \in Request, RequestOK(r), LeaseRequestOK(r), VerdictRequestOK(r)
  PROVE  VerdictRequestOK(r)'
<1>1. CASE r.op \in {"resolve", "sweep"}
  <2>1. r.o \in Object /\ (r.op = "resolve" => StateOf(r.arg) \in Settled)
    BY <1>1, AnswersAreVerdicts, VerdictsSettle DEF RequestOK
  <2> QED BY <1>1, <2>1 DEF VerdictStep, VerdictRequestOK, Settled
<1>2. CASE r.op = "mint"
  BY <1>2, BackingStands DEF VerdictRequestOK, VerdictStep, None
<1>3. CASE r.op = "authorize"
  <2>1. r.c \in Capability /\ status[r.c] # None
    BY <1>3 DEF RequestOK, LeaseRequestOK
  <2>2. binding'[r.c] = binding[r.c]
    BY <2>1 DEF LeaseUse
  <2> QED BY <1>3, <2>2, BackingStands DEF VerdictRequestOK
<1>4. CASE r.op \notin {"resolve", "sweep", "mint", "authorize"}
  BY <1>4 DEF VerdictRequestOK
<1> QED BY <1>1, <1>2, <1>3, <1>4

\* Whoever moves, the other requests and the leases keep what they stand on.
LEMMA VerdictsKept ==
  ASSUME TypeInv, TypeInv', LeaseInv, VerdictInv, VerdictStep, LeaseUse,
         NEW s \in Slot, OthersWait(s), VerdictRequestOK(req[s])',
         EvaluateInv'
  PROVE  VerdictInv'
<1>1. VerdictRequestsOK'
  <2> SUFFICES ASSUME NEW u \in Slot, u # s
               PROVE  VerdictRequestOK(req[u])'
    BY DEF VerdictRequestsOK
  <2>1. PICK r : r = req[u]
    OBVIOUS
  <2>2. r = req'[u] /\ r \in Request /\ RequestOK(r) /\ LeaseRequestOK(r)
        /\ VerdictRequestOK(r)
    BY <2>1 DEF OthersWait, TypeInv, TypeOK, RequestsOK, LeaseInv,
                LeaseRequestsOK, VerdictInv, VerdictRequestsOK
  <2>3. VerdictRequestOK(r)'
    BY <2>2, VerdictRequestKept
  <2> QED BY <2>2, <2>3 DEF VerdictRequestOK, Backed, GrantStands
<1>2. OneVerdict'
  <2> SUFFICES ASSUME NEW o \in Object, NEW v \in verdicts'[o] \ {"Created"}
               PROVE  StateOf(v) = row'[o]
    BY DEF OneVerdict
  <2>1. CASE v \in verdicts[o]
    <3>1. StateOf(v) = row[o] /\ v \in Verdict
      BY <2>1 DEF VerdictInv, OneVerdict, TypeInv, TypeOK
    <3> QED BY <3>1, VerdictsSettle DEF VerdictStep
  <2> QED BY <2>1 DEF VerdictStep
<1>3. MintIsBacked'
  <2> SUFFICES ASSUME NEW c \in Capability, status'[c] # None
               PROVE  Backed'
    BY DEF MintIsBacked, Backed
  <2>1. Backed
    BY DEF LeaseUse, VerdictInv, MintIsBacked, Backed
  <2> QED BY <2>1, BackingStands
<1>4. SpentOnGrant'
  <2> SUFFICES ASSUME NEW c \in Capability, executions'[c] > 0
               PROVE  GrantStands(binding[c])'
    BY DEF SpentOnGrant
  <2>1. GrantStands(binding[c]) /\ status[c] # None
    BY DEF LeaseUse, VerdictInv, SpentOnGrant, LeaseInv, SpentOnce, None,
           TypeInv, TypeOK
  <2>2. binding'[c] = binding[c]
    BY <2>1 DEF LeaseUse
  <2> QED BY <2>1, <2>2, BackingStands
<1> QED BY <1>1, <1>2, <1>3, <1>4 DEF VerdictInv

\* Steps of a slot that does not evaluate leave the evaluation alone.
LEMMA EvaluateKept ==
  ASSUME EvaluateInv, UNCHANGED decisionVars,
         row["hold"] = None => row'["hold"] = None,
         NEW s \in Slot, OthersWait(s), req'[s].op # "evaluate"
  PROVE  EvaluateInv'
<1>1. \A u \in Slot : req'[u].op = "evaluate" => req'[u] = req[u]
  BY DEF OthersWait
<1>2. \A u, w \in Slot :
        req'[u].op = "evaluate" /\ req'[w].op = "evaluate" => u = w
  BY <1>1 DEF EvaluateInv
<1>3. \A u \in Slot : req'[u].op = "evaluate" =>
        /\ proposal'
        /\ req'[u].pc = "loaded" => decision' = None
        /\ req'[u].pc \in {"loaded", "cleared"} => row'["hold"] = None
  BY <1>1 DEF EvaluateInv, decisionVars
<1> QED BY <1>2, <1>3 DEF EvaluateInv, decisionVars

\* What the ways of moving on do to the slots.
LEMMA FinishMoves ==
  ASSUME TypeInv, NEW s \in Slot, Finish(s)
  PROVE  OthersWait(s) /\ req'[s].op = "none" /\ VerdictRequestOK(req[s])'
BY FinishSlot DEF OthersWait, VerdictRequestOK

\* A request that moves on keeps everything it holds.
LEMMA GotoMoves ==
  ASSUME TypeInv, NEW s \in Slot, NEW pc, Goto(s, pc)
  PROVE  /\ OthersWait(s)
         /\ req'[s].op = req[s].op /\ req'[s].pc = pc /\ req'[s].c = req[s].c
         /\ req'[s].o = req[s].o /\ req'[s].arg = req[s].arg
<1>1. req[s] \in Request /\ req' = [req EXCEPT ![s] = [req[s] EXCEPT !.pc = pc]]
  BY DEF Goto, TypeInv, TypeOK
<1>2. req'[s] = [req[s] EXCEPT !.pc = pc]
  BY <1>1 DEF TypeInv, TypeOK
<1>3. /\ req'[s].op = req[s].op /\ req'[s].pc = pc /\ req'[s].c = req[s].c
      /\ req'[s].o = req[s].o /\ req'[s].arg = req[s].arg
  BY <1>1, <1>2 DEF Request
<1> QED BY <1>3, GotoSlot DEF OthersWait

\* A request that ends, and writes nothing, keeps the invariant.
LEMMA FinishVerdicts ==
  ASSUME TypeInv, TypeInv', LeaseInv, VerdictInv, NEW s \in Slot, Finish(s),
         UNCHANGED <<decisionVars, verdictVars>>, LeaseUse
  PROVE  VerdictInv'
<1>1. VerdictStep /\ UNCHANGED decisionVars /\ row' = row
  BY VerdictsAside
<1>2. OthersWait(s) /\ req'[s].op = "none" /\ VerdictRequestOK(req[s])'
  BY FinishMoves
<1>3. EvaluateInv'
  BY <1>1, <1>2, EvaluateKept DEF VerdictInv
<1> QED BY <1>1, <1>2, <1>3, VerdictsKept

\* One evaluation is let through; it decides once and inserts the hold once.
LEMMA EvaluateVerdicts ==
  ASSUME TypeInv, TypeInv', LeaseInv, VerdictInv, NEW h \in Handler, Evaluate(h)
  PROVE  VerdictInv'
<1>0. h \in Slot /\ EvaluateInv
  BY Constants DEF VerdictInv
<1>1. ASSUME NEW d \in Policy, EvaluateInsert(h, d)
      PROVE  VerdictInv'
  <2>1. PICK r : r = [Idle EXCEPT !.pc = "loaded", !.op = "evaluate", !.arg = d]
    OBVIOUS
  <2>2. /\ r.op = "evaluate" /\ r.pc = "loaded" /\ Begin(h, r)
        /\ ~proposal /\ proposal' = TRUE
        /\ UNCHANGED <<decision, verdictVars, capVars>>
    BY <1>1, <2>1 DEF EvaluateInsert, Idle
  <2>3. OthersWait(h) /\ req'[h] = r /\ VerdictRequestOK(req[h])'
    BY <1>0, <2>2, BeginSlot DEF OthersWait, VerdictRequestOK
  <2>4. \A u \in Slot : req[u].op # "evaluate"
    BY <1>0, <2>2 DEF EvaluateInv
  <2>5. EvaluateInv'
    BY <1>0, <2>2, <2>3, <2>4 DEF EvaluateInv, OthersWait, verdictVars
  <2>6. VerdictStep /\ LeaseUse
    BY <2>2, LeasesAside DEF VerdictStep, verdictVars
  <2> QED BY <1>0, <2>3, <2>5, <2>6, VerdictsKept
<1>2. CASE EvaluateAppend(h)
  <2>1. /\ req[h].op = "evaluate" /\ req[h].pc = "loaded"
        /\ Finish(h) \/ Goto(h, "cleared")
        /\ UNCHANGED <<proposal, verdictVars, capVars>>
    BY <1>2 DEF EvaluateAppend, At
  <2>2. OthersWait(h) /\ req'[h].op \in {"none", "evaluate"}
        /\ (req'[h].op = "evaluate" => req'[h].pc = "cleared")
        /\ VerdictRequestOK(req[h])'
    BY <1>0, <2>1, FinishMoves, GotoMoves DEF VerdictRequestOK
  <2>3. decision = None /\ row["hold"] = None /\ proposal
    BY <1>0, <2>1 DEF EvaluateInv
  <2>4. \A u \in Slot : u # h => req[u].op # "evaluate"
    BY <1>0, <2>1 DEF EvaluateInv
  <2>5. EvaluateInv'
    BY <1>0, <2>1, <2>2, <2>3, <2>4 DEF EvaluateInv, OthersWait, verdictVars
  <2>6. VerdictStep /\ LeaseUse
    BY <2>1, <2>3, LeasesAside DEF VerdictStep, verdictVars
  <2> QED BY <1>0, <2>2, <2>5, <2>6, VerdictsKept
<1>3. CASE EvaluateHold(h)
  <2>1. /\ req[h].op = "evaluate" /\ req[h].pc = "cleared"
        /\ Goto(h, "written") /\ row' = [row EXCEPT !["hold"] = "Pending"]
        /\ UNCHANGED <<decisionVars, verdicts, hardened, capVars>>
    BY <1>3 DEF EvaluateHold, At
  <2>2. OthersWait(h) /\ req'[h].op = "evaluate" /\ req'[h].pc = "written"
        /\ VerdictRequestOK(req[h])'
    BY <1>0, <2>1, GotoMoves DEF VerdictRequestOK
  <2>3. row["hold"] = None /\ proposal
    BY <1>0, <2>1 DEF EvaluateInv
  <2>4. \A u \in Slot : u # h => req[u].op # "evaluate"
    BY <1>0, <2>1 DEF EvaluateInv
  <2>5. EvaluateInv'
    BY <1>0, <2>1, <2>2, <2>3, <2>4 DEF EvaluateInv, OthersWait, decisionVars
  <2>6. \A o \in Object : row[o] \in Settled => row'[o] = row[o]
    BY <2>1, <2>3 DEF TypeInv, TypeOK, Settled, None
  <2>7. VerdictStep /\ LeaseUse
    BY <2>1, <2>6, LeasesAside DEF VerdictStep, decisionVars
  <2> QED BY <1>0, <2>2, <2>5, <2>7, VerdictsKept
<1>4. CASE CreatedAppend(h)
  <2>1. /\ Finish(h) /\ verdicts' = [verdicts EXCEPT !["hold"] = @ \cup {"Created"}]
        /\ UNCHANGED <<decisionVars, row, hardened, capVars>>
    BY <1>4 DEF CreatedAppend
  <2>2. OthersWait(h) /\ req'[h].op = "none" /\ VerdictRequestOK(req[h])'
    BY <1>0, <2>1, FinishMoves
  <2>3. EvaluateInv'
    BY <1>0, <2>1, <2>2, EvaluateKept
  <2>4. \A o \in Object : verdicts[o] \subseteq verdicts'[o]
                          /\ verdicts'[o] \subseteq verdicts[o] \cup {"Created"}
    BY <2>1 DEF TypeInv, TypeOK
  <2>5. VerdictStep /\ LeaseUse
    BY <2>1, <2>4, LeasesAside DEF VerdictStep, decisionVars
  <2> QED BY <1>0, <2>2, <2>3, <2>5, VerdictsKept
<1> QED BY <1>1, <1>2, <1>3, <1>4 DEF Evaluate

\* A pending row takes its verdict, and the slot that wrote it owes the event.
LEMMA WriteVerdict ==
  ASSUME TypeInv, TypeInv', LeaseInv, VerdictInv, NEW s \in Slot,
         NEW o \in Object, NEW v \in Settled, row[o] = "Pending",
         row' = [row EXCEPT ![o] = v], Goto(s, "written"),
         UNCHANGED hardened \/ o = "approval",
         UNCHANGED <<decisionVars, verdicts, capVars>>,
         \/ req[s].op = "resolve" /\ req[s].o = o /\ StateOf(req[s].arg) = v
         \/ req[s].op = "sweep" /\ req[s].o = o /\ v = "Expired"
  PROVE  VerdictInv'
<1>1. row'[o] = v /\ \A p \in Object : p # o => row'[p] = row[p]
  BY DEF TypeInv, TypeOK
<1>2. OthersWait(s) /\ req'[s].op = req[s].op /\ req'[s].o = o
      /\ req'[s].arg = req[s].arg
  BY GotoMoves
<1>3. VerdictRequestOK(req[s])'
  BY <1>1, <1>2 DEF VerdictRequestOK
<1>4. EvaluateInv'
  BY <1>1, <1>2, EvaluateKept DEF VerdictInv, Object, None
<1>5. ASSUME NEW p \in Object
      PROVE  /\ row[p] \in Settled => row'[p] = row[p]
             /\ verdicts[p] \subseteq verdicts'[p]
             /\ \A w \in verdicts'[p] \ {"Created"} :
                  w \in verdicts[p] \/ StateOf(w) = row'[p]
  BY <1>1 DEF Settled
<1>6. VerdictStep /\ LeaseUse
  BY <1>5, LeasesAside DEF VerdictStep, decisionVars
<1> QED BY <1>2, <1>3, <1>4, <1>6, VerdictsKept

\* The event of a request tells the verdict that stands in the row.
LEMMA AppendVerdicts ==
  ASSUME TypeInv, TypeInv', LeaseInv, VerdictInv, NEW s \in Slot,
         NEW o \in Object, NEW v, StateOf(v) = row[o], AppendVerdict(s, o, v)
  PROVE  VerdictInv'
<1>1. /\ Finish(s) /\ UNCHANGED <<decisionVars, row, hardened, capVars>>
      /\ verdicts' = [verdicts EXCEPT ![o] = IF HasParent(o) THEN @ \cup {v}
                                                             ELSE @]
  BY DEF AppendVerdict
<1>2. OthersWait(s) /\ req'[s].op = "none" /\ VerdictRequestOK(req[s])'
  BY <1>1, FinishMoves
<1>3. EvaluateInv'
  BY <1>1, <1>2, EvaluateKept DEF VerdictInv
<1>4. \A p \in Object :
        /\ verdicts[p] \subseteq verdicts'[p]
        /\ \A w \in verdicts'[p] : w \in verdicts[p] \/ (p = o /\ w = v)
  BY <1>1 DEF TypeInv, TypeOK
<1>5. VerdictStep /\ LeaseUse
  BY <1>1, <1>4, LeasesAside DEF VerdictStep, decisionVars
<1> QED BY <1>2, <1>3, <1>5, VerdictsKept

\* A request that begins and writes nothing keeps the invariant when it may
\* rely on what it has read.
LEMMA BeginVerdicts ==
  ASSUME TypeInv, TypeInv', LeaseInv, VerdictInv, NEW s \in Slot, NEW r,
         Begin(s, r), r.op # "evaluate", VerdictRequestOK(r),
         UNCHANGED <<decisionVars, verdictVars, capVars>>
  PROVE  VerdictInv'
<1>1. VerdictStep /\ UNCHANGED decisionVars /\ row' = row /\ LeaseUse
  BY VerdictsAside, LeasesAside
<1>2. OthersWait(s) /\ req'[s] = r
  BY BeginSlot DEF OthersWait
<1>3. EvaluateInv'
  BY <1>1, <1>2, EvaluateKept DEF VerdictInv
<1>4. VerdictRequestOK(req[s])'
  BY <1>2 DEF VerdictRequestOK, Backed, GrantStands, decisionVars, verdictVars,
              capVars
<1> QED BY <1>1, <1>2, <1>3, <1>4, VerdictsKept

\* The same for a request that goes on.
LEMMA GotoVerdicts ==
  ASSUME TypeInv, TypeInv', LeaseInv, VerdictInv, NEW s \in Slot, NEW pc,
         Goto(s, pc), req[s].op # "evaluate", VerdictRequestOK(req[s])',
         UNCHANGED <<decisionVars, verdictVars>>, LeaseUse
  PROVE  VerdictInv'
<1>1. VerdictStep /\ UNCHANGED decisionVars /\ row' = row
  BY VerdictsAside
<1>2. OthersWait(s) /\ req'[s].op # "evaluate"
  BY GotoMoves
<1>3. EvaluateInv'
  BY <1>1, <1>2, EvaluateKept DEF VerdictInv
<1> QED BY <1>1, <1>2, <1>3, VerdictsKept

\* A resolver answers a pending row once, and tells what it wrote.
LEMMA ResolveVerdicts ==
  ASSUME TypeInv, TypeInv', LeaseInv, VerdictInv, NEW h \in Handler, Resolve(h)
  PROVE  VerdictInv'
<1>0. h \in Slot
  BY Constants
<1>r. RequestOK(req[h]) /\ VerdictRequestOK(req[h])
  BY <1>0 DEF TypeInv, RequestsOK, VerdictInv, VerdictRequestsOK
<1>1. ASSUME NEW o \in Object, NEW v \in Answers(o), ResolveLoad(h, o, v)
      PROVE  VerdictInv'
  <2>1. PICK r : r = [Idle EXCEPT !.pc = "loaded", !.op = "resolve", !.o = o,
                                  !.t = now, !.arg = v]
    OBVIOUS
  <2>2. /\ r.op = "resolve" /\ r.pc = "loaded" /\ Begin(h, r)
        /\ UNCHANGED <<decisionVars, verdictVars, capVars>>
    BY <1>1, <2>1 DEF ResolveLoad, Idle
  <2> QED BY <1>0, <2>2, BeginVerdicts DEF VerdictRequestOK
<1>2. CASE ResolveWrite(h)
  <2>1. req[h].op = "resolve" /\ UNCHANGED <<decisionVars, verdicts, capVars>>
    BY <1>2 DEF ResolveWrite, At
  <2>2. req[h].o \in Object /\ StateOf(req[h].arg) \in Settled
    BY <1>r, <2>1, AnswersAreVerdicts, VerdictsSettle DEF RequestOK
  <2>3. CASE Resolvable(req[h].o, req[h].t)
    <3>1. /\ row[req[h].o] = "Pending" /\ Goto(h, "written")
          /\ row' = [row EXCEPT ![req[h].o] = StateOf(req[h].arg)]
          /\ UNCHANGED hardened \/ req[h].o = "approval"
      BY <1>2, <2>3 DEF ResolveWrite, Resolvable, TypeInv, TypeOK
    <3> QED BY <1>0, <2>1, <2>2, <3>1, WriteVerdict
  <2>4. CASE ~Resolvable(req[h].o, req[h].t)
    <3>1. Finish(h) /\ UNCHANGED verdictVars /\ LeaseUse
      BY <1>2, <2>1, <2>4, LeasesAside DEF ResolveWrite, verdictVars
    <3> QED BY <1>0, <2>1, <3>1, FinishVerdicts
  <2> QED BY <2>3, <2>4
<1>3. CASE ResolveAudit(h)
  <2>1. /\ req[h].op = "resolve" /\ req[h].pc = "written"
        /\ UNCHANGED <<decisionVars, row, hardened, verdicts, capVars>>
        /\ Finish(h) \/ Goto(h, "audited")
    BY <1>3 DEF ResolveAudit, At
  <2>2. /\ OthersWait(h) /\ req'[h].op # "evaluate"
        /\ req'[h].op = "none" \/ VerdictRequestOK(req[h])'
    BY <1>0, <1>r, <2>1, FinishMoves, GotoMoves DEF VerdictRequestOK
  <2>3. VerdictRequestOK(req[h])'
    BY <2>2 DEF VerdictRequestOK
  <2>4. EvaluateInv'
    BY <1>0, <2>1, <2>2, EvaluateKept DEF VerdictInv
  <2>5. VerdictStep /\ LeaseUse
    BY <2>1, LeasesAside DEF VerdictStep, decisionVars
  <2> QED BY <1>0, <2>2, <2>3, <2>4, <2>5, VerdictsKept
<1>4. CASE ResolveAppend(h)
  <2>1. /\ req[h].op = "resolve" /\ req[h].pc = "audited"
        /\ AppendVerdict(h, req[h].o, req[h].arg)
    BY <1>4 DEF ResolveAppend, At
  <2>2. req[h].o \in Object /\ StateOf(req[h].arg) = row[req[h].o]
    BY <1>r, <2>1 DEF RequestOK, VerdictRequestOK
  <2> QED BY <1>0, <2>1, <2>2, AppendVerdicts
<1> QED BY <1>1, <1>2, <1>3, <1>4 DEF Resolve

\* A timeout pass expires a row only while it is pending.
LEMMA SweepVerdicts ==
  ASSUME TypeInv, TypeInv', LeaseInv, VerdictInv, NEW s \in Sweeper, Sweep(s)
  PROVE  VerdictInv'
<1>0. s \in Slot
  BY Constants
<1>r. RequestOK(req[s]) /\ VerdictRequestOK(req[s])
  BY <1>0 DEF TypeInv, RequestsOK, VerdictInv, VerdictRequestsOK
<1>1. ASSUME NEW o \in Object, SweepSelect(s, o)
      PROVE  VerdictInv'
  <2>1. PICK r : r = [Idle EXCEPT !.pc = "loaded", !.op = "sweep", !.o = o]
    OBVIOUS
  <2>2. /\ r.op = "sweep" /\ r.pc = "loaded" /\ Begin(s, r)
        /\ UNCHANGED <<decisionVars, verdictVars, capVars>>
    BY <1>1, <2>1 DEF SweepSelect, Idle
  <2> QED BY <1>0, <2>2, BeginVerdicts DEF VerdictRequestOK
<1>2. CASE SweepWrite(s)
  <2>1. /\ req[s].op = "sweep" /\ UNCHANGED <<decisionVars, verdicts, capVars>>
        /\ UNCHANGED hardened
    BY <1>2 DEF SweepWrite, At
  <2>2. req[s].o \in Object /\ "Expired" \in Settled
    BY <1>r, <2>1 DEF RequestOK, Settled
  <2>3. CASE Expirable(req[s].o)
    <3>1. /\ row[req[s].o] = "Pending" /\ Goto(s, "written")
          /\ row' = [row EXCEPT ![req[s].o] = "Expired"]
      BY <1>2, <2>3 DEF SweepWrite, Expirable
    <3> QED BY <1>0, <2>1, <2>2, <3>1, WriteVerdict
  <2>4. CASE ~Expirable(req[s].o)
    <3>1. Finish(s) /\ UNCHANGED verdictVars /\ LeaseUse
      BY <1>2, <2>1, <2>4, LeasesAside DEF SweepWrite, verdictVars
    <3> QED BY <1>0, <2>1, <3>1, FinishVerdicts
  <2> QED BY <2>3, <2>4
<1>3. CASE SweepAppend(s)
  <2>1. /\ req[s].op = "sweep" /\ req[s].pc = "written"
        /\ AppendVerdict(s, req[s].o, "TimedOut")
    BY <1>3 DEF SweepAppend, At
  <2>2. req[s].o \in Object /\ StateOf("TimedOut") = row[req[s].o]
    BY <1>r, <2>1 DEF RequestOK, VerdictRequestOK, StateOf
  <2> QED BY <1>0, <2>1, <2>2, AppendVerdicts
<1> QED BY <1>1, <1>2, <1>3 DEF Sweep

\* A mint passes on the decision, the grant or the hold, and none of the three
\* is taken back before it inserts its row.
LEMMA MintVerdicts ==
  ASSUME TypeInv, TypeInv', LeaseInv, VerdictInv, NEW h \in Handler, Mint(h)
  PROVE  VerdictInv'
<1>0. h \in Slot
  BY Constants
<1>r. VerdictRequestOK(req[h])
  BY <1>0 DEF VerdictInv, VerdictRequestsOK
<1>1. ASSUME NEW b \in Ask, MintLoad(h, b)
      PROVE  VerdictInv'
  <2>1. PICK r : r = [Idle EXCEPT !.pc = IF decision = "Allow" THEN "cleared"
                                                               ELSE "loaded",
                                  !.op = "mint", !.arg = b]
    OBVIOUS
  <2>2. /\ r.op = "mint" /\ Begin(h, r)
        /\ decision \in {"Allow", "RequireApproval", "Quarantine"}
        /\ r.pc = "cleared" => decision = "Allow"
        /\ UNCHANGED <<decisionVars, verdictVars, capVars>>
    BY <1>1, <2>1 DEF MintLoad, Idle
  <2> QED BY <1>0, <2>2, BeginVerdicts DEF VerdictRequestOK, Backed
<1>2. CASE MintCheck(h)
  <2>1. /\ req[h].op = "mint" /\ req[h].pc = "loaded"
        /\ UNCHANGED <<decisionVars, verdictVars, capVars>> /\ LeaseUse
    BY <1>2, LeasesAside DEF MintCheck, At
  <2>2. CASE Finish(h)
    BY <1>0, <2>1, <2>2, FinishVerdicts
  <2>3. CASE Goto(h, "cleared") /\ MintAllowed(req[h].arg)
    <3>1. decision \in {"Allow", "RequireApproval", "Quarantine"} /\ Backed
      BY <1>r, <2>1, <2>3
      DEF VerdictRequestOK, MintAllowed, BindingValid, HoldAllows, Backed
    <3>2. VerdictRequestOK(req[h])'
      BY <1>0, <2>1, <2>3, <3>1, GotoMoves
      DEF VerdictRequestOK, Backed, decisionVars, verdictVars
    <3> QED BY <1>0, <2>1, <2>3, <3>2, GotoVerdicts
  <2> QED BY <1>2, <2>2, <2>3 DEF MintCheck
<1>3. ASSUME NEW c \in Capability, NEW ttl \in Ttl, MintInsert(h, c, ttl)
      PROVE  VerdictInv'
  <2>1. /\ req[h].op = "mint" /\ req[h].pc = "cleared" /\ status[c] = None
        /\ status' = [status EXCEPT ![c] = "Active"]
        /\ binding' = [binding EXCEPT ![c] = req[h].arg]
        /\ req' = [req EXCEPT ![h].pc = "written", ![h].c = c]
        /\ UNCHANGED <<decisionVars, verdictVars, executions>>
    BY <1>3 DEF MintInsert, At
  <2>2. Backed
    BY <1>r, <2>1 DEF VerdictRequestOK
  <2>3. \A d \in Capability : d # c => status'[d] = status[d]
                                       /\ binding'[d] = binding[d]
    BY <2>1 DEF TypeInv, TypeOK
  <2>4. LeaseUse
    BY <2>1, <2>2, <2>3 DEF LeaseUse
  <2>5. req'[h].op = "mint" /\ req'[h].pc = "written" /\ OthersWait(h)
    <3>1. req' = [req EXCEPT ![h] = [req[h] EXCEPT !.pc = "written", !.c = c]]
      BY <1>0, <2>1 DEF TypeInv, TypeOK
    <3>2. req'[h] = [req[h] EXCEPT !.pc = "written", !.c = c]
      BY <1>0, <3>1 DEF TypeInv, TypeOK
    <3>3. req[h] \in Request
      BY <1>0 DEF TypeInv, TypeOK
    <3>4. req'[h].op = "mint" /\ req'[h].pc = "written"
      BY <2>1, <3>2, <3>3 DEF Request
    <3> QED BY <1>0, <3>1, <3>4 DEF TypeInv, TypeOK, OthersWait
  <2>6. VerdictRequestOK(req[h])'
    BY <1>r, <2>1, <2>5 DEF VerdictRequestOK, decisionVars
  <2>7. VerdictStep /\ UNCHANGED decisionVars /\ row' = row
    BY <2>1, VerdictsAside
  <2>8. EvaluateInv'
    BY <1>0, <2>5, <2>7, EvaluateKept DEF VerdictInv
  <2> QED BY <1>0, <2>4, <2>5, <2>6, <2>7, <2>8, VerdictsKept
<1>4. CASE MintAppend(h)
  <2>1. /\ Finish(h) /\ LeaseUse
        /\ UNCHANGED <<decisionVars, verdictVars>>
    BY <1>4 DEF MintAppend, CapabilityAppend, LeaseUse
  <2> QED BY <1>0, <2>1, FinishVerdicts
<1> QED BY <1>1, <1>2, <1>3, <1>4 DEF Mint

\* An authorization checks the binding of the lease it read, and the grant
\* stands until it spends the lease.
LEMMA AuthorizeVerdicts ==
  ASSUME TypeInv, TypeInv', LeaseInv, VerdictInv, NEW h \in Handler, Authorize(h)
  PROVE  VerdictInv'
<1>0. h \in Slot
  BY Constants
<1>r. RequestOK(req[h]) /\ LeaseRequestOK(req[h]) /\ VerdictRequestOK(req[h])
  BY <1>0 DEF TypeInv, RequestsOK, LeaseInv, LeaseRequestsOK, VerdictInv,
              VerdictRequestsOK
<1>1. ASSUME NEW c \in Capability, AuthorizeLoad(h, c)
      PROVE  VerdictInv'
  <2>1. PICK r : r = [Idle EXCEPT !.pc = "loaded", !.op = "authorize", !.c = c]
    OBVIOUS
  <2>2. /\ r.op = "authorize" /\ r.pc = "loaded" /\ Begin(h, r)
        /\ UNCHANGED <<decisionVars, verdictVars, capVars>>
    BY <1>1, <2>1 DEF AuthorizeLoad, Idle
  <2> QED BY <1>0, <2>2, BeginVerdicts DEF VerdictRequestOK
<1>2. CASE AuthorizeCheck(h)
  <2>1. /\ req[h].op = "authorize"
        /\ UNCHANGED <<decisionVars, verdictVars, capVars>> /\ LeaseUse
    BY <1>2, LeasesAside DEF AuthorizeCheck, At
  <2>2. CASE Finish(h)
    BY <1>0, <2>1, <2>2, FinishVerdicts
  <2>3. CASE /\ Goto(h, "cleared")
             /\ binding[req[h].c] # "Unbound" => BindingValid(binding[req[h].c])
    <3>1. GrantStands(binding[req[h].c])
      BY <2>3 DEF GrantStands, BindingValid, RoleEvidence
    <3>2. VerdictRequestOK(req[h])'
      BY <1>0, <2>1, <2>3, <3>1, GotoMoves
      DEF VerdictRequestOK, GrantStands, verdictVars, capVars
    <3> QED BY <1>0, <2>1, <2>3, <3>2, GotoVerdicts
  <2> QED BY <1>2, <2>2, <2>3 DEF AuthorizeCheck
<1>3. CASE AuthorizeCommit(h)
  <2>1. /\ req[h].op = "authorize" /\ req[h].pc = "cleared" /\ Finish(h)
        /\ UNCHANGED <<decisionVars, verdictVars, binding>>
    BY <1>3 DEF AuthorizeCommit, At
  <2>2. /\ req[h].c \in Capability /\ status[req[h].c] # None
        /\ GrantStands(binding[req[h].c])
    BY <1>r, <2>1 DEF RequestOK, LeaseRequestOK, VerdictRequestOK
  <2>3. \A c \in Capability : c # req[h].c =>
          status'[c] = status[c] /\ executions'[c] = executions[c]
    BY <1>3 DEF AuthorizeCommit, TypeInv, TypeOK
  <2>4. LeaseUse
    BY <2>1, <2>2, <2>3 DEF LeaseUse
  <2> QED BY <1>0, <2>1, <2>4, FinishVerdicts
<1> QED BY <1>1, <1>2, <1>3 DEF Authorize

\* A revocation leaves verdicts alone and spends nothing.
LEMMA RevokeVerdicts ==
  ASSUME TypeInv, TypeInv', LeaseInv, VerdictInv, NEW h \in Handler, Revoke(h)
  PROVE  VerdictInv'
<1>0. h \in Slot
  BY Constants
<1>r. RequestOK(req[h]) /\ LeaseRequestOK(req[h])
  BY <1>0 DEF TypeInv, RequestsOK, LeaseInv, LeaseRequestsOK
<1>1. ASSUME NEW c \in Capability, RevokeLoad(h, c)
      PROVE  VerdictInv'
  <2>1. PICK r : r = [Idle EXCEPT !.pc = "loaded", !.op = "revoke", !.c = c]
    OBVIOUS
  <2>2. /\ r.op = "revoke" /\ Begin(h, r)
        /\ UNCHANGED <<decisionVars, verdictVars, capVars>>
    BY <1>1, <2>1 DEF RevokeLoad, Idle
  <2> QED BY <1>0, <2>2, BeginVerdicts DEF VerdictRequestOK
<1>2. CASE \/ RevokeWrite(h) \/ RevokeReload(h) \/ RevokeFallback(h)
           \/ RevokeOverwrite(h) \/ RevokeAppend(h)
  <2>1. /\ req[h].op = "revoke" /\ UNCHANGED <<decisionVars, verdictVars>>
        /\ Finish(h) \/ \E pc \in ProgramPoint : Goto(h, pc)
    BY <1>2 DEF RevokeWrite, RevokeReload, RevokeFallback, RevokeOverwrite,
                RevokeAppend, CapabilityAppend, At, ProgramPoint
  <2>2. /\ UNCHANGED <<binding, executions>>
        /\ \/ status' = status
           \/ status' = [status EXCEPT ![req[h].c] = "Revoked"]
    BY <1>2 DEF RevokeWrite, RevokeReload, RevokeFallback, RevokeOverwrite,
                RevokeAppend, CapabilityAppend, capVars
  <2>3. status[req[h].c] # None
    BY <1>r, <2>1 DEF LeaseRequestOK
  <2>4. LeaseUse
    BY <2>2, <2>3 DEF LeaseUse, TypeInv, TypeOK
  <2>5. CASE Finish(h)
    BY <1>0, <2>1, <2>4, <2>5, FinishVerdicts
  <2>6. ASSUME NEW pc \in ProgramPoint, Goto(h, pc)
        PROVE  VerdictInv'
    <3>1. VerdictRequestOK(req[h])'
      BY <1>0, <2>1, <2>6, GotoMoves DEF VerdictRequestOK
    <3> QED BY <1>0, <2>1, <2>4, <2>6, <3>1, GotoVerdicts
  <2> QED BY <2>1, <2>5, <2>6
<1> QED BY <1>1, <1>2 DEF Revoke

\* Every step of a typed state keeps the invariant about verdicts.
LEMMA StepVerdicts ==
  TypeInv /\ TypeInv' /\ LeaseInv /\ VerdictInv /\ [Next]_vars => VerdictInv'
<1> SUFFICES ASSUME TypeInv, TypeInv', LeaseInv, VerdictInv, [Next]_vars
             PROVE  VerdictInv'
  OBVIOUS
<1>1. CASE Tick \/ UNCHANGED vars
  <2>1. UNCHANGED <<decisionVars, verdictVars, capVars, req>>
    BY <1>1 DEF Tick, vars, decisionVars, verdictVars, capVars
  <2> QED BY <2>1 DEF decisionVars, verdictVars, capVars, VerdictInv,
          EvaluateInv, VerdictRequestsOK, VerdictRequestOK, Backed, GrantStands,
          OneVerdict, MintIsBacked, SpentOnGrant
<1>2. ASSUME NEW h \in Handler,
             Evaluate(h) \/ Resolve(h) \/ Mint(h) \/ Authorize(h) \/ Revoke(h)
      PROVE  VerdictInv'
  BY <1>2, EvaluateVerdicts, ResolveVerdicts, MintVerdicts, AuthorizeVerdicts,
     RevokeVerdicts
<1>3. ASSUME NEW s \in Sweeper, Sweep(s)
      PROVE  VerdictInv'
  BY <1>3, SweepVerdicts
<1>4. ASSUME NEW s \in Slot, Stop(s)
      PROVE  VerdictInv'
  <2>1. Finish(s) /\ UNCHANGED <<decisionVars, verdictVars>> /\ LeaseUse
    BY <1>4, LeasesAside DEF Stop
  <2> QED BY <1>4, <2>1, FinishVerdicts
<1> QED BY <1>1, <1>2, <1>3, <1>4 DEF Next

\* Nothing is evaluated, answered, minted or spent at first.
LEMMA InitVerdicts == Init => VerdictInv
<1> SUFFICES ASSUME Init PROVE VerdictInv
  OBVIOUS
<1>1. \A s \in Slot : req[s].op = "none"
  BY DEF Init, Idle
<1>2. row["hold"] = None
  BY DEF Init, Object
<1>3. EvaluateInv /\ VerdictRequestsOK
  BY <1>1, <1>2 DEF Init, EvaluateInv, VerdictRequestsOK, VerdictRequestOK
<1>4. OneVerdict /\ MintIsBacked /\ SpentOnGrant
  BY DEF Init, OneVerdict, MintIsBacked, SpentOnGrant
<1> QED BY <1>3, <1>4 DEF VerdictInv

\* The invariant holds always.
LEMMA VerdictsAlways == Spec => []VerdictInv
<1>1. Spec => []TypeInv
  BY InitTypes, StepTypes, PTL DEF Spec
<1> QED BY <1>1, LeaseAlways, InitVerdicts, StepVerdicts, PTL DEF Spec

\* The conditional updates of resolve and of expire_stale_pending: a resolver
\* and a timeout pass that race leave one verdict, and every event about the
\* approval or the hold tells the verdict of its row.
THEOREM OneVerdictIsTold == Spec => []OneVerdict
<1>1. VerdictInv => OneVerdict
  BY DEF VerdictInv
<1> QED BY <1>1, VerdictsAlways, PTL

\* mint_capability: whatever happens between the checks and the insert, a
\* capability exists only on an Allow, a granted approval or an allowed hold.
THEOREM MintsAreBacked == Spec => []MintIsBacked
<1>1. VerdictInv => MintIsBacked
  BY DEF VerdictInv
<1> QED BY <1>1, VerdictsAlways, PTL

\* authorize_execution: an execution of a lease that names an approval exists
\* only while that approval is granted, and the grant is never taken back.
THEOREM SpendsWithApproval == Spec => []SpentWithApproval
<1>1. VerdictInv => SpentWithApproval
  BY DEF VerdictInv, SpentOnGrant, GrantStands, SpentWithApproval
<1> QED BY <1>1, VerdictsAlways, PTL

\* validate_approval_binding: a lease that asks for an approver role is spent
\* on a hardened approval only if the authenticated grant is in provenance.
THEOREM SpendsOnProvenRole == Spec => []RoleIsProven
<1>1. VerdictInv => RoleIsProven
  BY DEF VerdictInv, SpentOnGrant, GrantStands, RoleIsProven
<1> QED BY <1>1, VerdictsAlways, PTL

------------------------------------------------------------------------------
(* Timeouts *)

\* A timeout pass has selected the row and not yet updated it.
Selected(s, o) == req[s].op = "sweep" /\ req[s].pc = "loaded" /\ req[s].o = o

\* No approval and no hold is timed out before its time.  The SELECT of
\* expire_stale_pending tests the time and the UPDATE only the state.
ExpiredIsStale == \A o \in Object : row[o] = "Expired" => Stale(o)

\* A row whose time has come can be selected by every later pass until somebody
\* answers it: PendingEnds needs no more of a pass than that it comes.
StaleStays ==
  [][\A o \in Object : row[o] = "Pending" /\ Stale(o) => row'[o] # "Pending" \/ Stale(o)']_vars

TimeoutInv ==
  /\ ExpiredIsStale
  /\ \A s \in Slot, o \in Object : Selected(s, o) => row[o] # None /\ Stale(o)

\* What a step may do to the time and the state of a row.
TimeoutStep ==
  /\ now <= now'
  /\ row["hold"] # None => holdExpires' = holdExpires
  /\ \A o \in Object :
       /\ row[o] # None => row'[o] # None
       /\ row'[o] = "Expired" => row[o] = "Expired" \/ \E s \in Slot : Selected(s, o)
  /\ \A s \in Slot, o \in Object :
       Selected(s, o)' => Selected(s, o) \/ (row[o] = "Pending" /\ Stale(o))

\* A row that exists and is stale stays stale.
LEMMA StaleForEver ==
  ASSUME TypeInv, TypeInv', TimeoutStep, NEW o \in Object, row[o] # None, Stale(o)
  PROVE  Stale(o)'
<1>1. now \in Nat /\ now' \in Nat /\ now <= now' /\ ApprovalExpires \in Nat
      /\ ApprovalTimeout \in Nat /\ holdExpires \in Nat
  BY Constants, TimeAssumption DEF TypeInv, TypeOK, TimeoutStep
<1>2. CASE o = "approval"
  BY <1>1, <1>2 DEF Stale, ExpiresAt
<1>3. CASE o = "hold"
  <2>1. holdExpires' = holdExpires
    BY <1>3 DEF TimeoutStep
  <2> QED BY <1>1, <1>3, <2>1 DEF Stale, ExpiresAt
<1> QED BY <1>2, <1>3 DEF Object

\* Requests that leave the rows and the clock alone, and select nothing.
LEMMA SelectsNothing ==
  ASSUME TypeInv, NEW s \in Slot, OthersWait(s), UNCHANGED <<now, row, holdExpires>>,
         \/ req'[s].op # "sweep"
         \/ req'[s].pc # "loaded"
  PROVE  TimeoutStep
<1>1. now \in Nat
  BY Constants DEF TypeInv, TypeOK
<1>2. \A u \in Slot, o \in Object : Selected(u, o)' => Selected(u, o)
  BY DEF Selected, OthersWait
<1> QED BY <1>1, <1>2 DEF TimeoutStep

\* The same for a request that ends, moves on or begins.
LEMMA MovesSelectNothing ==
  ASSUME TypeInv, NEW s \in Slot, UNCHANGED <<now, row, holdExpires>>,
         \/ Finish(s)
         \/ \E pc \in ProgramPoint \ {"loaded"} : Goto(s, pc)
         \/ \E r : r.op # "sweep" /\ Begin(s, r)
  PROVE  TimeoutStep
<1>1. CASE Finish(s)
  <2>1. OthersWait(s) /\ req'[s].op # "sweep"
    BY <1>1, FinishMoves
  <2> QED BY <2>1, SelectsNothing
<1>2. ASSUME NEW pc \in ProgramPoint, pc # "loaded", Goto(s, pc)
      PROVE  TimeoutStep
  <2>1. OthersWait(s) /\ req'[s].pc # "loaded"
    BY <1>2, GotoMoves
  <2> QED BY <2>1, SelectsNothing
<1>3. ASSUME NEW r, r.op # "sweep", Begin(s, r)
      PROVE  TimeoutStep
  <2>1. OthersWait(s) /\ req'[s].op # "sweep"
    BY <1>3, BeginSlot DEF OthersWait
  <2> QED BY <2>1, SelectsNothing
<1> QED BY <1>1, <1>2, <1>3

\* A row is written and its slot moves on.
LEMMA RowTimes ==
  ASSUME TypeInv, NEW s \in Slot, Goto(s, "written"), UNCHANGED <<now, holdExpires>>,
         NEW o \in Object, NEW a \in RowState, row' = [row EXCEPT ![o] = a],
         a = "Expired" => Selected(s, o)
  PROVE  TimeoutStep
<1>1. OthersWait(s) /\ req'[s].pc = "written" /\ now \in Nat
  BY GotoMoves, Constants DEF TypeInv, TypeOK
<1>2. \A u \in Slot, p \in Object : Selected(u, p)' => Selected(u, p)
  BY <1>1 DEF Selected, OthersWait
<1>3. row'[o] = a /\ \A p \in Object : p # o => row'[p] = row[p]
  BY DEF TypeInv, TypeOK
<1>4. ASSUME NEW p \in Object
      PROVE  /\ row[p] # None => row'[p] # None
             /\ row'[p] = "Expired" => row[p] = "Expired" \/ \E u \in Slot : Selected(u, p)
  BY <1>3 DEF RowState, None
<1> QED BY <1>1, <1>2, <1>4 DEF TimeoutStep

\* The hold gets its time when it is inserted, once.
LEMMA EvaluateTimes ==
  ASSUME TypeInv, VerdictInv, NEW h \in Handler, Evaluate(h)
  PROVE  TimeoutStep
<1>0. h \in Slot
  BY Constants
<1>1. ASSUME NEW d \in Policy, EvaluateInsert(h, d)
      PROVE  TimeoutStep
  <2>1. \E r : r.op # "sweep" /\ Begin(h, r)
    BY <1>1 DEF EvaluateInsert, Idle
  <2>2. UNCHANGED <<now, row, holdExpires>>
    BY <1>1 DEF EvaluateInsert, verdictVars
  <2> QED BY <1>0, <2>1, <2>2, MovesSelectNothing
<1>2. CASE EvaluateAppend(h) \/ CreatedAppend(h)
  <2>1. Finish(h) \/ Goto(h, "cleared")
    BY <1>2 DEF EvaluateAppend, CreatedAppend
  <2>2. UNCHANGED <<now, row, holdExpires>> /\ "cleared" \in ProgramPoint \ {"loaded"}
    BY <1>2 DEF EvaluateAppend, CreatedAppend, verdictVars, ProgramPoint
  <2> QED BY <1>0, <2>1, <2>2, MovesSelectNothing
<1>3. CASE EvaluateHold(h)
  <2>1. /\ req[h].op = "evaluate" /\ req[h].pc = "cleared" /\ now' = now
        /\ Goto(h, "written") /\ row' = [row EXCEPT !["hold"] = "Pending"]
    BY <1>3 DEF EvaluateHold, At
  <2>2. row["hold"] = None
    BY <1>0, <2>1 DEF VerdictInv, EvaluateInv
  <2>3. OthersWait(h) /\ req'[h].pc = "written" /\ now \in Nat
    BY <1>0, <2>1, GotoMoves, Constants DEF TypeInv, TypeOK
  <2>4. \A u \in Slot, p \in Object : Selected(u, p)' => Selected(u, p)
    BY <2>3 DEF Selected, OthersWait
  <2>5. row'["hold"] = "Pending" /\ \A p \in Object : p # "hold" => row'[p] = row[p]
    BY <2>1 DEF TypeInv, TypeOK, Object
  <2>6. \A p \in Object : /\ row[p] # None => row'[p] # None
                          /\ row'[p] = "Expired" => row[p] = "Expired"
    BY <2>2, <2>5 DEF None
  <2> QED BY <2>1, <2>2, <2>3, <2>4, <2>6 DEF TimeoutStep
<1> QED BY <1>1, <1>2, <1>3 DEF Evaluate

\* A resolver never times a row out.
LEMMA ResolveTimes ==
  ASSUME TypeInv, NEW h \in Handler, Resolve(h)
  PROVE  TimeoutStep
<1>0. h \in Slot
  BY Constants
<1>1. ASSUME NEW o \in Object, NEW v \in Answers(o), ResolveLoad(h, o, v)
      PROVE  TimeoutStep
  <2>1. \E r : r.op # "sweep" /\ Begin(h, r)
    BY <1>1 DEF ResolveLoad, Idle
  <2>2. UNCHANGED <<now, row, holdExpires>>
    BY <1>1 DEF ResolveLoad, verdictVars
  <2> QED BY <1>0, <2>1, <2>2, MovesSelectNothing
<1>2. CASE ResolveWrite(h)
  <2>1. PICK o, v : o = req[h].o /\ v = req[h].arg
    OBVIOUS
  <2>2. o \in Object /\ v \in Answers(o) /\ UNCHANGED <<now, holdExpires>>
    BY <1>0, <1>2, <2>1 DEF ResolveWrite, At, TypeInv, RequestsOK, RequestOK
  <2>3. StateOf(v) \in RowState /\ StateOf(v) # "Expired"
    BY <2>2 DEF Object, Answers, StateOf, RowState
  <2>4. CASE Goto(h, "written") /\ row' = [row EXCEPT ![o] = StateOf(v)]
    BY <1>0, <2>2, <2>3, <2>4, RowTimes
  <2>5. CASE Finish(h) /\ row' = row
    BY <1>0, <2>2, <2>5, MovesSelectNothing
  <2> QED BY <1>2, <2>1, <2>4, <2>5 DEF ResolveWrite
<1>3. CASE ResolveAudit(h) \/ ResolveAppend(h)
  <2>1. Finish(h) \/ Goto(h, "audited")
    BY <1>3 DEF ResolveAudit, ResolveAppend, AppendVerdict
  <2>2. UNCHANGED <<now, row, holdExpires>> /\ "audited" \in ProgramPoint \ {"loaded"}
    BY <1>3 DEF ResolveAudit, ResolveAppend, AppendVerdict, ProgramPoint
  <2> QED BY <1>0, <2>1, <2>2, MovesSelectNothing
<1> QED BY <1>1, <1>2, <1>3 DEF Resolve

\* A timeout pass selects a stale row, and times out only what it has selected.
LEMMA SweepTimes ==
  ASSUME TypeInv, NEW s \in Sweeper, Sweep(s)
  PROVE  TimeoutStep
<1>0. s \in Slot /\ now \in Nat
  BY Constants DEF TypeInv, TypeOK
<1>1. ASSUME NEW o \in Object, SweepSelect(s, o)
      PROVE  TimeoutStep
  <2>1. PICK r : r = [Idle EXCEPT !.pc = "loaded", !.op = "sweep", !.o = o]
    OBVIOUS
  <2>2. /\ r.o = o /\ Begin(s, r) /\ row[o] = "Pending" /\ Stale(o)
        /\ UNCHANGED <<now, row, holdExpires>>
    BY <1>1, <2>1 DEF SweepSelect, Idle, verdictVars
  <2>3. OthersWait(s) /\ req'[s].o = o
    BY <1>0, <2>2, BeginSlot DEF OthersWait
  <2>4. \A u \in Slot, p \in Object :
          Selected(u, p)' => Selected(u, p) \/ (row[p] = "Pending" /\ Stale(p))
    BY <2>2, <2>3 DEF Selected, OthersWait
  <2> QED BY <1>0, <2>2, <2>4 DEF TimeoutStep
<1>2. CASE SweepWrite(s)
  <2>1. PICK o : o = req[s].o
    OBVIOUS
  <2>2. o \in Object /\ UNCHANGED <<now, holdExpires>> /\ Selected(s, o)
    BY <1>0, <1>2, <2>1 DEF SweepWrite, At, TypeInv, RequestsOK, RequestOK, Selected
  <2>3. "Expired" \in RowState
    BY DEF RowState
  <2>4. CASE Goto(s, "written") /\ row' = [row EXCEPT ![o] = "Expired"]
    BY <1>0, <2>2, <2>3, <2>4, RowTimes
  <2>5. CASE Finish(s) /\ row' = row
    BY <1>0, <2>2, <2>5, MovesSelectNothing
  <2> QED BY <1>2, <2>1, <2>4, <2>5 DEF SweepWrite
<1>3. CASE SweepAppend(s)
  <2>1. Finish(s) /\ UNCHANGED <<now, row, holdExpires>>
    BY <1>3 DEF SweepAppend, AppendVerdict
  <2> QED BY <1>0, <2>1, MovesSelectNothing
<1> QED BY <1>1, <1>2, <1>3 DEF Sweep

\* Mints, authorizations and revocations leave the rows alone.
LEMMA LeaseTimes ==
  ASSUME TypeInv, NEW h \in Handler, Mint(h) \/ Authorize(h) \/ Revoke(h)
  PROVE  TimeoutStep
<1>0. h \in Slot /\ {"cleared", "written", "lost", "missed", "stale"} \subseteq
        ProgramPoint \ {"loaded"}
  BY Constants DEF ProgramPoint
<1>1. CASE Mint(h)
  <2>1. UNCHANGED <<now, row, holdExpires>>
    BY <1>1 DEF Mint, MintLoad, MintCheck, MintInsert, MintAppend, CapabilityAppend, verdictVars
  <2>2. ASSUME NEW b \in Ask, MintLoad(h, b)
        PROVE  TimeoutStep
    <3>1. \E r : r.op # "sweep" /\ Begin(h, r)
      BY <2>2 DEF MintLoad, Idle
    <3> QED BY <1>0, <2>1, <3>1, MovesSelectNothing
  <2>3. CASE MintCheck(h) \/ MintAppend(h)
    <3>1. Finish(h) \/ Goto(h, "cleared")
      BY <2>3 DEF MintCheck, MintAppend, CapabilityAppend
    <3> QED BY <1>0, <2>1, <3>1, MovesSelectNothing
  <2>4. ASSUME NEW c \in Capability, NEW ttl \in Ttl, MintInsert(h, c, ttl)
        PROVE  TimeoutStep
    <3>1. req' = [req EXCEPT ![h] = [req[h] EXCEPT !.pc = "written", !.c = c]]
      BY <1>0, <2>4 DEF MintInsert, TypeInv, TypeOK
    <3>2. req'[h] = [req[h] EXCEPT !.pc = "written", !.c = c] /\ OthersWait(h)
      BY <1>0, <3>1 DEF TypeInv, TypeOK, OthersWait
    <3>3. req[h] \in Request
      BY <1>0 DEF TypeInv, TypeOK
    <3>4. req'[h].pc # "loaded"
      BY <3>2, <3>3 DEF Request
    <3> QED BY <1>0, <2>1, <3>2, <3>4, SelectsNothing
  <2> QED BY <1>1, <2>2, <2>3, <2>4 DEF Mint
<1>2. CASE Authorize(h)
  <2>1. UNCHANGED <<now, row, holdExpires>>
    BY <1>2 DEF Authorize, AuthorizeLoad, AuthorizeCheck, AuthorizeCommit, verdictVars
  <2>2. ASSUME NEW c \in Capability, AuthorizeLoad(h, c)
        PROVE  TimeoutStep
    <3>1. \E r : r.op # "sweep" /\ Begin(h, r)
      BY <2>2 DEF AuthorizeLoad, Idle
    <3> QED BY <1>0, <2>1, <3>1, MovesSelectNothing
  <2>3. CASE AuthorizeCheck(h) \/ AuthorizeCommit(h)
    <3>1. Finish(h) \/ Goto(h, "cleared")
      BY <2>3 DEF AuthorizeCheck, AuthorizeCommit
    <3> QED BY <1>0, <2>1, <3>1, MovesSelectNothing
  <2> QED BY <1>2, <2>2, <2>3 DEF Authorize
<1>3. CASE Revoke(h)
  <2>1. UNCHANGED <<now, row, holdExpires>>
    BY <1>3 DEF Revoke, RevokeLoad, RevokeWrite, RevokeReload, RevokeFallback, RevokeOverwrite,
       RevokeAppend, CapabilityAppend, verdictVars
  <2>2. ASSUME NEW c \in Capability, RevokeLoad(h, c)
        PROVE  TimeoutStep
    <3>1. \E r : r.op # "sweep" /\ Begin(h, r)
      BY <2>2 DEF RevokeLoad, Idle
    <3> QED BY <1>0, <2>1, <3>1, MovesSelectNothing
  <2>3. CASE RevokeWrite(h) \/ RevokeReload(h) \/ RevokeFallback(h) \/ RevokeOverwrite(h)
             \/ RevokeAppend(h)
    <3>1. \/ Finish(h)
          \/ \E pc \in {"written", "lost", "missed", "stale"} : Goto(h, pc)
      BY <2>3 DEF RevokeWrite, RevokeReload, RevokeFallback, RevokeOverwrite, RevokeAppend,
         CapabilityAppend
    <3>2. Finish(h) \/ \E pc \in ProgramPoint \ {"loaded"} : Goto(h, pc)
      BY <1>0, <3>1
    <3> QED BY <1>0, <2>1, <3>2, MovesSelectNothing
  <2> QED BY <1>3, <2>2, <2>3 DEF Revoke
<1> QED BY <1>1, <1>2, <1>3

\* Every step of a typed state.
LEMMA StepTimes ==
  ASSUME TypeInv, TypeInv', VerdictInv, [Next]_vars
  PROVE  TimeoutStep
<1>1. CASE Tick \/ UNCHANGED vars
  <2>1. now' \in {now, now + 1} /\ UNCHANGED <<row, holdExpires, req>> /\ now \in Nat
    BY <1>1, Constants DEF Tick, vars, verdictVars, TypeInv, TypeOK
  <2> QED BY <2>1 DEF TimeoutStep, Selected
<1>2. ASSUME NEW h \in Handler,
             Evaluate(h) \/ Resolve(h) \/ Mint(h) \/ Authorize(h) \/ Revoke(h)
      PROVE  TimeoutStep
  BY <1>2, EvaluateTimes, ResolveTimes, LeaseTimes
<1>3. ASSUME NEW s \in Sweeper, Sweep(s)
      PROVE  TimeoutStep
  BY <1>3, SweepTimes
<1>4. ASSUME NEW s \in Slot, Stop(s)
      PROVE  TimeoutStep
  <2>1. Finish(s) /\ UNCHANGED <<now, row, holdExpires>>
    BY <1>4 DEF Stop, verdictVars
  <2> QED BY <1>4, <2>1, MovesSelectNothing
<1> QED BY <1>1, <1>2, <1>3, <1>4 DEF Next

\* What has been selected, and what has been timed out, is stale and stays so.
LEMMA TimeoutKept ==
  ASSUME TypeInv, TypeInv', VerdictInv, TimeoutInv, [Next]_vars
  PROVE  TimeoutInv'
<1>0. TimeoutStep
  BY StepTimes
<1>1. ASSUME NEW s \in Slot, NEW o \in Object, Selected(s, o)'
      PROVE  row'[o] # None /\ Stale(o)'
  <2>1. row[o] # None /\ Stale(o)
    BY <1>0, <1>1 DEF TimeoutStep, TimeoutInv, None
  <2> QED BY <1>0, <2>1, StaleForEver DEF TimeoutStep
<1>2. ASSUME NEW o \in Object, row'[o] = "Expired"
      PROVE  Stale(o)'
  <2>1. row[o] # None /\ Stale(o)
    BY <1>0, <1>2 DEF TimeoutStep, TimeoutInv, ExpiredIsStale, None
  <2> QED BY <1>0, <2>1, StaleForEver
<1> QED BY <1>1, <1>2 DEF TimeoutInv, ExpiredIsStale

\* expire_stale_pending: neither an approval nor a hold is timed out before its time,
\* although a pass selects rows in one statement and updates them in another.
THEOREM NothingExpiresEarly == Spec => []ExpiredIsStale
<1>1. Spec => []TypeInv
  BY InitTypes, StepTypes, PTL DEF Spec
<1>2. Init => TimeoutInv
  BY InputAssumption DEF Init, TimeoutInv, ExpiredIsStale, Selected, Idle, Object, None
<1>3. TypeInv /\ TypeInv' /\ VerdictInv /\ TimeoutInv /\ [Next]_vars => TimeoutInv'
  BY TimeoutKept
<1>4. TimeoutInv => ExpiredIsStale
  BY DEF TimeoutInv
<1> QED BY <1>1, <1>2, <1>3, <1>4, VerdictsAlways, PTL DEF Spec

\* expire_stale_pending: a row that waits beyond its time stays selectable, whatever
\* evaluations, resolvers and dying passes do, until it is answered.
THEOREM StaleStaysSelectable == Spec => StaleStays
<1>1. Spec => []TypeInv
  BY InitTypes, StepTypes, PTL DEF Spec
<1>2. ASSUME TypeInv, TypeInv', VerdictInv, [Next]_vars
      PROVE  \A o \in Object : row[o] = "Pending" /\ Stale(o) => row'[o] # "Pending" \/ Stale(o)'
  <2>1. TimeoutStep
    BY <1>2, StepTimes
  <2> QED BY <1>2, <2>1, StaleForEver DEF None
<1>3. TypeInv /\ TypeInv' /\ VerdictInv /\ [Next]_vars =>
        [\A o \in Object : row[o] = "Pending" /\ Stale(o) => row'[o] # "Pending" \/ Stale(o)']_vars
  BY <1>2
<1> QED BY <1>1, <1>3, VerdictsAlways, PTL DEF Spec, StaleStays

------------------------------------------------------------------------------
(* The abstract specification *)

\* The variables that GovernedLease sees.
seenVars == <<now, decision, row, status, expires, binding, executions>>

\* Whoever leaves these alone does nothing that can be seen from outside.
LEMMA NothingSeen ==
  ASSUME UNCHANGED seenVars
  PROVE  UNCHANGED Lease!vars
<1>1. UNCHANGED <<now, decision, row, status, expires, binding, executions>>
  BY DEF seenVars
<1>2. [c \in Capability |-> binding[c] # "Unbound"]'
        = [c \in Capability |-> binding[c] # "Unbound"]
  BY <1>1
<1> QED BY <1>1, <1>2 DEF Lease!vars

\* evaluate_proposal decides once, before anybody relies on the decision, and opens
\* the hold once.
LEMMA EvaluateSeen ==
  ASSUME TypeInv, TypeInv', VerdictInv, NEW h \in Handler, Evaluate(h)
  PROVE  [Lease!Next]_(Lease!vars)
<1>0. h \in Slot
  BY Constants
<1>1. CASE EvaluateAppend(h)
  <2>1. /\ req[h].op = "evaluate" /\ req[h].pc = "loaded" /\ decision' = req[h].arg
        /\ UNCHANGED <<now, verdictVars, capVars>>
    BY <1>1 DEF EvaluateAppend, At
  <2>2. decision = "None" /\ decision' \in Lease!Decision
    BY <1>0, <2>1 DEF VerdictInv, EvaluateInv, None, TypeInv, RequestsOK, RequestOK,
       Decision, Lease!Decision
  <2>3. Lease!Decide(decision')
    BY <2>1, <2>2 DEF Lease!Decide, Lease!leaseVars, verdictVars, capVars
  <2> QED BY <2>2, <2>3 DEF Lease!Next
<1>2. CASE EvaluateHold(h)
  <2>1. /\ req[h].op = "evaluate" /\ req[h].pc = "cleared"
        /\ row' = [row EXCEPT !["hold"] = "Pending"]
        /\ UNCHANGED <<now, decisionVars, capVars>>
    BY <1>2 DEF EvaluateHold, At
  <2>2. row["hold"] = "None"
    BY <1>0, <2>1 DEF VerdictInv, EvaluateInv, None
  <2>3. Lease!Pose("hold")
    BY <2>1, <2>2 DEF Lease!Pose, Lease!Move, Lease!leaseVars, decisionVars, capVars
  <2> QED BY <2>3 DEF Lease!Next
<1>3. CASE (\E d \in Policy : EvaluateInsert(h, d)) \/ CreatedAppend(h)
  <2>1. UNCHANGED seenVars
    BY <1>3 DEF EvaluateInsert, CreatedAppend, seenVars, decisionVars, verdictVars, capVars
  <2> QED BY <2>1, NothingSeen
<1> QED BY <1>1, <1>2, <1>3 DEF Evaluate

\* A row that still waits is answered.
LEMMA ReplySeen ==
  ASSUME NEW o \in Object, NEW a \in Settled, row[o] = "Pending",
         row' = [row EXCEPT ![o] = a], UNCHANGED <<now, decisionVars, capVars>>
  PROVE  Lease!Next
<1>1. Lease!Reply(o, a)
  BY DEF Lease!Reply, Lease!Move, Lease!leaseVars, decisionVars, capVars
<1>2. o \in {"approval", "hold"} /\ a \in Lease!Answer
  BY DEF Object, Settled, Lease!Answer
<1> QED BY <1>1, <1>2 DEF Lease!Next

\* A resolver answers a row that still waits for an answer, or does nothing.
LEMMA ResolveSeen ==
  ASSUME TypeInv, NEW h \in Handler, Resolve(h)
  PROVE  [Lease!Next]_(Lease!vars)
<1>0. h \in Slot
  BY Constants
<1>1. CASE ResolveWrite(h)
  <2> DEFINE o == req[h].o
             a == StateOf(req[h].arg)
  <2>1. req[h].op = "resolve" /\ UNCHANGED <<now, decisionVars, capVars>>
    BY <1>1 DEF ResolveWrite, At
  <2>2. o \in Object /\ req[h].arg \in Answers(o)
    BY <1>0, <2>1 DEF TypeInv, RequestsOK, RequestOK
  <2>3. a \in Settled
    BY <2>2, AnswersAreVerdicts, VerdictsSettle
  <2>4. CASE row[o] = "Pending" /\ row' = [row EXCEPT ![o] = a]
    <3> HIDE DEF o, a
    <3> QED BY <2>1, <2>2, <2>3, <2>4, ReplySeen
  <2>5. CASE row' = row
    <3>1. UNCHANGED seenVars
      BY <2>1, <2>5 DEF seenVars, decisionVars, capVars
    <3> QED BY <3>1, NothingSeen
  <2> QED BY <1>1, <2>4, <2>5 DEF ResolveWrite, Resolvable
<1>2. CASE \/ \E o \in Object : \E v \in Answers(o) : ResolveLoad(h, o, v)
           \/ ResolveAudit(h) \/ ResolveAppend(h)
  <2>1. UNCHANGED seenVars
    BY <1>2 DEF ResolveLoad, ResolveAudit, ResolveAppend, AppendVerdict, seenVars,
       decisionVars, verdictVars, capVars
  <2> QED BY <2>1, NothingSeen
<1> QED BY <1>1, <1>2 DEF Resolve

\* A timeout pass expires a row that still waits, or does nothing.
LEMMA SweepSeen ==
  ASSUME TypeInv, NEW s \in Sweeper, Sweep(s)
  PROVE  [Lease!Next]_(Lease!vars)
<1>0. s \in Slot
  BY Constants
<1>1. CASE SweepWrite(s)
  <2> DEFINE o == req[s].o
  <2>1. req[s].op = "sweep" /\ UNCHANGED <<now, decisionVars, capVars>>
    BY <1>1 DEF SweepWrite, At
  <2>2. o \in Object /\ "Expired" \in Settled
    BY <1>0, <2>1 DEF TypeInv, RequestsOK, RequestOK, Settled
  <2>3. CASE row[o] = "Pending" /\ row' = [row EXCEPT ![o] = "Expired"]
    <3> HIDE DEF o
    <3> QED BY <2>1, <2>2, <2>3, ReplySeen
  <2>4. CASE row' = row
    <3>1. UNCHANGED seenVars
      BY <2>1, <2>4 DEF seenVars, decisionVars, capVars
    <3> QED BY <3>1, NothingSeen
  <2> QED BY <1>1, <2>3, <2>4 DEF SweepWrite, Expirable
<1>2. CASE (\E o \in Object : SweepSelect(s, o)) \/ SweepAppend(s)
  <2>1. UNCHANGED seenVars
    BY <1>2 DEF SweepSelect, SweepAppend, AppendVerdict, seenVars, decisionVars,
       verdictVars, capVars
  <2> QED BY <2>1, NothingSeen
<1> QED BY <1>1, <1>2 DEF Sweep

\* A mint grants a free capability: the consent that its checks found still stands.
LEMMA MintSeen ==
  ASSUME TypeInv, TypeInv', VerdictInv, NEW h \in Handler, Mint(h)
  PROVE  [Lease!Next]_(Lease!vars)
<1>0. h \in Slot /\ now \in Nat
  BY Constants DEF TypeInv, TypeOK
<1>1. ASSUME NEW c \in Capability, NEW ttl \in Ttl, MintInsert(h, c, ttl)
      PROVE  Lease!Next
  <2>1. /\ req[h].op = "mint" /\ req[h].pc = "cleared" /\ status[c] = "None"
        /\ status' = [status EXCEPT ![c] = "Active"]
        /\ expires' = [expires EXCEPT ![c] = now + ttl]
        /\ binding' = [binding EXCEPT ![c] = req[h].arg]
        /\ UNCHANGED <<now, decision, row, executions>>
    BY <1>1 DEF MintInsert, At, None, decisionVars, verdictVars
  <2>2. Lease!Consent
    BY <1>0, <2>1 DEF VerdictInv, VerdictRequestsOK, VerdictRequestOK, Backed, Lease!Consent
  <2>3. expires' = [expires EXCEPT ![c] = expires'[c]] /\ expires'[c] >= now
    <3>1. expires \in [Capability -> Nat] /\ ttl \in Nat
      BY Constants DEF TypeInv, TypeOK
    <3>2. expires'[c] = now + ttl
      BY <2>1, <3>1
    <3> QED BY <1>0, <2>1, <3>1, <3>2
  <2> DEFINE B == [d \in Capability |-> binding[d] # "Unbound"]
  <2>4. B' = [B EXCEPT ![c] = B'[c]]
    <3>1. \A d \in Capability : d # c => binding'[d] = binding[d]
      BY <2>1 DEF TypeInv, TypeOK
    <3>2. \A d \in Capability : d # c => B'[d] = B[d]
      BY <3>1
    <3> QED BY <3>2
  <2>5. Lease!Grant(c)
    BY <2>1, <2>2, <2>3, <2>4 DEF Lease!Grant
  <2> QED BY <2>5 DEF Lease!Next
<1>2. CASE (\E b \in Ask : MintLoad(h, b)) \/ MintCheck(h) \/ MintAppend(h)
  <2>1. UNCHANGED seenVars
    BY <1>2 DEF MintLoad, MintCheck, MintAppend, CapabilityAppend, seenVars, decisionVars,
       verdictVars, capVars
  <2> QED BY <2>1, NothingSeen
<1> QED BY <1>1, <1>2 DEF Mint

\* An authorization spends an active lease in time, with the approval that the lease
\* names: what its checks found some awaits ago still stands.
LEMMA AuthorizeSeen ==
  ASSUME TypeInv, VerdictInv, NEW h \in Handler, Authorize(h)
  PROVE  [Lease!Next]_(Lease!vars)
<1>0. h \in Slot /\ now \in Nat
  BY Constants DEF TypeInv, TypeOK
<1>1. CASE AuthorizeCommit(h)
  <2>1. PICK c : c = req[h].c
    OBVIOUS
  <2>2. /\ req[h].op = "authorize" /\ req[h].pc = "cleared" /\ c \in Capability
        /\ UNCHANGED <<now, decisionVars, verdictVars, expires, binding>>
    BY <1>0, <1>1, <2>1 DEF AuthorizeCommit, At, TypeInv, RequestsOK, RequestOK
  <2>3. CASE Consumable(c)
    <3>1. /\ status' = [status EXCEPT ![c] = "Used"]
          /\ executions' = [executions EXCEPT ![c] = @ + 1]
          /\ status[c] = "Active" /\ expires[c] > now /\ expires[c] \in Nat
      BY <1>1, <2>1, <2>2, <2>3 DEF AuthorizeCommit, Consumable, TypeInv, TypeOK
    <3>2. binding[c] # "Unbound" => row["approval"] = "Granted"
      BY <1>0, <2>1, <2>2 DEF VerdictInv, VerdictRequestsOK, VerdictRequestOK, GrantStands
    <3>3. now < expires[c] /\ UNCHANGED <<decision, row>>
      BY <1>0, <2>2, <3>1 DEF decisionVars, verdictVars
    <3>4. [d \in Capability |-> binding[d] # "Unbound"][c] => row["approval"] = "Granted"
      BY <2>2, <3>2
    <3>5. [d \in Capability |-> binding[d] # "Unbound"]'
            = [d \in Capability |-> binding[d] # "Unbound"]
      BY <2>2
    <3>6. Lease!Spend(c)
      BY <2>2, <3>1, <3>3, <3>4, <3>5 DEF Lease!Spend
    <3> QED BY <2>2, <3>6 DEF Lease!Next
  <2>4. CASE ~Consumable(c)
    <3>1. UNCHANGED seenVars
      BY <1>1, <2>1, <2>2, <2>4 DEF AuthorizeCommit, seenVars, decisionVars, verdictVars
    <3> QED BY <3>1, NothingSeen
  <2> QED BY <2>3, <2>4
<1>2. CASE (\E c \in Capability : AuthorizeLoad(h, c)) \/ AuthorizeCheck(h)
  <2>1. UNCHANGED seenVars
    BY <1>2 DEF AuthorizeLoad, AuthorizeCheck, seenVars, decisionVars, verdictVars, capVars
  <2> QED BY <2>1, NothingSeen
<1> QED BY <1>1, <1>2 DEF Authorize

\* A lease that is neither free nor spent is withdrawn, or already was.
LEMMA WithdrawSeen ==
  ASSUME TypeInv, NEW c \in Capability, status[c] \in {"Active", "Revoked"},
         status' = [status EXCEPT ![c] = "Revoked"],
         UNCHANGED <<now, decision, row, expires, binding, executions>>
  PROVE  [Lease!Next]_(Lease!vars)
<1>1. CASE status[c] = "Active"
  <2>1. [d \in Capability |-> binding[d] # "Unbound"]'
          = [d \in Capability |-> binding[d] # "Unbound"]
    OBVIOUS
  <2>2. Lease!Withdraw(c)
    BY <1>1, <2>1 DEF Lease!Withdraw
  <2> QED BY <2>2 DEF Lease!Next
<1>2. CASE status[c] = "Revoked"
  <2>1. status' = status
    BY <1>2 DEF TypeInv, TypeOK
  <2>2. UNCHANGED seenVars
    BY <2>1 DEF seenVars
  <2> QED BY <2>2, NothingSeen
<1> QED BY <1>1, <1>2

\* A revocation withdraws an active lease, its unconditional write included.
LEMMA RevokeSeen ==
  ASSUME TypeInv, LeaseInv, NEW h \in Handler, Revoke(h)
  PROVE  [Lease!Next]_(Lease!vars)
<1>0. h \in Slot
  BY Constants
<1>r. LeaseRequestOK(req[h])
  BY <1>0 DEF LeaseInv, LeaseRequestsOK
<1>1. CASE RevokeWrite(h) \/ RevokeOverwrite(h)
  <2>1. PICK c : c = req[h].c
    OBVIOUS
  <2>2. /\ req[h].op = "revoke" /\ c \in Capability
        /\ UNCHANGED <<now, decision, row, expires, binding, executions>>
    BY <1>0, <1>1, <2>1 DEF RevokeWrite, RevokeOverwrite, At, TypeInv, RequestsOK, RequestOK,
       decisionVars, verdictVars
  <2>3. \/ status' = status
        \/ status' = [status EXCEPT ![c] = "Revoked"] /\ status[c] = "Active"
        \/ status' = [status EXCEPT ![c] = "Revoked"] /\ status[c] # "Used"
    BY <1>1, <1>r, <2>1 DEF RevokeWrite, RevokeOverwrite, RevokeIfActive, At, LeaseRequestOK
  <2>4. status[c] \in {"Active", "Used", "Revoked"}
    BY <1>r, <2>1, <2>2 DEF LeaseRequestOK, TypeInv, TypeOK, CapabilityStatus
  <2>5. CASE status' = status
    <3>1. UNCHANGED seenVars
      BY <2>2, <2>5 DEF seenVars
    <3> QED BY <3>1, NothingSeen
  <2>6. CASE status' = [status EXCEPT ![c] = "Revoked"] /\ status[c] # "Used"
    BY <2>2, <2>4, <2>6, WithdrawSeen
  <2> QED BY <2>3, <2>5, <2>6
<1>2. CASE \/ \E c \in Capability : RevokeLoad(h, c)
           \/ RevokeReload(h) \/ RevokeFallback(h) \/ RevokeAppend(h)
  <2>1. UNCHANGED seenVars
    BY <1>2 DEF RevokeLoad, RevokeReload, RevokeFallback, RevokeAppend, CapabilityAppend,
       seenVars, decisionVars, verdictVars, capVars
  <2> QED BY <2>1, NothingSeen
<1> QED BY <1>1, <1>2 DEF Revoke

\* Every step is a step of the abstract specification or none that it sees.
LEMMA StepSeen ==
  ASSUME TypeInv, TypeInv', LeaseInv, VerdictInv, [Next]_vars
  PROVE  [Lease!Next]_(Lease!vars)
<1>1. CASE Tick
  <2>1. now' = now + 1 /\ UNCHANGED <<decisionVars, verdictVars, capVars>>
    BY <1>1 DEF Tick
  <2>2. [c \in Capability |-> binding[c] # "Unbound"]'
          = [c \in Capability |-> binding[c] # "Unbound"]
    BY <2>1 DEF capVars
  <2>3. Lease!Pass
    BY <2>1, <2>2 DEF Lease!Pass, Lease!leaseVars, decisionVars, verdictVars, capVars
  <2> QED BY <2>3 DEF Lease!Next
<1>2. ASSUME NEW h \in Handler,
             Evaluate(h) \/ Resolve(h) \/ Mint(h) \/ Authorize(h) \/ Revoke(h)
      PROVE  [Lease!Next]_(Lease!vars)
  BY <1>2, EvaluateSeen, ResolveSeen, MintSeen, AuthorizeSeen, RevokeSeen
<1>3. ASSUME NEW s \in Sweeper, Sweep(s)
      PROVE  [Lease!Next]_(Lease!vars)
  BY <1>3, SweepSeen
<1>4. CASE (\E s \in Slot : Stop(s)) \/ UNCHANGED vars
  <2>1. UNCHANGED seenVars
    BY <1>4 DEF Stop, vars, seenVars, decisionVars, verdictVars, capVars
  <2> QED BY <2>1, NothingSeen
<1> QED BY <1>1, <1>2, <1>3, <1>4 DEF Next

\* Nothing is decided and nothing granted at first.
LEMMA InitSeen == Init => Lease!Init
<1> SUFFICES ASSUME Init PROVE Lease!Init
  OBVIOUS
<1>1. PICK a \in Approval : row = [o \in Object |-> IF o = "approval" THEN a ELSE None]
  BY DEF Init
<1>2. a \in {"None", "Pending", "Granted"}
  BY InputAssumption DEF None
<1>3. [c \in Capability |-> binding[c] # "Unbound"] = [c \in Capability |-> FALSE]
  BY DEF Init
<1> QED BY <1>1, <1>2, <1>3 DEF Init, Lease!Init, Object, None

\* The whole of Governance, for every number of handlers and timeout passes: what is
\* written from stale reads, in several awaits and by an unconditional update is a step
\* of GovernedLease on the rows as they are, or changes nothing that it sees.
THEOREM GovernanceImplementsLease == Spec => ImplementsGovernedLease
<1>1. Spec => []TypeInv
  BY InitTypes, StepTypes, PTL DEF Spec
<1>2. TypeInv /\ TypeInv' /\ LeaseInv /\ VerdictInv /\ [Next]_vars
        => [Lease!Next]_(Lease!vars)
  BY StepSeen
<1> QED
  BY <1>1, <1>2, InitSeen, LeaseAlways, VerdictsAlways, PTL
  DEF Spec, ImplementsGovernedLease, Lease!Spec
==============================================================================
