# FerrumGate: TLA+ models and proofs

FerrumGate puts a gateway between an agent and its tools. An agent submits an
intent; the policy engine evaluates a proposal; a human may have to grant an
approval or release a quarantine hold; a single-use capability is minted and
spent on one *execution*. An execution is prepared (a rollback contract is
written), executed through an adapter (file system, git, HTTP, SQLite, S3, GCS,
mail drafts), verified, and then committed, compensated or canceled. Every move
is recorded as provenance.

Rows are shared by the handlers of one or more gateway processes and by
background loops. A handler is a sequence of awaits: it reads a row, reads
another, calls an adapter, writes a transaction and appends events, and any other
handler or loop may run between two of these; a process may also die there. The
modules in this directory model that, one step per await, and ask what can still
be relied on.

Contents: [Inventory](#inventory) · [Modules](#modules) · [Runs](#runs) ·
[Fairness](#fairness) · [Proofs](#proofs) · [What the code does otherwise](#what-the-code-does-otherwise) ·
[Not modelled](#not-modelled) · [Plan](#plan)

## Inventory

Paths are relative to `crates/` of the repository.

| Component | State it keeps | Operations | Hard behaviour | What makes it correct |
|---|---|---|---|---|
| Execution handlers (`ferrum-gateway/src/execution`) | execution row, rollback-contract row, outbox record, provenance log | authorize, prepare, execute, verify, commit, cancel, compensate | several awaits per handler; rows read by two queries and used later; the adapter is called outside any transaction | one effect at most, none after a cancel, rows that agree, no effect without lineage, no lost debt of provenance |
| HA reconciler (`ha_reconciler.rs`) | none of its own | sweep stale executions | races live handlers; no leader election | a dead handler's execution is moved on, a live one's rows stay legal |
| Lifecycle outbox (`ferrum-store/src/sqlite/lifecycle_outbox.rs`) | records with obligations, lease owner, generation, expiry, attempts | record, mark written, mark reconciled, claim, renew, fail, reset, resolve | lease expiry, fencing, read-modify-write of unclaimed records | a closed record owes nothing; a named event exists |
| Lifecycle reconciler (`ferrum-store/src/reconciliation.rs`) | claims of one pass | reconcile a record, repair an event | races the handler that still owes the event, and other passes | one repair, with its causal parent; every record settles |
| Proposal evaluation (`proposals.rs`) | proposal row, PolicyEvaluated event, hold row | evaluate | several writes without a transaction | no capability without the decision and the hold it asks for |
| Approvals and quarantine (`approval.rs`, `quarantine.rs`) | approval and hold rows, resolver evidence, provenance | resolve | resolution races the timeout loops; audit after the write | one verdict, and provenance that tells the same |
| Timeout reconcilers (`timeout_reconciler.rs`) | none of their own | expire stale rows | select and update are two steps | a pending row ends; a verdict stays |
| Capabilities (`capabilities.rs`, `sqlite/capabilities.rs`) | capability rows | mint, authorize, revoke | single use under concurrent requests; the boundary instant of the lease; an unconditional fallback write | one execution per capability, in time, and none once revoked |
| Rollback service and adapters (`ferrum-rollback`, `ferrum-adapter-*`) | the target systems, snapshots, receipts in the contract | prepare, execute, verify, compensate | failure half-way in the outside world, repetition, lost receipts and snapshots, other users of the target | what is reported recovered is restored; recovery stays possible; a mutation is applied once |
| Write queue (`sqlite/write_queue.rs`) | bounded channel, depth counter | send, fire and forget, drain | back-pressure, dropped and abandoned calls, shutdown | answers are true, accepted writes are drained, nobody waits for ever |
| Audit log, Merkle roots, WORM sink (`audit_log.rs`, `audit_merkle_root.rs`, `worm_sink.rs`) | hash-chained entries, cached roots, checkpoints, the sink's cursor | append, ask for a root, seal, ship, export, verify | reads and writes in separate statements; upload of two objects; restarts | an unbroken chain, one root per window, an archive without gaps |
| MFA (`mfa.rs`, `admin/mfa.rs`) | factors, attempts, lockouts, last used time step | enrol, verify, rotate, revoke, break glass | concurrent use of one code, guesses in parallel | a code counts once, one active factor, bounded guessing |
| Tokens and agents (`admin/tokens.rs`, `admin/agents.rs`) | credentials with scopes | issue, rotate, revoke | calls that work on a credential read earlier; an ignored error | authority only shrinks; rotation replaces |
| Signed requests (`auth.rs`, `nonce_cache.rs`) | nonces with the time they were seen | verify | clock skew, two clocks, pruning by age and capacity, restart | a request is accepted twice only if its nonce was lost or the ttl is too short |
| Policy decision (`ferrum-pdp`) | none | evaluate, simulate | priorities, several bundles, two engines | the decision the rules mean; the built-in rules where they are consulted |
| Policy bundles (`policy.rs`, `sqlite/policy_bundles.rs`) | bundle row and version rows | create, update, activate, roll back, delete | statements of several operators interleave | what is in force was approved; history is never rewritten |
| MCP sessions (`ferrum-integrations-mcp`) | event buffer per session | post, replay, delete, clean up | ids drawn outside the lock, two kinds of eviction | no silent gap for a client that reconnects |
| Limiters and profiler (`behavioral.rs`, `ferrum-mcp-server.rs`) | buckets, windows | check, inspect, clean up | the clock is read before the lock is taken; limits and clean-up forget entries | never over the rate, no cluster missed |
| Provenance and lineage (`provenance.rs`) | append-only events and edges | append, query, validate | causal parents must exist | every event has its cause |
| `ferrum-migrate` | checkpoints in the target | migrate, resume | interruption; a source that is written to | success means that nothing is missing or stale |
| Sync, ledger, firewall, in-memory capability service, clients | see [Not modelled](#not-modelled) | | | |

`PROJECT.json` lists every component with its source files, and under `hazards`
what is hard to test in them, line by line.

## Modules

| Module | Models | Composition |
|---|---|---|
| `Transitions` | the states and the two matrices of `ferrum-store/src/transitions.rs` | used by `ExecutionLifecycle` |
| `GovernedEffect` | the abstract specification: what the lifecycle promises, without rows, requests or events | implemented by `ExecutionLifecycle` |
| `GovernedLease` | the abstract specification of governance: one decision, one answer to each question, leases granted with consent and spent once | implemented by `Governance` |
| `ExecutionLifecycle` | the seven handlers, `record_lifecycle_transition`, the HA reconciler | handlers, HA loops, store and adapter in one state |
| `LifecycleOutbox` | one outbox record after its transaction: handler, reconciler passes, operators | takes up where `ExecutionLifecycle` leaves a record open |
| `Governance` | evaluation, approval, hold, timeout loops, capabilities | ends with the transaction that `ExecutionLifecycle` begins with (`Authorize`) |
| `RollbackService`, over `AdapterTypes`, `FsAdapter`, `GitAdapter`, `SqliteAdapter`, `HttpAdapter`, `S3Adapter`, `GcsAdapter`, `MailDraftAdapter` | the life of one contract in the hands of its adapter | the world behind the adapter steps of `ExecutionLifecycle`, which takes any of their answers, true or not |
| `WriteQueue` | the SQLite store's writer task and its callers | what one queued write of the other modules consists of |
| `AuditTrail` | the chain, roots, checkpoints, the sink's archive and the export | one log, with everything that reads it |
| `Mfa`, `Access`, `AgentAuth`, `Pdp`, `PolicyBundles`, `McpSession`, `Limits`, `Migration` | one part each | put side by side by `ControlPlane` |
| `ExecutionLifecycleProofs`, `LifecycleOutboxProofs`, `GovernanceProofs`, `RollbackServiceProofs`, `WriteQueueProofs`, `AuditTrailProofs` | theorems | extend the module they are about |
| `ControlPlaneProofs` (`Mfa`, `Access`, `AgentAuth`, `PolicyBundles`, `Migration`), `EdgeProofs` (`McpSession`, `Limits`, `Pdp`) | theorems | extend `ControlPlane` |
| `MC*` | instances: symmetry sets, records, deployments, bundles | extend the module they check |

`PROJECT.json` maps every definition to its source lines. Definitions that begin
with the comment "Mutant:" are faults of a plausible kind that each property is
shown to detect; nothing else uses them.

Properties that say the same of several pieces of state are conjunctions of named
parts: `OutcomeMatchesEffect` is `CommittedApplied /\ CompensatedUndone`,
`DebtsRecorded` is `ReconciledIsWritten /\ StateHasRecord /\ ListsAreComplete`, and so on. A run checks
the conjunction; the mutants break different parts of it.

### ExecutionLifecycle

Variables are columns: `execState`, `linked` (`executions.rollback_contract_id`),
`contractState`, `autoCommit`, `outbox` and `events`; `effect`, `executeCalls`,
`compensateCalled` and `misreported` (an adapter's answer was untrue) are the outside
world. `req[r]` is a handler's stack frame:
program point, the values it read, the events it owes and the key of the record it
must close.

* `LoadExecution` and `LoadContract` are the two reads with the handler's checks.
  A check that fails ends the request, which is no step; so are requests refused by
  scope, owner, draft-only or payload checks.
* `ExecuteClaim` is the conditional update to Running after the lineage check;
  `ExecuteAdapter`, `VerifyAdapter` and `CompensateAdapter` are adapter calls with
  every outcome the handlers tell apart. Whatever `execute` answers, it may have taken
  effect or not, and whatever `compensate` answers, the effect may still be there: the
  adapters do report recoveries that are none (`KnownGap`, below). `misreported` notes
  it, so that the lifecycle's own share can be told apart.
* `RecordTransition` is `record_lifecycle_transition`: validation by the matrices, the
  conditional updates (or the insert of the contract) and the insert of the outbox
  record under its unique idempotency key, all or nothing.
* `Emit` appends the next owed event, if its causal parent exists, and `MarkObligation`
  marks it, one after the other for each event: with the first mark the record is
  `ProvenanceWritten`, whatever else it owes. `CloseOutbox` is `mark_reconciled`, which
  refuses while an obligation is open. The recovery branch of verify stops after its
  mark.
* `HACancel` and `HARecover` are the two dispositions of the HA sweep. Staleness is
  counted from the time of authorization, so a sweep may meet a live handler at any
  point; the model lets it.
* `Abort` ends a request between any two steps: a crash, a dropped connection or a
  store error.

### LifecycleOutbox

One record with its ordered obligations. `rec` is the public record, `lease` the
lease columns, `own` and `repairs` the provenance log. The handler reads the record,
changes its copy and writes it back while no owner is set; an operator does the
same and overrides any lease; a pass writes only while it holds its lease
(`Holds`). Each pass has an owner name of its own and works on a record once, so
the owner stands for the generation too. `Parent` says where the causal parent of
each obligation comes from: another obligation of the record, an event that is
there, one that may still arrive, or none. `Tagged` says whether the handler's
events carry `lifecycle_outbox_id`, by which `discover_matching_event` looks for
them: those of cancel and compensate do not.

### Governance

One proposal (its primary key lets one evaluation through), its approval, its hold
and any number of capabilities. The approval is inserted by whoever integrates the
gateway, never by a handler, so it is part of `Init`. `ferrumd` builds
`StoreCapabilityService` (`bins/ferrumd/src/main.rs:342`), so a capability has one
copy, its row.

Two clocks matter and are kept apart. The conditional update of an approval compares
`expires_at` with the time its handler read before the write was queued
(`ResolveLoad` stores it in `t`); the update that spends a capability reads the time
at the database boundary (`lifecycle_outbox.rs:192-195`), so `Consumable` uses `now`.
Reads accept the instant of expiry, conditional updates do not. At that instant a
revocation loses its update, finds the row revocable when it reads it again, answers
`NotFound`, and the handler's fallback writes the whole row unconditionally:
`RevokeReload`, `RevokeFallback` and `RevokeOverwrite`.

Digest, owner and MFA checks are requests that are refused, which is no step. In
`evaluate_proposal` the audit entry comes before the event; a refusal there is a
`Stop` at "loaded".

`GovernedLease` is what is left when requests, passes, events and copies of rows are
taken away. Its answers are final, a capability is granted only with the consent that
the decision asks for (`Consent`), and spending asks for the lifetime and for the
approval that the lease names. The mapping is the rows themselves: `clock` is `now`,
`answer` is `row`, `lease` the state of each capability.

### Rollback service and adapters

An adapter is four operators: a world and the metadata of the contract go in, the
set of possible results comes out (`AdapterTypes`: a world, an answer, metadata).
A call that can fail half-way has a result for each point at which it can, with
what it already did left in the world. A check and the act that it guards are not one
moment: such operators take the world of the check and the world of the act, and
`Interrupted` lets others change the target in between. The worlds are as small as the
undo logic allows: for files a source, a destination with its directory, a snapshot, and
whether each path is in the workdir; five references, a dirty flag and the request's
`before_ref` for git; versions of one key for S3; rows, a table and what is beside it
(indexes, views, triggers) for SQLite; for HTTP a server that carries out, refuses or
repeats a request, and that may take a check of prepare or verify for a mutation.

`RollbackService` drives one contract through prepare, execute, verify and repeated
compensation. In between, others change the target (`MaxMeddles`), the temporary
directory with the snapshots is cleaned, the receipt of execute is lost (the contract
is then "ambiguous", and compensated without it), and a second prepare that read the
execution earlier reaches the adapter. The reports that are known to be wrong are
listed in one definition, `KnownGap`, and described below.

### WriteQueue and AuditTrail

`WriteQueue` has the caller's steps (count, send, wait) and the writer's (receive,
execute, settle the count, drain, announce, exit). A caller may be abandoned while it
waits, and a fire-and-forget call finds the queue full.

In `AuditTrail` an append reads the clock, then the tip, then inserts; on PostgreSQL
the id is drawn before the row commits, so rows may commit out of order. `overlapped`
records whether two appends were ever under way together: then the chain may fork,
and this is what the code does. The sink lists a batch behind its cursor, uploads the
body and then the manifest; any upload may fail and a restart forgets the cursor.

### The parts of ControlPlane

`ControlPlane` declares that its parts share no state. A behaviour of the whole is an
interleaving of behaviours of the parts, and each property is about one part, so it
holds of the whole if it holds of that part while the others stand still. `part`,
chosen at the start, says which one moves; the states of the parts then add up
instead of multiplying.

* `Mfa`: requests of one or two callers at enrolment, verification, rotation and
  break-glass, one step per repository call. The code of a time step is the step.
* `Access`: administrators act on credentials that the middleware looked up earlier.
  `raced` marks lines of rotation on which two calls worked at once or a revocation
  failed; there two live tokens may remain.
* `AgentAuth`: the window of timestamps is checked against the wall clock, which may be
  set, and the nonce later against the monotonic clock. The cache prunes by age, with the
  configured ttl or the derived one, and by capacity, and restarts empty it.
* `Pdp`: every context against every bundle of up to two rules over some matchers and
  against the shipped bundle, by each engine and mode; `BundleMeaning` is the
  reference definition.
* `PolicyBundles`: each statement of the five handlers is a step.
* `McpSession`: concurrent posts draw ids, push, and evict; a client replays from any
  id it saw.
* `Limits`: token buckets and the profiler. Each call takes a reading of the clock, then
  the lock: calls come with any reading up to the present one, in any order. `slips`
  notes the calls whose reading is older than the bucket's, and the buckets that were
  forgotten before they had filled up.
* `Migration`: a table is the sequence of its rows in storage order, which is what
  LIMIT and OFFSET walk; the tool may stop anywhere and be resumed, and the gateway
  inserts, updates and deletes meanwhile.

## Runs

| Run | Asks | Bounds, and why they are enough |
|---|---|---|
| `lifecycle` | paired rows, one effect, none after a cancel, a linked contract, lineage before effect, outcomes that match the effect, debts recorded, answers that stay recordable; and that all of it implements `GovernedEffect` | One execution, two handlers, one HA worker. Executions share no row. Every race of the code is between two actors on one execution; a slot that finishes or aborts takes the next request, so two slots give every sequence of requests with any two overlapping, and the HA worker is a third actor. A handler may die anywhere as long as no more than `MaxOpen` = 1 record, its own included, is left unfinished: every record is left open at every point of its events, though not two at once |
| `ha_running_resolves` | an execution left Running is moved on | One handler, one fair HA worker |
| `outbox` | marks are proven, repairs are sound, once its handler is gone only an operator takes a record out of review | The records of a prepare, a compensation and a failed compensation. Two passes overlap only when one loses its lease, so one stall gives the overlap; one crash; `MAX_RECONCILIATION_ATTEMPTS` at its real value 3; one order of an operator, on a copy that may be stale when written |
| `outbox_settles` | every open record is reconciled or put before an operator | Two fair passes, one stall, one crash |
| `governance_lease` | a capability buys one execution in time, or is revoked and buys none | Two leases of length 0, 1 or 2 and three handlers on a clock of four instants: before, at and after each expiry |
| `governance_approval` | verdicts are final and told once, role-bound leases need evidence; and that governance implements `GovernedLease` | Two handlers and two timeout passes on one approval that turns stale by age after 1 and expires at 2, pending at first or granted before evidence was kept |
| `governance_timeout` | no capability without its hold; a pending row ends | One handler, one fair pass; the approval expires past the horizon and must end by its age |
| `adapters` | reported recovery is real and stays possible, replays apply once | Every action of seven adapters. Two changes by others, also between a check and its act, and two compensations: a first that stops half-way and a second that finishes |
| `write_queue` | writes are accounted for; nothing hangs | Three calls on a queue of two: it is full, and one call finds it so while another is executed |
| `audit_trail` | chain, roots and archive hold; everything is archived | Three rows, one of them possibly without hash, two appenders, two auditors, a window that closes, batches of two, one restart, both backends. Sink and auditors only read the log and are checked side by side |
| `control_plane` | the eight parts | See `ControlPlane.cfg`: one caller with six requests or two with three; two administrators and four credentials; a nonce cache of two entries, a derived ttl of 2 and configured ones of 1 and 3 around the window of 2, and a wall clock that may be set back by 1; two operators and four edits; two posts and buffers of two events; bursts of 1 and 3, of which the idle timeout refills one and not the other, four requests and five proposals on a clock of four instants; a migration of two tables in chunks of two, run twice, with two writes |
| `audit_export` | an exported bundle verifies (it does not) | the same instance as `audit_trail` |

Named bounds of the models (`MaxStalls`, `MaxDeaths`, `MaxMeddles`, `MaxNow`,
`MaxWrites`, ...) are read by the bounded action only, apart from the horizon in
`PendingEnds`, which speaks of rows whose time comes before the clock stops.
`MaxAttempts`, `Capacity`, `Batch`, `MaxEntries`, `MaxEvents` and the limits of the
profiler are the system's own and are set small, so that they are reached.

Deadlock is not checked: a terminal execution, a reconciled record, a clock at its
horizon, a store that is shut down and a contract that is compensated are legitimate
ends.

Some properties are weaker than one might expect, and on purpose:

* `ContractLinked` excepts canceled executions. A cancel writes back the execution
  it read, and so erases the pointer of a prepare that committed in between.
* `CommittedApplied` excepts executions that someone asked to compensate.
  `compensate` calls the adapter before its conditional update, so it can undo the
  effect of an execution that a racing verify commits.
* `CompensatedUndone` excepts executions the HA reconciler took over, since the
  handler it took them from may still be calling the adapter. Both except executions
  about which an adapter's answer was untrue (`misreported`).
* `StateHasRecord` excepts cancellations, since the HA reconciler's has no record.
* `RepairedOnce` is about passes whose lease is never lost, and about kinds whose
  discovery is unambiguous. Provenance writes are not fenced: a pass that stalls
  between renewing its lease and appending can repeat a repair, and a handler that
  appends its event while a pass repairs it writes it a second time.
* `ChainHolds` and `BundlesVerify` except overlapping appends, which fork the chain.
* `NothingSkipped` and `EverythingArchived` are about SQLite. On PostgreSQL a row
  with a smaller id may commit after the cursor has passed it.
* `OnlyTheNewestIsLeft` excepts lines on which two calls worked at once or a revocation
  failed (`rotate_token` carries on, `admin/tokens.rs:381`), and `HistoryMatches` edits
  that overlapped or broke off. An activation that writes back a bundle read earlier
  undoes the edit in between and sets the active flag of whatever version is newest then.
* `ReplayNeedsLoss` lets a second copy pass when the ttl was over between the two nonce
  checks and its timestamp was still in the window: with a configured ttl that is no
  longer than the window, with the derived one at the two ends of the window, and when
  the copy waited between its two checks, or the clock was set, for the difference.
* `NeverOverRate` excepts the stretches in which a call of the client was overtaken by
  one with a later reading, so that an interval is refilled twice, and, where the idle
  timeout refills less than the burst, those in which its bucket was forgotten early.
  `FindingIsRight` excepts principals that were dropped at the limit and windows in
  which a proposal overtook another.
* `InvariantRulesHold` speaks of the decisions in which the built-in rules are consulted:
  not of a bundle's decision in the modes `Bundles` and `Dual`.
* `AppliedOnce` counts what execution and replays do under their key, not what a server
  makes of the checks of prepare and verify, which carry none.
* Grants are final and told once, but may come late: `GovernedLease` lets an answer come
  after the expiry, as `resolve_approval` does. `WritesAccounted` says nothing of
  fire-and-forget calls, which a full queue drops.
* `ReplayIsComplete` excepts sessions in which a push overtook another: its event is
  then behind what the client has seen.
* `MigrationHolds` lets a table that lost rows during the run miss others: each
  deletion shifts the offset by one row, and an insertion makes the count right again.
* `RecoveredIsRestored` excepts `KnownGap`.

## Fairness

* Handlers have none: the client may be gone.
* HA reconciler: `ha_reconciler.rs:280-298` loops while the process lives and visits
  the stale executions one by one. Its steps are strongly fair because a pass may
  fail at a step and be cut short, though not at the same step for ever.
* Lifecycle reconciler: `bins/ferrumd/src/main.rs:346-391` runs passes on an
  interval. Weak fairness of each pass's own steps suffices, because crashes and
  stalls are bounded and giving up counts as an attempt. `Expire` is weakly fair:
  time passes.
* Timeout reconcilers: `timeout_reconciler.rs:113-132`. Some loop is alive; its
  select and update are strongly fair since a pass may fail, though not for ever.

* Write queue: the runtime polls the writer task and every future that is ready. A
  send that waits for room is strongly fair, since the channel serves senders in turn;
  giving up is not fair.
* WORM sink: `worm_sink.rs` runs a cycle on an interval. Listing is weakly fair; the
  uploads are strongly fair, as a cycle may fail at either, though not for ever.

The parts of `ControlPlane` are checked for safety only: their clients may be gone.

## Proofs

Every safety property that a run checks, every action property and the refinements of
`GovernedEffect` and `GovernedLease` are theorems: for all sets of executions, requests,
workers, callers and rows, and for every bound. So is, of each liveness property, the
part that is safety: that whoever waits faces somebody who can move, and that what was
achieved is not undone. What remains with TLC is named at the end.

| Module | Theorem | Property | Rests on |
|---|---|---|---|
| `ExecutionLifecycleProofs` | `TypeSafety`, `MovesAlongMatrix` | | `RequestsOK` |
| | `ExecutesOnce`, `CancelIsClean`, `LineageBeforeEffect` | `ExecutedAtMostOnce`, `CanceledNeverExecuted`, `EffectHasLineage` | `ClaimInv` |
| | `RowsStayPaired`, `ContractMovesAlongMatrix` | `StatesPaired` | `PairInv` |
| | `AtMostOneContract`, `ContractStaysLinked` | `ContractLinked` | `ContractInv` |
| | `OutcomesAreTrue` | `OutcomeMatchesEffect` | `WorldInv` |
| | `LifecycleImplementsEffect` | `ImplementsGovernedEffect` | `WorldInv`, `ClaimInv`, `PairInv` |
| | `AnswersAreNeverLockedOut` | `AnswersStayRecordable` | `AnswerInv` |
| | `SweepsAreNeverLockedOut` | (half of `RunningResolves`) | `PairInv`, `ContractInv`, `AnswerInv` |
| | `DebtsAreKept` | `DebtsRecorded` | `DebtInv` |
| `LifecycleOutboxProofs` | `TypeSafety` | | types |
| | `MarksProven` | `MarksAreProven` | `MarkInv`, `CloseInv` |
| | `ReviewIsFinal` | `ReviewNeedsOperator` | `LeaseInv` |
| | `PassesOnlyAdd` | (half of `Settles`) | `LeaseInv`, `MarkInv` |
| | `RepairsSound` | `RepairsAreSound` | `LeaseInv`, `RepairInv` |
| `GovernanceProofs` | `TypeSafety` | | `TypeInv` |
| | `SpendsOnce`, `SpendsInTime`, `RevocationIsFinal` | `SpentOnce`, `SpentInTime`, `RevocationHolds` | `LeaseInv` |
| | `OneVerdictIsTold`, `MintsAreBacked`, `SpendsWithApproval`, `SpendsOnProvenRole` | `OneVerdict`, `MintIsBacked`, (`SpentWithApproval`), `RoleIsProven` | `VerdictInv` |
| | `GovernanceImplementsLease` | `ImplementsGovernedLease` | `LeaseInv`, `VerdictInv` |
| | `NothingExpiresEarly`, `StaleStaysSelectable` | (half of `PendingEnds`) | `VerdictInv`, `TimeoutInv` |
| `RollbackServiceProofs` | `RecoveryCanBeReliedUpon` | `RecoveryIsSound` | `ServiceInv` and an invariant per adapter |
| | `MutationsApplyOnce` | `AppliedOnce` | the same, of its adapter |
| `WriteQueueProofs` | `AccountsForWrites` | `WritesAccounted` | `QueueInv` |
| | `NobodyGetsStuck`, `WritesStayInOrder` | (half of `NothingHangs`) | `QueueInv`, `WriterInv` |
| `AuditTrailProofs` | `TypeSafety` | | `TypeInv` |
| | `ChainIsSound` | `ChainHolds` | `ChainInv` |
| | `RootsAreSound` | `RootsHold` | `RootInv` |
| | `ArchiveIsSound` | `ArchiveHolds` | `ChainInv`, `ArchiveInv` |
| | `SinkAlwaysGetsOn` | (half of `EverythingArchived`) | `ArchiveInv` |
| | `EvidenceIsAppendOnly` | | `TypeInv` |
| `ControlPlaneProofs` | `ReplaysNeedLoss` | `ReplayNeedsLoss` | `AuthInv` |
| | `BundlesGoverned` | `BundlesAreGoverned` | `PolicyInv` |
| | `AuthorityIsBounded` | `AuthorityHolds` | `AccessInv` |
| | `SecondFactorsHold` | `SecondFactorHolds` | `MfaInv` |
| | `MigrationIsSound` | `MigrationHolds` | `MigrationInv` |
| `EdgeProofs` | `ReplaysAreComplete` | `BufferHolds` | `McpInv` |
| | `LimitsAreKept` | `LimitsHold` | `ThrottleInv`, `ProfilerInv` |
| | `DecisionsAreRight` | `DecisionsHold` | `LoopMeansBundle`, `FirstWins`, `PdpInv` |

### Assumptions

Each module names what it assumes of its constants, and TLC evaluates these on the
instances. Most say that a constant has its type and that two kinds of actor do not
share a slot (`NoExecutionAssumption`, `SlotAssumption`, the assumptions of
`Governance` and `LifecycleOutbox`, `RollbackAssumption`, `AuditAssumption`,
`AccessAssumption`, `PolicyAssumption`, `McpAssumption`), or that a limit of the code is
not zero (`LimitsAssumption`, `AgentAuthAssumption`, `MaxOpenAssumption`). Three say more:

* `OutboxAssumption` (`Owed`): a record owes at least one event and none twice, and the
  parent of each is one of them or comes from elsewhere, as in the records that the
  handlers write.
* `PdpAssumption`: the two added rules come before those of the shipped bundle, as
  `i32::MAX` does, and the bundles are lists of rules.
* `MigrationAssumption`: the ids of a table are unique, as primary keys are. The rows of
  `provenance_edges` have no unique index in SQLite; with the same edge twice in the
  source the count in the target falls short, and the migration reports a failure, of
  which `MigrationHolds` says nothing.

`MfaAssumption` and `WriteQueueAssumption` also say that there are finitely many callers.

### Why the invariants are needed

* `RequestsOK`: what a slot holds at each program point was accepted by its operation's
  checks. `RecordActionIsLegal` and `RecordEffect` describe the shared transaction once,
  for all seven transitions that use it. The claim and the HA cancellation bypass the
  matrix and have cases of their own in `MovesAlongMatrix`.
* `ClaimInv`. That the adapter is called once is not inductive: nothing in
  `executeCalls <= 1` says that a slot about to call the adapter is the first. The
  invariant says that at most one slot is past the claim of an execution and before
  its call, that no call was made while there is one or while the execution can
  still be claimed, and that the lineage is complete for it. What makes it hold is
  that no transition leads back to a claimable state (`UnclaimedIsLost`).
* `PairInv`. A handler reads two rows by two queries and acts on a pair that may
  never have existed. `StatesPaired` is preserved because both updates of the
  transaction are conditional on the values read, plus `ContractsKnown`, which ties
  a contract state a slot has read to a contract that exists.
* `ContractInv`. That only one contract is inserted rests on the idempotency key of
  the first prepare being taken, so the invariant relates the count of contracts, the
  key in the outbox and the pointer.
* `WorldInv`. Handlers call the adapter first and record its answer later, so what is
  in the world runs ahead of the rows. The invariant says what an answer in the hands of
  a slot still means when others have moved on: a success that waits to be recorded is in
  the world unless somebody compensated or an adapter was wrong, a recovery is gone from
  it unless the HA reconciler took the execution over or an adapter was wrong. The refinement needs nothing beyond it:
  each step is a step of `GovernedEffect` or leaves its variables alone.
* `AnswerInv`. A key of the outbox that is used bounds from below how far the contract
  has come. A key that would move the contract on is therefore still free.
* `DebtInv`. Between the transaction and the last mark the debt is on the handler's
  stack: of a record whose handler is at work, what is not marked is still on the list of
  the slot that holds its key, and the head of the list is in the log once it is
  appended. So the last mark leaves nothing open, and `mark_reconciled` is not refused.
* `MarkInv`, `CloseInv`. Everybody writes the record back whole from a copy. The
  invariant is therefore about every copy: each mark in the hands of the handler, a pass
  or an operator, and each one about to be made, is backed by the log, which only grows.
* `LeaseInv` (outbox), `RepairInv`. Without stalls whoever is at work on a record holds
  its lease, so a pass that looks for an event and one that repairs it are the same.
* `LeaseInv` (governance). The fallback of a revocation writes the row without a
  condition. It is safe because a revocation gets there only when its conditional update
  lost, so the lease was at its end or no longer active, and the update that spends a
  lease refuses from that instant on. `LeaseRequestOK` carries this from the lost update
  to the write: what loses is never active before its end again, a copy held by the
  fallback is not of a used row, and a revocation that owes its event has written
  the row. `RevokedStays` keeps the event and the row together.
* `VerdictInv`. What a mint or a resolver read may be old when it writes. It says what
  every read still guarantees (`VerdictRequestsOK`), and `VerdictStep` that decisions and
  verdicts, once there, stay: then a reader's evidence cannot be taken back. The
  refinement of `GovernedLease` needs both: a resolver's conditional update is a reply to
  a question that is still open, a mint's insert finds the consent it read, and the
  fallback of a revocation withdraws an active lease or writes what is there.
* `TimeoutInv`. A pass selects by time and updates by state alone. A row that a pass has
  selected is stale, and stale for ever: time only passes, and the times that a
  row was given are set once. So what is updated is past its time, and a row that is
  left alone is selectable by the next pass.
* `ServiceInv` says how far a contract has come. The adapters' invariants (`FsFits`,
  `GitFits`, `SqlFits`, `OursOnTop`, `MailFits`, `HttpFits`) say, for each action and
  after any number of attempts that stopped half-way, how the world differs from the one
  before prepare and that the metadata still holds what it takes to bring it back.
  They are stated over arbitrary worlds and metadata, apart from the service, so that a
  step of the service needs one lemma per adapter call.
* `QueueInv`. Every call is in one place (counted, queued, under way, settled), an answer
  fits the place, and no accepted call vanishes; the depth is bounded from below by
  the number of calls that are in the first three. `WriterInv` adds that the writer has
  its last operation in hand before it drains, and that a receiver that is gone
  holds nothing: then every wait is a wait for a writer that can move.
* `ChainInv`. As long as no two appends overlapped, nobody moves the tip that an append
  has read, and its row is the last of the log. `RootInv`: the row of a window is
  written once, and what is told or sealed comes from it. `ArchiveInv`: a bundle has no
  hole, and under SQLite rows become visible in the order of their ids, so a batch
  reaches from the cursor to its last id.
* `AuthInv`. Each copy was seen by the wall clock within the window around the signed
  timestamp (`SeenInWindow`), so two copies were seen at most two skews apart; a nonce that
  was not lost is in the cache or has outlived its ttl on the monotonic clock
  (`NonceKept`). A second copy that passes has therefore come later than the ttl, which
  the difference of its two checks has to make up for.
* `PolicyInv`. What an edit holds was approved when it puts it into force, and
  undisturbed edits come one at a time. `AccessInv`: on a line without races at most one
  token is not revoked, and the rotation at work is on that one or has revoked it; with
  it, that only the newest is left is inductive, since a token is added to such a line
  when no other is left.
* `MfaInv`. Every counter accepted for a factor is at most the last one used, and that is
  compared and set in one statement. While the agent is not locked its counter is the
  number of wrong codes; once it is, only the requests that had passed the check
  can add to them.
* `MigrationInv`. Of the rows that stood all the time, those before the offset were
  read; inserts only append, updates stay in place, so only a deletion moves a row
  across the offset.
* `McpInv`. As long as no push overtook another, the two ends say what the buffer holds;
  the counter is the buffer's size between push and eviction too, which is why the
  loop of an eviction that another request overtakes still stops where it should.
* `ThrottleInv`. `NeverOverRate` speaks of the past only. The invariant adds a
  potential (`RateKept`): from any request on, what a client got through and what was in
  its bucket when it was last looked at are within the burst and the refill up to that
  reading, or the client has slipped since. A bucket that was forgotten counts as a full
  one of that moment (`Purse`), which is right unless it was forgotten early.
* `ProfilerInv`. There is an increasing map from a queue to the proposals of its
  principal (`Shows`): those that it does not reach come before those that it does, and
  are excused, or the queue is full. `Excused` are those before a drop, and those that
  have left the window of a later proposal or were overtaken by one. When
  nothing was dropped or overtaken, none within the window is excused, and the length of
  the queue tells the severity.
* `Pdp`. The sort is a permutation in descending order (`SortFacts`, by counting the
  rules that come before). `Picked` is the loop invariant of `evaluate_bundle_rules`,
  and `LoopMeansBundle` says that it finds the one strictest decision of the reference
  definition, for lists of any length.

### Induction

The library's induction theorems cannot be used, but the least-number principle can.
`LeastNumber` and `UpTo` (`EdgeProofs`) derive induction up to `n` for a set of numbers
from the well-foundedness of `<`, and `Recursion` the existence of a function that is
defined step by step. The loops of `Pdp`, the byte count of `McpSession` and
the eviction loops are proved with these. For this they are recursive functions or least
numbers in the models rather than folds, which are opaque to the provers; sets of ids
stand for the bundles and batches of `AuditTrail` for the same reason.

### Only model-checked

Liveness: `RunningResolves`, `Settles`, `PendingEnds`, `NothingHangs` and
`EverythingArchived`. They need fairness and `ENABLED`, which are beyond the prover;
the theorems marked "half of" in the table state their safety part with the
guards written out. `ExportVerifies` is refuted by its run.

`TypeSafety`, `MovesAlongMatrix`, `AtMostOneContract`, `ContractMovesAlongMatrix` and
`SpendsWithApproval` are proved and no longer checked by a run: the refinements and the
pairing of rows ask more of the small instance. No module declares a RECURSIVE operator.

## What the code does otherwise

One run ends in a counterexample, with the sentences it contradicts quoted in
`PROJECT.json`: `audit_export`. The export endpoint lists entries newest first,
`ferrumctl` bundles them in that order, and the verifier wants the oldest first. A
bundle of two hashed entries of an intact chain does not verify.

Other places where a document or a comment says more than the code does. They are
visible in the definitions, and the properties above except them:

* ADR 016 (`docs/adr/016`, line 33) says that a stale `AwaitingVerification` execution
  becomes `Failed`. The sweep lists only the states before the effect and `Running`.
  It also speaks of the paired transition path of the outbox; the HA cancellation
  writes no record, so a crash before its event loses the event for good.
* `docs/architecture/execution-provenance-outbox-reconciliation.md:103` says that only
  an operator takes a record out of review. A slow handler's unclaimed mark does so
  too. Line 97 says that a missing terminal event is emitted; `ErrorRaised` has no
  lineage parent and `required_parent_edge` wants exactly one, so such a record can
  only be put before an operator. The matrix in line 36 lacks `Running` to
  `AwaitingVerification` and to `RecoveryRequired`, which `execute` uses.
* ADR 007 (lines 17 and 32) says that in fail-closed mode an action whose audit entry
  fails is not committed. The resolvers append the entry after their update committed.
* `resolve_approval` speaks of an approval "unexpired at write time", but compares with
  a time read before the write was queued. Every later use tests the expiry again. The
  update of a hold tests no expiry at all.
* The record of a cancelled, prepared execution names a contract and no new contract
  state, so the reconciler always finds drift and puts it before an operator.
* A second incomplete compensation out of `RecoveryRequired` has the key of the first
  and conflicts with it, after the adapter was called. It would move nothing, which is
  why `AnswersStayRecordable` holds.
* The write queue's depth is not lowered when a caller that waits for room is
  dropped (`write_queue.rs:359-361`): it never understates the load but may overstate
  it for good.
* ADR 012 (lines 73 and 80) and `bundle_engine.rs` say that the invariant rules cannot
  be overridden by an operator's rule. In the modes `Bundles` and `Dual` the gateway
  evaluates active bundles without them (`policy_eval.rs:35-63`), so a bundle that
  allows a mutation without resources does; `PolicyBundlePdpEngine`, which adds them, is
  built by tests only. Even there a rule of priority `i32::MAX` comes before the second of
  them. A store error in mode `Bundles` leaves no bundle to decide, which means Allow.
* `docs/architecture/tamper-evident-audit-design.md` says, in lines 30 and 168, that the
  verification of a checkpoint recomputes the Merkle root. `verify_checkpoint`
  (`audit.rs:561-596`) asks `compute_and_cache_root`, which returns the cached root when
  there is one (`audit_merkle_root.rs:27-29`). The seal is compared with what was
  cached, and `CheckpointStands` says no more than that: entries that came into the window
  after its root was cached, or rows changed behind the store's back, are not noticed
  there.
* ADR 015 (line 35) lets `nonce_cache_ttl_secs` be set. Nothing compares it with the
  clock skew: with less than twice the skew a copy passes within the window of its
  timestamp after the nonce has expired, with nothing lost.
* The burst and the rate of the MCP server are free flags
  (`ferrum-mcp-server.rs:859-864`), and idle buckets are dropped after a fixed time. A
  bucket that would not have filled up by then is given back full.
* `ferrum-mcp-server.rs:321-334`, `lib.rs:784-801` and `behavioral.rs:137-138` read the
  clock before they lock. A call that is overtaken sets `last_check` back, and the
  interval is refilled again; in the profiler it leaves the queue out of order, where
  `prune` stops at the first entry that is recent.
* Creating a bundle a second time is meant to return the first, found by its content
  hash (`policy.rs:73`); the hash covers fresh timestamps and is never the same.
* `backup restore` (`bins/ferrumctl/src/backup.rs:328-329`) relies on an exclusive
  transaction that it has already rolled back when it copies files, and a second
  restore overwrites the copy that the first one saved.

Reports of recovery that the adapters make and should not (`KnownGap`):

* file move: a destination that existed is not brought back;
* file copy: with a lost snapshot the destination is taken for new and deleted, and
  directories that were made for it stay;
* file write and delete: a late prepare takes its snapshot of the changed file;
* git push: a remote branch that existed before is deleted; a commit on a branch whose
  receipt is lost leaves the branch; a commit is undone by a reset to the request's
  `before_ref`, wherever HEAD was;
* SQLite: the derived undo of an INSERT removes its last row only; a caller's own undo
  statement is run again on every attempt; steps of a plan that are not rollback steps, or
  carry no statement, are skipped; an index, a view or a trigger is not in the captured
  schema and stays;
* S3 copy: the undo addresses the source's key;
* mail drafts: a draft under another id than the target's stays;
* HTTP: compensation replays the mutation; it does not undo it.

The sandbox of the file adapter and the look for a dirty tree of the git adapter are
checks that are made before the act, in other system calls or processes. What happens in
between is in the model (`Interrupted`); no property says that nothing leaves the workdir
or that nobody's work is lost, because neither holds then. A pull or a commit that is
rolled back takes the commits on top of it along in any case, and a path whose parent
does not exist is let through unresolved (`adapter-fs/src/lib.rs:254`).

## Not modelled

* Tests, including the large test modules inside source files, are most of the
  repository's lines; they were read for what is intended. Of the rest, the
  command-line client, the terminal UI, the load generator, configuration parsing,
  metrics, and the mapping of MCP tools to HTTP requests hold no protocol state.
* The firewall scores text by patterns; inference of effects maps tool names to
  effects. Their results are inputs of `Pdp`.
* OIDC and JWKS: validation of tokens by a library, and a cache of keys.
* The PostgreSQL store repeats the statements of the SQLite store in another dialect;
  the modules are translated from the latter, apart from the audit append.
* Sync evaluates the readiness of an import that is not implemented: it reads and
  decides, and nothing follows from the decision. Nothing outside of tests appends to
  the ledger.
* The in-memory capability service is not what `ferrumd` runs.
* The nonce table of PostgreSQL (`PostgresNonceCache`): `AgentAuth` has the cache in
  memory.
* Backups are file copies by an operator who has stopped the server; see above for what
  they do not guard against.

## Plan

Done: the governed path (`ExecutionLifecycle`, `LifecycleOutbox`, `Governance`), two
abstract specifications and their refinements, the adapters, the write queue, the audit
trail and the parts of `ControlPlane`; a theorem for every safety property, and for the
safety part of every liveness property. Next:

1. The boundary between modules: that the transaction which ends `Governance` is the
   one that `ExecutionLifecycle` begins with, and that the results of `RollbackService`
   are among the outcomes that the lifecycle takes from its adapter.
2. More of the gateway's edge: the provenance store's queries and the ingestion of
   external events.
