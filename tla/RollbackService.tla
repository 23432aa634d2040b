--------------------------- MODULE RollbackService ---------------------------
(***************************************************************************)
(* The rollback service and the adapters behind it, over the life of one   *)
(* contract: prepare, execute, verify and any number of compensations,     *)
(* dispatched through the AdapterRegistry to the adapter that the contract *)
(* names.  Between two calls, and within one between its look at the       *)
(* target and what it does there, other parties may change the target; the *)
(* temporary directory may be cleaned, and a second prepare request that   *)
(* read the execution earlier may still reach the adapter.                 *)
(***************************************************************************)
EXTENDS Integers, FsAdapter, GitAdapter, SqliteAdapter, HttpAdapter, S3Adapter,
        GcsAdapter, MailDraftAdapter

CONSTANTS
  Registered,   \* <<adapter key, action type>> pairs under examination
  MaxMeddles,   \* how often other parties change the target
  MaxAttempts   \* how often compensation is attempted

\* The adapters that ferrumd registers as far as they are configured, with the actions
\* they know; the noop adapter, which does nothing, is left out.
AllAdapters ==
  ({"fs"} \X FsActions) \cup ({"git"} \X GitActions) \cup ({"sqlite"} \X SqlActions)
  \cup ({"http"} \X HttpActions) \cup ({"s3"} \X S3Actions)
  \cup ({"gcs"} \X GcsActions) \cup ({"maildraft"} \X MailActions)

ASSUME RollbackAssumption ==
  Registered \subseteq AllAdapters /\ MaxMeddles \in Nat /\ MaxAttempts \in Nat

VARIABLES
  contract,  \* adapter key and action type
  world,     \* the target system and what the adapter keeps beside it
  meta,      \* contract.metadata
  step,      \* how far the lifecycle has come
  last,      \* the answer of the latest compensation
  before,    \* what was visible when the contract was prepared
  attempts,  \* number of compensations so far
  meddled,   \* number of changes by other parties
  forgotten, \* the adapter's own files were cleaned away
  late       \* a second prepare ran after the contract was recorded

vars == <<contract, world, meta, step, last, before, attempts, meddled, forgotten, late>>

RollbackClass == {"R0", "R1", "R2", "R3"}

Step == {"fresh", "prepared", "executed", "ambiguous", "verified"}

Key == contract.adapter
Action == contract.action

------------------------------------------------------------------------------
(* AdapterRegistry.get: every phase goes to the adapter that the key names. *)

Worlds(k, a) ==
  CASE k = "fs" -> FsWorlds(a)
    [] k = "git" -> GitWorlds(a)
    [] k = "sqlite" -> SqlWorlds
    [] k = "http" -> HttpWorlds
    [] k = "s3" -> S3Worlds(a)
    [] k = "gcs" -> GcsWorlds
    [] k = "maildraft" -> MailWorlds(a)

Visible(k, w) ==
  CASE k = "fs" -> FsVisible(w)
    [] k = "git" -> GitVisible(w)
    [] k = "sqlite" -> SqlVisible(w)
    [] k = "http" -> HttpVisible(w)
    [] k = "s3" -> S3Visible(w)
    [] k = "gcs" -> GcsVisible(w)
    [] k = "maildraft" -> MailVisible(w)

PrepareResults(k, a, w) ==
  CASE k = "fs" -> FsPrepare(a, w)
    [] k = "git" -> GitPrepare(a, w)
    [] k = "sqlite" -> SqlPrepare(w)
    [] k = "http" -> HttpPrepare(w)
    [] k = "s3" -> S3Prepare(w)
    [] k = "gcs" -> GcsPrepare(w)
    [] k = "maildraft" -> MailPrepare(a, w)

\* saw is the world that the call looked at, w the one in which it acts.
ExecuteResults(k, a, saw, w, m) ==
  CASE k = "fs" -> FsExecute(a, saw, w, m)
    [] k = "git" -> GitExecute(a, w, m)
    [] k = "sqlite" -> SqlExecute(w, m)
    [] k = "http" -> HttpExecute(w, m)
    [] k = "s3" -> S3Execute(a, w, m)
    [] k = "gcs" -> GcsExecute(w, m)
    [] k = "maildraft" -> MailExecute(a, w, m)

VerifyResults(k, a, w, m) ==
  CASE k = "fs" -> FsVerify(a, w, m)
    [] k = "git" -> GitVerify(a, w, m)
    [] k = "sqlite" -> SqlVerify(w, m)
    [] k = "http" -> HttpVerify(w, m)
    [] k = "s3" -> S3Verify(w, m)
    [] k = "gcs" -> GcsVerify(w, m)
    [] k = "maildraft" -> MailVerify(a, w, m)

RollbackResults(k, a, saw, w, m) ==
  CASE k = "fs" -> FsRollback(a, saw, w, m)
    [] k = "git" -> GitRollback(a, saw, w, m)
    [] k = "sqlite" -> SqlRollback(w, m)
    [] k = "http" -> HttpRollback(w, m)
    [] k = "s3" -> S3Rollback(a, w, m)
    [] k = "gcs" -> GcsRollback(a, w, m)
    [] k = "maildraft" -> MailRollback(a, w, m)

Meddled(k, w) ==
  CASE k = "fs" -> FsMeddle(w)
    [] k = "git" -> GitMeddle(w)
    [] k = "sqlite" -> SqlMeddle(w)
    [] k = "http" -> HttpMeddle(w)
    [] k = "s3" -> S3Meddle(w)
    [] k = "gcs" -> GcsMeddle(w)
    [] k = "maildraft" -> MailMeddle(w)

------------------------------------------------------------------------------

Init ==
  /\ contract \in {[adapter |-> ka[1], action |-> ka[2]] : ka \in Registered}
  /\ world \in Worlds(contract.adapter, contract.action)
  /\ meta = <<>>
  /\ step = "fresh"
  /\ last = "none"
  /\ before = Visible(contract.adapter, world)
  /\ attempts = 0
  /\ meddled = 0
  /\ forgotten = FALSE
  /\ late = FALSE

\* HTTP and SQL mutations cannot be compensatable; any other R2 contract needs
\* a plan, which is looked for only after the adapter has prepared.
Prepare ==
  \E class \in RollbackClass, planned \in BOOLEAN :
    /\ step = "fresh"
    /\ ~(class = "R2" /\ Action \in {"HttpMutation", "SqlMutation"})
    /\ \E r \in PrepareResults(Key, Action, world) :
         /\ world' = r.world
         /\ IF r.answer = "ok" /\ (class = "R2" => planned)
            THEN step' = "prepared" /\ meta' = [r.meta EXCEPT !.planned = planned]
            ELSE UNCHANGED <<step, meta>>
    /\ UNCHANGED <<contract, last, before, attempts, meddled, forgotten, late>>

\* A second prepare loses the race for the outbox key and records nothing, but
\* by then its adapter call has been made.
LatePrepare ==
  /\ step # "fresh"
  /\ ~late
  /\ late' = TRUE
  /\ \E r \in PrepareResults(Key, Action, world) : world' = r.world
  /\ UNCHANGED <<contract, meta, step, last, before, attempts, meddled, forgotten>>

\* Between the look and the act of a call others may change the target.
Interrupted(w) ==
  \/ w = world /\ UNCHANGED meddled
  \/ w \in Meddled(Key, world) /\ meddled < MaxMeddles /\ meddled' = meddled + 1

\* After an error the contract keeps the metadata of prepare.
Execute ==
  /\ step = "prepared"
  /\ \E w \in {world} \cup Meddled(Key, world) :
       /\ Interrupted(w)
       /\ \E r \in ExecuteResults(Key, Action, world, w, meta) :
            /\ world' = r.world
            /\ IF r.answer = "ok" THEN step' = "executed" /\ meta' = r.meta
                                  ELSE step' = "ambiguous" /\ UNCHANGED meta
  /\ UNCHANGED <<contract, last, before, attempts, forgotten, late>>

Verify ==
  /\ step = "executed"
  /\ \E r \in VerifyResults(Key, Action, world, meta) :
       /\ world' = r.world
       /\ step' = IF r.answer = "verified" THEN "verified" ELSE step
  /\ UNCHANGED <<contract, meta, last, before, attempts, meddled, forgotten, late>>

\* May be retried, also after it succeeded: two handlers can have read the
\* contract before either of them recorded its answer.
Compensate ==
  /\ step \in {"executed", "ambiguous"} /\ attempts < MaxAttempts
  /\ attempts' = attempts + 1
  /\ \E w \in {world} \cup Meddled(Key, world) :
       /\ Interrupted(w)
       /\ \E r \in RollbackResults(Key, Action, world, w, meta) :
            /\ world' = r.world
            /\ last' = r.answer
  /\ UNCHANGED <<contract, meta, step, before, forgotten, late>>

Meddle ==
  /\ step # "fresh" /\ meddled < MaxMeddles
  /\ meddled' = meddled + 1
  /\ world' \in Meddled(Key, world)
  /\ UNCHANGED <<contract, meta, step, last, before, attempts, forgotten, late>>

Forget ==
  /\ step # "fresh" /\ ~forgotten /\ Key = "fs"
  /\ forgotten' = TRUE
  /\ world' \in FsForget(world)
  /\ UNCHANGED <<contract, meta, step, last, before, attempts, meddled, late>>

Next ==
  Prepare \/ LatePrepare \/ Execute \/ Verify \/ Compensate \/ Meddle \/ Forget

Spec == Init /\ [][Next]_vars

------------------------------------------------------------------------------
(* Properties *)

Restored == Visible(Key, world) = before

\* What an adapter is known not to undo although it reports recovered = true.
\* A move's taken destination, a copy's destination whose snapshot is lost or
\* whose directory had to be made, and a write's or delete's original once a
\* late prepare has replaced the snapshot.
FsGap ==
  \/ Action = "FileMove" /\ before[2] # Absent
  \/ Action = "FileCopy" /\ (forgotten \/ before[3] = "missing")
  \/ Action \in {"FileWrite", "FileDelete"} /\ late

\* A remote branch that was there before the push, a branch whose name only a
\* lost receipt knew, and a HEAD that was not at the before_ref of the request.
GitGap ==
  \/ Action = "GitPush" /\ before[4] # 0
  \/ Action = "GitCommitBranch" /\ ~meta.named
  \/ Action = "GitCommit" /\ world.given # (IF world.on = "branch" THEN before[2] ELSE before[1])

\* All rows but the last of an INSERT; an index, a view or a trigger without the
\* caller's statement; a plan of which no step is carried out; and the caller's
\* statement is run again on a retry, and also when the mutation never happened.
SqlGap ==
  \/ world.plan = "beside"
  \/ world.stmt = "index" /\ world.plan # "explicit"
  \/ world.stmt = "insertMany" /\ world.plan = "placeholder"
  \/ world.stmt = "update" /\ (attempts > 1 \/ step = "ambiguous")

\* A draft that was created under another id than the target's, or whose
\* target has none.
MailGap ==
  Action = "create" /\ (world.target = "open" \/ CreatedId(world) # "target")

\* A copy is undone under the source's key; HTTP mutations are replayed.
KnownGap ==
  \/ Key = "fs" /\ FsGap
  \/ Key = "git" /\ GitGap
  \/ Key = "sqlite" /\ SqlGap
  \/ Key = "maildraft" /\ MailGap
  \/ Key = "http"
  \/ Action = "S3CopyObject"

\* When an adapter reports recovered = true and nobody else touched the target,
\* it looks as it did before prepare, whatever I/O errors, half-done attempts,
\* lost receipts and lost snapshots came in between.
RecoveredIsRestored ==
  last = "recovered" /\ meddled = 0 /\ ~KnownGap => Restored

\* No failed attempt makes recovery impossible: as long as nobody interferes a
\* further attempt can still succeed, also after a first one that got half-way.
StillRecoverable ==
  /\ step \in {"executed", "ambiguous"} /\ meddled = 0 /\ ~forgotten
  /\ \/ Action \in {"FileWrite", "FileDelete", "FileChmod", "DirCreate", "DirDelete"}
     \/ Action \in {"GitTagCreate", "GitTagDelete", "GitBranchDelete"}
     \/ Key = "maildraft"
     \/ Action \in {"S3PutObject", "S3DeleteObject"} /\ step = "executed"
        /\ world.live /\ world.versioned
  => \E r \in RollbackResults(Key, Action, world, world, meta) : r.answer = "recovered"

\* Recovery can be relied upon: what is reported as recovered is, and what is not
\* yet recovered can be.
RecoveryIsSound == RecoveredIsRestored /\ StillRecoverable

\* Execution and any number of replays under a valid contract reach the server
\* as one mutation, whatever answers were lost or refused, and a reported
\* recovery means that it arrived.  What the checks of prepare and verify change,
\* which send the target's method without the key, is not counted here (probed).
AppliedOnce ==
  Key = "http" /\ world.plan = "replay" =>
    /\ world.effects <= 1
    /\ last = "recovered" => world.effects = 1
==============================================================================
