------------------------------ MODULE AuditTrail ------------------------------
(***************************************************************************)
(* The audit log and what is derived from it: the hash chain, the hourly   *)
(* Merkle roots and signed checkpoints, the bundles that the WORM sink     *)
(* uploads and those that an operator exports.                             *)
(*                                                                         *)
(* A row's position in the log is its id and stands for its content hash.  *)
(* Queries return rows in the order of their ids, so a set of ids stands   *)
(* for the list.                                                           *)
(* Hashes are taken to be free of collisions: a Merkle root is the tree    *)
(* itself.  The log is append-only; rows that were written before hashes   *)
(* were introduced have none.                                              *)
(***************************************************************************)
EXTENDS Integers, Sequences, FiniteSets, SequencesExt

CONSTANTS
  Sites,        \* the deployments: store backend, whether the WORM sink is enabled,
                \* the handlers that append entries, the clients of the Merkle and
                \* checkpoint endpoints, and bounds on the clock and on restarts
  MaxLegacy,    \* bound on rows without hash
  MaxLog,       \* bound on rows
  Batch         \* batch_limit of the sink

ASSUME AuditAssumption ==
  /\ MaxLog \in Nat /\ MaxLegacy \in 0..MaxLog /\ Batch \in Nat \ {0}
  /\ \A s \in Sites : /\ s.backend \in {"sqlite", "postgres"} /\ s.sink \in BOOLEAN
                      /\ s.hours \in Nat /\ s.restarts \in Nat

VARIABLES
  site,        \* the deployment; it does not change
  now,         \* the hour
  log,         \* audit_log: hour of created_at, previous_hash, whether the row
               \* has a hash, whether it is committed
  append,      \* the appenders: program point, created_at, tip read, id
  overlapped,  \* two appends were under way at the same time
  roots,       \* audit_merkle_roots: for each hour no row, or the set of its only one
  whole,       \* hours whose root was computed when no entry could still come
  told,        \* the roots that were handed out for each hour
  audit,       \* the auditors
  checkpoint,  \* audit_checkpoints, likewise
  sink,        \* the sink's program point, in-memory cursor and batch at hand
  archive,     \* the bundles in the bucket, with the parts that have arrived
  restarts

vars == <<site, now, log, append, overlapped, roots, whole, told, audit, checkpoint, sink,
          archive, restarts>>
logVars == <<log, append, overlapped>>
rootVars == <<roots, whole, told, audit, checkpoint>>
sinkVars == <<sink, archive, restarts>>

Appender == site.appenders
Auditor == site.auditors
Hour == 0..site.hours
Id == 1..MaxLog

Legacy == [hour |-> 0, prev |-> 0, hashed |-> FALSE, live |-> TRUE]

IdleAppend == [pc |-> "idle", hour |-> 0, tip |-> 0, id |-> 0]
IdleAudit == [pc |-> "idle", hour |-> 0, root |-> {}, whole |-> FALSE, claim |-> {}]
IdleSink(cursor) == [pc |-> "idle", cursor |-> cursor, batch |-> {}]

------------------------------------------------------------------------------
(* What is read from the log *)

Committed == {i \in 1..Len(log) : log[i].live}
Hashed(ids) == {i \in ids : log[i].hashed}

\* The most recent entry that has a hash; 0 when there is none.
Tip == Max(Hashed(Committed) \cup {0})

Before(i, ids) == {j \in ids : j < i}
After(i, ids) == {j \in ids : j > i}

\* Each entry links to the one before, the first to boundary.
Linked(ids, boundary) ==
  \A i \in ids :
    log[i].prev = IF Before(i, ids) = {} THEN boundary ELSE Max(Before(i, ids))

\* verify_chain: rows without hash are skipped.
VerifyChain == Linked(Hashed(Committed), 0)

\* compute_merkle_root: pairs of nodes, the last one paired with itself.
Leaf(i) == <<"leaf", i>>
Pairs(level) ==
  [k \in 1..((Len(level) + 1) \div 2) |->
     <<"node", level[2 * k - 1],
       IF 2 * k <= Len(level) THEN level[2 * k] ELSE level[2 * k - 1]>>]
MerkleRoot(ids) ==
  LET list == SetToSortSeq(ids, <)
      level[n \in Nat] ==
        IF n = 0 THEN [k \in 1..Len(list) |-> Leaf(list[k])] ELSE Pairs(level[n - 1])
  IN
  IF ids = {} THEN <<"empty">>
  ELSE level[CHOOSE n \in 0..Len(list) :
               Len(level[n]) = 1 /\ \A m \in 0..(n - 1) : Len(level[m]) > 1][1]

\* Mutant: the window has no upper end.
RootSince(h) ==
  LET ids == {i \in Hashed(Committed) : log[i].hour >= h}
  IN  [root |-> MerkleRoot(ids), count |-> Cardinality(ids)]

\* The root of the hashed entries whose created_at is in the window.
RootOf(h) ==
  LET ids == {i \in Hashed(Committed) : log[i].hour = h}
  IN  [root |-> MerkleRoot(ids), count |-> Cardinality(ids)]

------------------------------------------------------------------------------

Init ==
  /\ site \in Sites
  /\ now = 0
  /\ \E n \in 0..MaxLegacy : log = [i \in 1..n |-> Legacy]
  /\ append = [a \in Appender |-> IdleAppend]
  /\ overlapped = FALSE
  /\ roots = [h \in Hour |-> {}]
  /\ whole = {}
  /\ told = [h \in Hour |-> {}]
  /\ audit = [r \in Auditor |-> IdleAudit]
  /\ checkpoint = [h \in Hour |-> {}]
  /\ sink = IdleSink(0)
  /\ archive = [b \in Id \X Id |-> {}]
  /\ restarts = 0

Tick ==
  /\ now < site.hours
  /\ now' = now + 1
  /\ UNCHANGED <<site, logVars, rootVars, sinkVars>>

------------------------------------------------------------------------------
(* AuditLogRepo::append.  The statements share no transaction. *)

Stamp(a) ==
  /\ append[a].pc = "idle" /\ Len(log) < MaxLog
  /\ append' = [append EXCEPT ![a] = [IdleAppend EXCEPT !.pc = "stamped", !.hour = now]]
  /\ UNCHANGED <<site, now, log, overlapped, rootVars, sinkVars>>

\* Mutant: the newest row is taken for the tip, hashed or not.
ReadNewest(a) ==
  /\ append[a].pc = "stamped"
  /\ append' = [append EXCEPT ![a].pc = "read", ![a].tip = Len(log)]
  /\ overlapped' = (overlapped \/ \E b \in Appender : append[b].pc \in {"read", "allocated"})
  /\ UNCHANGED <<site, now, log, rootVars, sinkVars>>

ReadTip(a) ==
  /\ append[a].pc = "stamped"
  /\ append' = [append EXCEPT ![a].pc = "read", ![a].tip = Tip]
  /\ overlapped' = (overlapped \/ \E b \in Appender : append[b].pc \in {"read", "allocated"})
  /\ UNCHANGED <<site, now, log, rootVars, sinkVars>>

\* SQLite has one writer at a time: the row gets its id and is visible at once.
\* PostgreSQL takes the id from a sequence and commits later.
Insert(a) ==
  /\ append[a].pc = "read" /\ Len(log) < MaxLog
  /\ log' = Append(log, [hour |-> append[a].hour, prev |-> append[a].tip, hashed |-> TRUE,
                         live |-> site.backend = "sqlite"])
  /\ append' = [append EXCEPT ![a] =
                  IF site.backend = "sqlite" THEN IdleAppend
                  ELSE [@ EXCEPT !.pc = "allocated", !.id = Len(log) + 1]]
  /\ UNCHANGED <<site, now, overlapped, rootVars, sinkVars>>

Commit(a) ==
  /\ append[a].pc = "allocated"
  /\ log' = [log EXCEPT ![append[a].id].live = TRUE]
  /\ append' = [append EXCEPT ![a] = IdleAppend]
  /\ UNCHANGED <<site, now, overlapped, rootVars, sinkVars>>

\* A store error; PostgreSQL does not reuse the id.
AppendFails(a) ==
  /\ append[a].pc # "idle"
  /\ append' = [append EXCEPT ![a] = IdleAppend]
  /\ UNCHANGED <<site, now, log, overlapped, rootVars, sinkVars>>

------------------------------------------------------------------------------
(* compute_and_cache_root, for merkle-verify (no claim) and for              *)
(* create_checkpoint, whose client claims a root.                            *)

\* An entry of the hour may still come.
StillOpen(h) == now <= h \/ \E a \in Appender : append[a].pc # "idle" /\ append[a].hour = h

Claims(h) == {{}} \cup {{root} : root \in told[h]}

\* The handlers compare the row they got with the client's claim; the signature
\* may be wrong, and one checkpoint per window is all the table holds.
Answer(r, h, row, claim) ==
  /\ told' = [told EXCEPT ![h] = @ \cup row]
  /\ audit' = [audit EXCEPT ![r] = IdleAudit]
  /\ \/ UNCHANGED checkpoint
     \/ /\ claim = row /\ checkpoint[h] = {}
        /\ checkpoint' = [checkpoint EXCEPT ![h] = claim]

\* A root in the cache is the answer, whatever the log holds by now.
AuditCached(r) ==
  \E h \in Hour : \E claim \in Claims(h) :
    /\ audit[r].pc = "idle" /\ roots[h] # {}
    /\ Answer(r, h, roots[h], claim)
    /\ UNCHANGED <<site, now, logVars, roots, whole, sinkVars>>

AuditSelect(r) ==
  \E h \in 0..now : \E claim \in Claims(h) :
    /\ audit[r].pc = "idle" /\ roots[h] = {}
    /\ audit' = [audit EXCEPT ![r] = [pc |-> "selected", hour |-> h, root |-> {RootOf(h)},
                                      whole |-> ~StillOpen(h), claim |-> claim]]
    /\ UNCHANGED <<site, now, logVars, roots, whole, told, checkpoint, sinkVars>>

\* Mutant: the last one to compute a root replaces it.
AuditReplace(r) ==
  LET h == audit[r].hour IN
  /\ audit[r].pc = "selected"
  /\ roots' = [roots EXCEPT ![h] = audit[r].root]
  /\ whole' = IF audit[r].whole THEN whole \cup {h} ELSE whole
  /\ Answer(r, h, roots'[h], audit[r].claim)
  /\ UNCHANGED <<site, now, logVars, sinkVars>>

\* Mutant: each caller is told the root that it computed itself.
AuditOwnRoot(r) ==
  LET h == audit[r].hour IN
  /\ audit[r].pc = "selected"
  /\ roots' = [roots EXCEPT ![h] = IF @ = {} THEN audit[r].root ELSE @]
  /\ whole' = IF roots[h] = {} /\ audit[r].whole THEN whole \cup {h} ELSE whole
  /\ Answer(r, h, audit[r].root, audit[r].claim)
  /\ UNCHANGED <<site, now, logVars, sinkVars>>

\* INSERT OR IGNORE, and the row that is there in the end is the answer.
AuditStore(r) ==
  LET h == audit[r].hour IN
  /\ audit[r].pc = "selected"
  /\ roots' = [roots EXCEPT ![h] = IF @ = {} THEN audit[r].root ELSE @]
  /\ whole' = IF roots[h] = {} /\ audit[r].whole THEN whole \cup {h} ELSE whole
  /\ Answer(r, h, roots'[h], audit[r].claim)
  /\ UNCHANGED <<site, now, logVars, sinkVars>>

\* verify_checkpoint: the signature was checked before the checkpoint was stored.
\* The root it is compared with is the cached one; nothing is recomputed.
CheckpointVerifies(h) == roots[h] = checkpoint[h]

------------------------------------------------------------------------------
(* The WORM sink *)

\* list_since_id
NextBatch ==
  LET new == After(sink.cursor, Committed)
  IN  {i \in new : Cardinality(Before(i, new)) < Batch}

SinkList ==
  /\ site.sink /\ sink.pc = "idle" /\ NextBatch # {}
  /\ sink' = [sink EXCEPT !.pc = "body", !.batch = NextBatch]
  /\ UNCHANGED <<site, now, logVars, rootVars, archive, restarts>>

BundleKey == <<Min(sink.batch), Max(sink.batch)>>

\* bundle_key is derived from the first and last id: the same batch goes to the
\* same key again after a restart, as a new version.
Upload(part) ==
  archive' = [archive EXCEPT ![BundleKey] = @ \cup {<<part, sink.batch>>}]

SinkBody ==
  /\ sink.pc = "body"
  /\ Upload("body")
  /\ sink' = [sink EXCEPT !.pc = "manifest"]
  /\ UNCHANGED <<site, now, logVars, rootVars, restarts>>

\* Mutant: the cursor moves on although the manifest was not uploaded.
SinkSkipsManifest ==
  /\ sink.pc = "manifest"
  /\ sink' = IdleSink(BundleKey[2])
  /\ UNCHANGED <<site, now, logVars, rootVars, archive, restarts>>

\* The cursor moves on only now.
SinkManifest ==
  /\ sink.pc = "manifest"
  /\ Upload("manifest")
  /\ sink' = IdleSink(BundleKey[2])
  /\ UNCHANGED <<site, now, logVars, rootVars, restarts>>

\* Mutant: a failed batch is not tried again.
SinkGivesUp ==
  /\ sink.pc \in {"body", "manifest"}
  /\ sink' = IdleSink(BundleKey[2])
  /\ UNCHANGED <<site, now, logVars, rootVars, archive, restarts>>

\* The next pass starts over from the cursor.
SinkFails ==
  /\ sink.pc \in {"body", "manifest"}
  /\ sink' = IdleSink(sink.cursor)
  /\ UNCHANGED <<site, now, logVars, rootVars, archive, restarts>>

\* The cursor, the appends and the audits under way are lost.
Restart ==
  /\ restarts < site.restarts
  /\ restarts' = restarts + 1
  /\ sink' = IdleSink(0)
  /\ append' = [a \in Appender |-> IdleAppend]
  /\ audit' = [r \in Auditor |-> IdleAudit]
  /\ UNCHANGED <<site, now, log, overlapped, roots, whole, told, checkpoint, archive>>

------------------------------------------------------------------------------

Next ==
  \/ Tick
  \/ \E a \in Appender :
       Stamp(a) \/ ReadTip(a) \/ Insert(a) \/ Commit(a) \/ AppendFails(a)
  \/ \E r \in Auditor : AuditCached(r) \/ AuditSelect(r) \/ AuditStore(r)
  \/ SinkList \/ SinkBody \/ SinkManifest \/ SinkFails
  \/ Restart

Spec == Init /\ [][Next]_vars

\* The ticker starts a pass every export_interval_secs, and the bucket accepts an
\* upload that is tried again and again.
FairSpec ==
  Spec /\ WF_vars(SinkList) /\ SF_vars(SinkBody) /\ SF_vars(SinkManifest)

------------------------------------------------------------------------------
(* Properties *)

TypeOK ==
  /\ site \in Sites /\ now \in Hour
  /\ log \in Seq([hour : Hour, prev : 0..MaxLog, hashed : BOOLEAN, live : BOOLEAN])
  /\ Len(log) <= MaxLog
  /\ append \in [Appender -> [pc : {"idle", "stamped", "read", "allocated"}, hour : Hour,
                              tip : 0..MaxLog, id : 0..MaxLog]]
  /\ overlapped \in BOOLEAN
  /\ whole \subseteq Hour
  /\ \A table \in {roots, told, checkpoint} : DOMAIN table = Hour
  /\ DOMAIN audit = Auditor
  /\ \A r \in Auditor : audit[r].pc \in {"idle", "selected"} /\ audit[r].hour \in Hour
  /\ sink \in [pc : {"idle", "body", "manifest"}, cursor : 0..MaxLog, batch : SUBSET Id]
  /\ archive \in [Id \X Id -> SUBSET ({"body", "manifest"} \X SUBSET Id)]
  /\ restarts \in 0..site.restarts

\* The chain verifies as long as no two appends were under way at the same
\* time, across failed appends, restarts and rows without hash.
ChainHolds == ~overlapped => VerifyChain

\* Everybody who ever asks for a window's root is told the same one, although
\* root and log are read and written in separate statements.
RootsAgree == \A h \in Hour : Cardinality(told[h]) <= 1

\* A checkpoint that was accepted verifies for ever after.  It agrees with the
\* log, as a recomputation of the root would find, when the cached root was
\* computed after the window had closed; one that was sealed over an open window
\* verifies all the same, although the window has entries that it does not cover.
CheckpointStands ==
  \A h \in Hour : checkpoint[h] # {} =>
    /\ CheckpointVerifies(h)
    /\ h \in whole => checkpoint[h] = {RootOf(h)}

\* A root that was computed after its window had closed covers every entry of
\* the window that there will ever be, and no other.
RootCoversWindow == \A h \in whole : roots[h] = {RootOf(h)}

\* Every answer about a window is the same and agrees with the checkpoint sealed
\* over it; both cover the window if they were computed after it had closed.
RootsHold == RootsAgree /\ CheckpointStands /\ RootCoversWindow

\* The batches of which a bundle has both parts.
Complete(b) == {ids \in {u[2] : u \in archive[b]} :
                  <<"body", ids>> \in archive[b] /\ <<"manifest", ids>> \in archive[b]}

Archived(i) ==
  \E b \in Id \X Id : \E ids \in Complete(b) : i \in ids

\* What the cursor has passed is in a bundle that has both of its parts,
\* whatever uploads failed.
NothingSkipped ==
  site.backend = "sqlite" => \A i \in 1..sink.cursor : log[i].live => Archived(i)

\* Mutant: every bundle is taken to start the chain.
BundleFromGenesis(ids) == Linked(Hashed(ids), 0)

\* verify_bundle of a sink's bundle: the first entry's previous_hash is declared
\* as its boundary.
BundleVerifies(ids) ==
  Hashed(ids) = {} \/ Linked(Hashed(ids), log[Min(Hashed(ids))].prev)

\* Without overlapping appends every bundle verifies on its own.
BundlesVerify ==
  ~overlapped => \A b \in Id \X Id : \A ids \in Complete(b) : BundleVerifies(ids)

\* The archive can be trusted: behind the cursor it has no gap, and each of its
\* bundles verifies without the others.
ArchiveHolds == NothingSkipped /\ BundlesVerify

\* Every committed entry ends up in the bucket, whatever restarts and uploads
\* fail.
EverythingArchived ==
  \A i \in Id : (site.sink /\ site.backend = "sqlite" /\ i <= Len(log)) ~> Archived(i)

\* verify_bundle of ferrumctl's export, whose entries come newest first, as the
\* endpoint lists them.
ExportLinked ==
  LET ids == Hashed(Committed)
  IN  \A i \in ids :
        log[i].prev = IF After(i, ids) = {} THEN 0 ELSE Min(After(i, ids))

\* The documentation says that an exported bundle is verified offline: with an
\* intact chain it must verify.
ExportVerifies ==
  (~overlapped /\ \A i, j \in 1..Len(log) : i < j => log[i].hour <= log[j].hour)
  => ExportLinked
==============================================================================
