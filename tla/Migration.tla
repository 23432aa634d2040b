------------------------------- MODULE Migration -------------------------------
(***************************************************************************)
(* ferrum-migrate: the copy of the governance tables from the SQLite       *)
(* store to PostgreSQL, table by table and chunk by chunk, with            *)
(* checkpoints from which an interrupted migration resumes.                *)
(*                                                                         *)
(* A source table is the sequence of its rows in storage order, which is   *)
(* what LIMIT and OFFSET without ORDER BY walk; a row is an id and the     *)
(* version of its content, and equal hashes are equal rows.  The gateway   *)
(* may go on writing to the source.  A dry run only counts and is left     *)
(* out.                                                                    *)
(***************************************************************************)
EXTENDS Integers, Sequences, FiniteSets, SequencesExt

CONSTANTS
  Source,       \* the rows at the start: a sequence per table, in table_migrations order
  Deletable,    \* the tables whose rows the gateway deletes (policy_bundles)
  NewIds,       \* ids from here on are for the rows to come
  ChunkSize,
  MaxWrites,    \* bound on writes to the source
  MaxRuns       \* bound on invocations of the tool

Tables == DOMAIN Source

\* Ids are unique in a table, as primary keys are.  For provenance_edges, whose key SQLite
\* does not enforce, this is a limit of the model: repeated edges are skipped at the target
\* and then fail the comparison of the counts, so that the tool does not report success.
ASSUME MigrationAssumption ==
  /\ NewIds \in Nat
  /\ Source \in Seq(Seq(Nat \X Nat))
  /\ \A t \in Tables : \A i, j \in DOMAIN Source[t] :
       /\ Source[t][i][1] < NewIds
       /\ Source[t][i][1] = Source[t][j][1] => i = j
  /\ Deletable \subseteq Tables
  /\ ChunkSize \in Nat \ {0} /\ MaxWrites \in Nat /\ MaxRuns \in Nat

VARIABLES
  source,      \* table -> its rows
  target,      \* table -> the set of its rows
  checkpoint,  \* table -> row_count of its checkpoint, or None
  run,         \* the invocation under way
  report,      \* overall_success of the last one: "none", "ok", "failed"
  stood,       \* table -> the rows in the source during the whole invocation
  met,         \* table -> the rows in the source at some time of it
  shrunk,      \* tables that lost a row during it
  written, started   \* counters

migrationVars ==
  <<source, target, checkpoint, run, report, stood, met, shrunk, written, started>>

NoCheckpoint == -1
IdleRun == [at |-> "idle", resume |-> FALSE, table |-> 1, count |-> 0, offset |-> 0,
            read |-> <<>>, clean |-> TRUE, success |-> TRUE]

Id(row) == row[1]
IdsOf(rows) == {Id(r) : r \in rows}
RowsOf(t) == ToSet(source[t])

MigrationInit ==
  /\ source = Source
  /\ target = [t \in Tables |-> {}]
  /\ checkpoint = [t \in Tables |-> NoCheckpoint]
  /\ run = IdleRun
  /\ report = "none"
  /\ stood = [t \in Tables |-> {}] /\ met = stood
  /\ shrunk = {}
  /\ written = 0 /\ started = 0

---------------------------------------------------------------------------
(* The tool *)

\* preflight_target_empty: without --resume no target table may hold a row
BeginMigration(resume) ==
  /\ run.at = "idle" /\ started < MaxRuns
  /\ started' = started + 1
  /\ IF resume \/ \A t \in Tables : target[t] = {}
     THEN /\ run' = [IdleRun EXCEPT !.at = "table", !.resume = resume]
          /\ report' = "none"
     ELSE run' = run /\ report' = "failed"
  /\ stood' = [t \in Tables |-> RowsOf(t)] /\ met' = stood' /\ shrunk' = {}
  /\ UNCHANGED <<source, target, checkpoint, written>>

\* checkpoint_action
CheckpointAction(t, count) ==
  CASE ~run.resume \/ checkpoint[t] = NoCheckpoint -> "Migrate"
    [] run.resume /\ checkpoint[t] = count -> "Skip"
    [] OTHER -> "DeleteStale"

\* The source is counted and the table's checkpoint decides how to go on.
OpenTable ==
  LET t == run.table
      count == Len(source[t])
      action == CheckpointAction(t, count) IN
  /\ run.at = "table" /\ t \in Tables
  /\ run' = [run EXCEPT !.at = IF action = "Skip" THEN "skip" ELSE "copy",
                        !.count = count, !.offset = 0, !.read = <<>>, !.clean = TRUE]
  /\ checkpoint' = IF action = "DeleteStale" THEN [checkpoint EXCEPT ![t] = NoCheckpoint]
                   ELSE checkpoint
  /\ UNCHANGED <<source, target, report, stood, met, shrunk, written, started>>

NextTable(success) ==
  run' = [run EXCEPT !.at = "table", !.table = @ + 1, !.success = @ /\ success]

\* Mutant: a table with a checkpoint needs no second look.
SkipTableTrusting ==
  /\ run.at = "skip"
  /\ NextTable(Cardinality(target[run.table]) = run.count)
  /\ UNCHANGED <<source, target, checkpoint, report, stood, met, shrunk, written, started>>

\* A table with a fitting checkpoint is not copied, but its content hashes are compared; a
\* write between the chunks of the hash has the effect of one before or after it, as far as
\* the rows that stand throughout are concerned.
SkipTable ==
  LET t == run.table IN
  /\ run.at = "skip"
  /\ NextTable(Cardinality(target[t]) = run.count /\ RowsOf(t) = target[t])
  /\ UNCHANGED <<source, target, checkpoint, report, stood, met, shrunk, written, started>>

Chunk(t) ==
  SubSeq(source[t], run.offset + 1,
         IF run.offset + ChunkSize < Len(source[t]) THEN run.offset + ChunkSize
                                                    ELSE Len(source[t]))

\* build_insert_sql: with --resume a row whose key is taken is left as it is; without, it
\* is an error.
Inserted(t, rows) == target[t] \cup {r \in rows : Id(r) \notin IdsOf(target[t])}
Conflicts(t, rows) == ~run.resume /\ IdsOf(rows) \cap IdsOf(target[t]) # {}

\* A chunk goes in as one transaction, or, after an error, row by row without the rows that
\* the target refuses.
CopyChunk ==
  LET t == run.table
      rows == ToSet(Chunk(t)) IN
  /\ run.at = "copy" /\ run.offset < run.count
  /\ \E refused \in SUBSET rows :
       /\ target' = [target EXCEPT ![t] = Inserted(t, rows \ refused)]
       /\ run' = [run EXCEPT !.offset = @ + ChunkSize, !.read = @ \o Chunk(t),
                             !.clean = @ /\ refused = {} /\ ~Conflicts(t, rows)]
  /\ UNCHANGED <<source, checkpoint, report, stood, met, shrunk, written, started>>

\* Mutant: the ids agree, so the contents do.
MatchesByIds(t) == IdsOf(ToSet(run.read)) = IdsOf(target[t])

\* The target has the number of rows counted, their ids and the content hash of the rows
\* read: hashes are sorted and not made unique, so a row read twice does not match.
Matches(t) ==
  /\ Cardinality(target[t]) = run.count
  /\ Len(run.read) = Cardinality(target[t])
  /\ ToSet(run.read) = target[t]

\* Only a clean table gets a checkpoint, which may fail to be written.
FinishTable ==
  LET t == run.table
      clean == run.clean /\ Matches(t) IN
  /\ run.at = "copy" /\ run.offset >= run.count
  /\ \/ clean /\ checkpoint' = [checkpoint EXCEPT ![t] = run.count] /\ NextTable(TRUE)
     \/ checkpoint' = checkpoint /\ NextTable(FALSE)
  /\ UNCHANGED <<source, target, report, stood, met, shrunk, written, started>>

\* An error of migrate_table fails its table and the rest is still copied.
FailTable ==
  /\ run.at = "copy"
  /\ NextTable(FALSE)
  /\ UNCHANGED <<source, target, checkpoint, report, stood, met, shrunk, written, started>>

\* reset_postgres_sequences, which may fail, and the report
Finish ==
  /\ run.at = "table" /\ run.table \notin Tables
  /\ run' = IdleRun
  /\ report' \in {IF run.success THEN "ok" ELSE "failed", "failed"}
  /\ UNCHANGED <<source, target, checkpoint, stood, met, shrunk, written, started>>

\* The tool is stopped, or gives up for an error outside of migrate_table; rows that were
\* inserted one by one stay.
StopMigration ==
  /\ run.at # "idle"
  /\ run' = IdleRun
  /\ \E some \in SUBSET (IF run.at = "copy" THEN ToSet(Chunk(run.table)) ELSE {}) :
       target' = IF some = {} THEN target
                 ELSE [target EXCEPT ![run.table] = Inserted(run.table, some)]
  /\ UNCHANGED <<source, checkpoint, report, stood, met, shrunk, written, started>>

---------------------------------------------------------------------------
(* Around it *)

\* The gateway inserts a row, changes one in place or deletes one.
Rewrite(t, rows) ==
  /\ written < MaxWrites /\ written' = written + 1
  /\ source' = [source EXCEPT ![t] = rows]
  /\ IF run.at = "idle" THEN UNCHANGED <<stood, met>>
     ELSE /\ stood' = [stood EXCEPT ![t] = @ \cap ToSet(rows)]
          /\ met' = [met EXCEPT ![t] = @ \cup ToSet(rows)]
  /\ UNCHANGED <<target, checkpoint, run, report, started>>

SourceWrite(t) ==
  LET rows == source[t] IN
  \/ Rewrite(t, Append(rows, <<written + NewIds, 0>>)) /\ shrunk' = shrunk
  \/ /\ \E i \in DOMAIN rows : Rewrite(t, [rows EXCEPT ![i][2] = @ + 1])
     /\ shrunk' = shrunk
  \/ /\ t \in Deletable
     /\ \E i \in DOMAIN rows : Rewrite(t, RemoveAt(rows, i))
     /\ shrunk' = IF run.at = "idle" THEN shrunk ELSE shrunk \cup {t}

\* The operator empties a target that did not come out right; its checkpoints stay.
EmptyTarget ==
  /\ run.at = "idle" /\ report # "ok" /\ \E t \in Tables : target[t] # {}
  /\ target' = [t \in Tables |-> {}]
  /\ UNCHANGED <<source, checkpoint, run, report, stood, met, shrunk, written, started>>

MigrationNext ==
  \/ \E resume \in BOOLEAN : BeginMigration(resume)
  \/ OpenTable \/ SkipTable \/ CopyChunk \/ FinishTable \/ FailTable \/ Finish \/ StopMigration
  \/ \E t \in Tables : SourceWrite(t)
  \/ EmptyTarget

---------------------------------------------------------------------------
(* Properties *)

\* A migration that reports success left nothing out and nothing stale, also when it
\* resumed an interrupted one and the gateway was writing: every row that stood in the
\* source all the time is in the target, and every row of the target was in the source
\* meanwhile. Only where rows are deleted does OFFSET pass over one unnoticed.
MigrationHolds ==
  report = "ok" =>
    \A t \in Tables :
      /\ t \notin shrunk => stood[t] \subseteq target[t]
      /\ target[t] \subseteq met[t]
=============================================================================
