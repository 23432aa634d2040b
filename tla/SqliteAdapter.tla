---------------------------- MODULE SqliteAdapter ----------------------------
(***************************************************************************)
(* The SQLite adapter.  The database has a table whose rows carry a rowid  *)
(* and who inserted them, a counter that updates change, the schema of its *)
(* tables, and indexes, views and triggers beside it.                      *)
(***************************************************************************)
EXTENDS Integers, AdapterTypes

SqlActions == {"SqlMutation"}

\* stmt is the payload's statement and plan the contract's compensation plan:
\* none, the planner's placeholder, the inverse statement of the caller, or
\* steps without a statement or of another kind than "rollback".
SqlWorlds ==
  [ rows : {{<<1, "them">>}}, n : {0}, schema : {"old"}, others : {"old"},
    stmt : {"insert", "insertMany", "update", "table", "index"},
    plan : {"none", "placeholder", "explicit", "beside"} ]

SqlVisible(w) == <<w.rows, w.n, w.schema, w.others>>

\* reversal is the rowid that generate_reversal_sql saw, schema what
\* capture_all_schemas saw: tables alone.
SqlNoMeta == [ddl |-> FALSE, reversal |-> 0, schema |-> "none", planned |-> FALSE]

\* The database file exists, or not.
SqlPrepare(w) == {Ok(w, SqlNoMeta), Err(w)}

NextRowid(w) == 1 + CHOOSE i \in {r[1] : r \in w.rows} \cup {0} :
                      \A r \in w.rows : r[1] <= i

\* Mutant: the reversal names the row before the one inserted.
LastInsertRowidStale(w, k) == NextRowid(w) + k - 2

\* last_insert_rowid() after k rows were inserted.
LastInsertRowid(w, k) == NextRowid(w) + k - 1

\* A failed statement is rolled back with its savepoint.  Any INSERT gets a
\* reversal, and that is for the last of its rows.
SqlExecute(w, m) ==
  LET next == NextRowid(w)
      done == CASE w.stmt = "insert" -> [w EXCEPT !.rows = @ \cup {<<next, "us">>}]
                [] w.stmt = "insertMany" ->
                     [w EXCEPT !.rows = @ \cup {<<next, "us">>, <<next + 1, "us">>}]
                [] w.stmt = "update" -> [w EXCEPT !.n = @ + 1]
                [] w.stmt = "table" -> [w EXCEPT !.schema = "new"]
                [] w.stmt = "index" -> [w EXCEPT !.others = "new"]
      seen == CASE w.stmt = "insert" -> LastInsertRowid(w, 1)
                [] w.stmt = "insertMany" -> LastInsertRowid(w, 2)
                [] OTHER -> 0
  IN
  { Err(w),
    Ok(done, IF w.stmt \in {"table", "index"}
             THEN [m EXCEPT !.ddl = TRUE, !.schema = w.schema]
             ELSE [m EXCEPT !.reversal = seen]) }

\* SqlRowCountRange may hold or not; an error of the connection or the query
\* counts as a failed check.
SqlVerify(w, m) == {Verified(w), Unverified(w)}

\* The caller's statement: it undoes the mutation and fails when there is
\* nothing to drop.
CallersInverse(w) ==
  CASE w.stmt \in {"insert", "insertMany"} ->
         {Recovered([w EXCEPT !.rows = {r \in @ : r[2] # "us"}]), Err(w)}
    [] w.stmt = "update" -> {Recovered([w EXCEPT !.n = @ - 1]), Err(w)}
    [] w.stmt = "table" /\ w.schema = "new" -> {Recovered([w EXCEPT !.schema = "old"]), Err(w)}
    [] w.stmt = "index" /\ w.others = "new" -> {Recovered([w EXCEPT !.others = "old"]), Err(w)}
    [] OTHER -> {Err(w)}

\* Whatever is there under the rowid is deleted.  A plan of which no step is
\* carried out is reported as a recovery.
SqlRollbackDml(w, m) ==
  CASE w.plan = "none" -> {Err(w)}
    [] w.plan = "explicit" -> CallersInverse(w)
    [] w.plan = "placeholder" /\ m.reversal # 0 ->
         {Recovered([w EXCEPT !.rows = {r \in @ : r[1] # m.reversal}]), Err(w)}
    [] w.plan = "beside" -> {Recovered(w), Err(w)}
    [] OTHER -> {Err(w)}

\* The guard against schema drift compares with the tables from before the
\* statement; an index, a view or a trigger passes it.
SqlRollbackDdl(w, m) ==
  CASE w.schema # m.schema -> {Err(w)}
    [] w.schema = m.schema /\ w.plan = "explicit" -> CallersInverse(w)
    [] OTHER -> {Recovered(w), Err(w)}

SqlRollback(w, m) == IF m.ddl THEN SqlRollbackDdl(w, m) ELSE SqlRollbackDml(w, m)

\* Others insert a row, delete ours, update the counter or undo the DDL.
SqlMeddle(w) ==
  { [w EXCEPT !.rows = @ \cup {<<NextRowid(w), "them">>}],
    [w EXCEPT !.rows = {r \in @ : r[2] # "us"}],
    [w EXCEPT !.n = @ + 1],
    [w EXCEPT !.schema = "old", !.others = "old"] }
==============================================================================
