------------------------------ MODULE S3Adapter ------------------------------
(***************************************************************************)
(* The S3 adapter.  An object is the sequence of its versions; a version   *)
(* is <<id, content>>, a delete marker has content "gone".  Without        *)
(* bucket versioning there is at most one version, with id 0, which stands *)
(* for "no version id".  Without live mode no call leaves the adapter.     *)
(***************************************************************************)
EXTENDS Naturals, Sequences, AdapterTypes

S3Actions == {"S3PutObject", "S3DeleteObject", "S3GetObject", "S3CopyObject"}

S3Worlds(a) ==
  { w \in [ key : {<<>>, <<<<1, "a">>>>, <<<<0, "a">>>>},
            dest : IF a = "S3CopyObject" THEN {<<>>, <<<<2, "b">>>>, <<<<0, "b">>>>} ELSE {<<>>},
            next : {3}, live : BOOLEAN, versioned : BOOLEAN, required : BOOLEAN ] :
      \A p \in {"key", "dest"} : w[p] # <<>> => (w.versioned <=> w[p][1][1] # 0) }

Current(versions) ==
  IF versions = <<>> THEN "gone" ELSE versions[Len(versions)][2]

S3Visible(w) == <<Current(w.key), Current(w.dest)>>

\* after is the id that execute was told, 0 for none.
S3NoMeta == [after |-> 0, planned |-> FALSE]

\* validate_versioning_requirement_live, then the checks.
S3Prepare(w) ==
  IF w.live /\ w.required /\ ~w.versioned THEN {Err(w)}
  ELSE {Ok(w, S3NoMeta), Err(w)}

\* The bucket keeps the old version, or not.
Stored(w, p, content) ==
  IF w.versioned THEN [w EXCEPT ![p] = Append(@, <<w.next, content>>), !.next = @ + 1]
  ELSE [w EXCEPT ![p] = IF content = "gone" THEN <<>> ELSE <<<<0, content>>>>]

Told(w, m) == IF w.versioned THEN [m EXCEPT !.after = w.next] ELSE m

\* A lost answer leaves the object changed and the version unknown.
S3ExecutePut(w, m) ==
  LET done == Stored(w, "key", "new") IN {Ok(done, Told(w, m)), Err(done), Err(w)}

S3ExecuteDelete(w, m) ==
  LET done == Stored(w, "key", "gone") IN {Ok(done, Told(w, m)), Err(done), Err(w)}

S3ExecuteGet(w, m) == {Err(w)} \cup (IF Current(w.key) = "gone" THEN {} ELSE {Ok(w, m)})

S3ExecuteCopy(w, m) ==
  LET done == Stored(w, "dest", Current(w.key)) IN
  IF Current(w.key) = "gone" THEN {Err(w)} ELSE {Ok(done, Told(w, m)), Err(done), Err(w)}

\* Outside live mode execute succeeds and does nothing.
S3Execute(a, w, m) ==
  CASE ~w.live -> {Ok(w, m), Err(w)}
    [] w.live /\ a = "S3PutObject" -> S3ExecutePut(w, m)
    [] w.live /\ a = "S3DeleteObject" -> S3ExecuteDelete(w, m)
    [] w.live /\ a = "S3GetObject" -> S3ExecuteGet(w, m)
    [] w.live /\ a = "S3CopyObject" -> S3ExecuteCopy(w, m)

\* S3ObjectExists looks at the target's key, also after a delete or a copy.
S3Verify(w, m) ==
  {Err(w)} \cup
  (IF m.planned /\ (w.live => Current(w.key) # "gone") THEN {Verified(w)} ELSE {})

\* Ids are unique in a bucket.
Without(versions, id) ==
  IF \E i \in DOMAIN versions : versions[i][1] = id
  THEN LET i == CHOOSE j \in DOMAIN versions : versions[j][1] = id IN
       SubSeq(versions, 1, i - 1) \o SubSeq(versions, i + 1, Len(versions))
  ELSE versions

\* Mutant: the newest version is deleted, whoever wrote it.
VersionToDeleteNewest(w, m) ==
  IF w.key = <<>> THEN 0 ELSE w.key[Len(w.key)][1]

\* after_version_id or delete_marker_version_id, from the execute receipt.
VersionToDelete(w, m) == m.after

\* Deletes that version of the target's key; deleting one that is not there
\* succeeds.
S3Rollback(a, w, m) ==
  LET id == VersionToDelete(w, m)
      undone == [w EXCEPT !.key = Without(@, id)]
  IN
  CASE a = "S3GetObject" -> {Recovered(w)}
    [] a # "S3GetObject" /\ (~w.live \/ id = 0) -> {Incomplete(w)}
    [] OTHER -> {Recovered(undone), Incomplete(undone), Incomplete(w)}

\* Others write or delete the object.
S3Meddle(w) == {Stored(w, "key", c) : c \in {"x", "gone"}}
==============================================================================
