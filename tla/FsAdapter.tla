------------------------------ MODULE FsAdapter ------------------------------
(***************************************************************************)
(* The filesystem adapter.  A call is an operator from the world and the   *)
(* contract's metadata to the set of its possible results, one for each    *)
(* point at which an I/O error can stop it.  The world holds the path the  *)
(* contract names, the destination of a move or copy and the directory it  *)
(* goes to, the snapshots that the adapter keeps under the system's        *)
(* temporary directory, which of the two paths lie in the workdir, and     *)
(* whether they now lead through a symbolic link.  Where a call looks      *)
(* before it acts, s is the world that it looked at and w the world in     *)
(* which it acts: others may have come in between.                         *)
(***************************************************************************)
EXTENDS Naturals, Sequences, AdapterTypes

Node(kind, data, mode) == [kind |-> kind, data |-> data, mode |-> mode]

Absent == Node("absent", <<>>, "none")
Dir == Node("dir", <<>>, "none")
File(data) == Node("file", data, "old")

IsFile(n) == n.kind = "file"

FsActions ==
  {"FileWrite", "FileDelete", "FileMove", "FileCopy", "FileAppend",
   "FileChmod", "DirCreate", "DirDelete"}

\* The actions with a destination.
Carries(a) == a \in {"FileMove", "FileCopy"}

\* A request names a path with something or nothing there, and perhaps a
\* destination that may be taken, may be on another mount and may be in a
\* directory that is not there yet.
FsWorlds(a) ==
  { w \in [ target : {Absent, Dir, Node("full", <<>>, "none"), File(<<"a">>)},
            dest : IF Carries(a) THEN {Absent, File(<<"b">>)} ELSE {Absent},
            parent : IF Carries(a) THEN {"there", "missing"} ELSE {"there"},
            cross : IF Carries(a) THEN BOOLEAN ELSE {FALSE}, linked : {FALSE},
            inside : IF Carries(a) THEN SUBSET {"target", "dest"} ELSE SUBSET {"target"},
            snapTarget : {Absent}, snapDest : {Absent} ] :
      w.parent = "missing" => w.dest = Absent }

FsVisible(w) == <<w.target, w.dest, w.parent>>

\* What prepare and execute leave in the contract's metadata.
FsNoMeta ==
  [ newFile |-> FALSE, length |-> 0, hash |-> <<>>, mode |-> "none",
    dest |-> FALSE, newDest |-> FALSE, cross |-> FALSE, planned |-> FALSE ]

\* validate_path_sandbox, under the bounds that ferrumd sets: no component of
\* the path may be a symbolic link, and it must resolve to a place in the
\* workdir.  A path that cannot be resolved, nor its parent, is let through.
InSandbox(w, p) ==
  ~w.linked /\ (p \in w.inside \/ (p = "dest" /\ w.parent = "missing"))

\* The look of execute and of rollback, which takes in the destination.
Revalidated(a, s) ==
  InSandbox(s, "target") /\ (Carries(a) => InSandbox(s, "dest"))

\* Behind a link that came after the look, it is some other file that changes.
Put(w, p, n) == IF w.linked THEN w ELSE [w EXCEPT ![p] = n]

\* write_file_nofollow and std::fs::copy truncate before they write.
Torn(w, p) == {w, Put(w, p, Node("file", <<>>, w[p].mode))}

------------------------------------------------------------------------------
(* prepare *)

FsPrepareWrite(w) ==
  IF IsFile(w.target)
  THEN {Ok([w EXCEPT !.snapTarget = w.target], FsNoMeta), Err(w)}
  ELSE {Ok(w, [FsNoMeta EXCEPT !.newFile = TRUE])}

FsPrepareDelete(w) ==
  IF IsFile(w.target)
  THEN {Ok([w EXCEPT !.snapTarget = w.target], FsNoMeta), Err(w)}
  ELSE {Err(w)}

\* Only the source of a move is copied aside.
FsPrepareMove(w) ==
  IF IsFile(w.target)
  THEN {Ok([w EXCEPT !.snapTarget = w.target], FsNoMeta), Err(w)}
  ELSE {Err(w)}

FsPrepareCopy(w) ==
  IF IsFile(w.target)
  THEN {Ok(w, [FsNoMeta EXCEPT !.hash = w.target.data]), Err(w)}
  ELSE {Err(w)}

FsPrepareAppend(w) ==
  IF IsFile(w.target)
  THEN {Ok(w, [FsNoMeta EXCEPT !.hash = w.target.data,
                               !.length = Len(w.target.data)]), Err(w)}
  ELSE {Err(w)}

FsPrepareChmod(w) ==
  IF IsFile(w.target)
  THEN {Ok(w, [FsNoMeta EXCEPT !.mode = w.target.mode]), Err(w)}
  ELSE {Err(w)}

FsPrepareDirCreate(w) ==
  IF w.target.kind \in {"dir", "full"} THEN {Err(w)} ELSE {Ok(w, FsNoMeta)}

FsPrepareDirDelete(w) ==
  IF w.target.kind = "dir" THEN {Ok(w, FsNoMeta)} ELSE {Err(w)}

\* Bounds and sandbox come first for every action.
FsPrepare(a, w) ==
  IF ~InSandbox(w, "target") THEN {Err(w)}
  ELSE CASE a = "FileWrite" -> FsPrepareWrite(w)
         [] a = "FileDelete" -> FsPrepareDelete(w)
         [] a = "FileMove" -> FsPrepareMove(w)
         [] a = "FileCopy" -> FsPrepareCopy(w)
         [] a = "FileAppend" -> FsPrepareAppend(w)
         [] a = "FileChmod" -> FsPrepareChmod(w)
         [] a = "DirCreate" -> FsPrepareDirCreate(w)
         [] a = "DirDelete" -> FsPrepareDirDelete(w)

------------------------------------------------------------------------------
(* execute *)

FsExecuteWrite(w, m) ==
  IF w.target.kind \in {"dir", "full"} THEN {Err(w)}
  ELSE {Ok(Put(w, "target",
               Node("file", <<"new">>,
                    IF IsFile(w.target) THEN w.target.mode ELSE "old")), m)}
       \cup {Err(v) : v \in Torn(w, "target")}

FsExecuteDelete(w, m) ==
  {Err(w)} \cup (IF IsFile(w.target) THEN {Ok(Put(w, "target", Absent), m)} ELSE {})

\* rename replaces an existing destination; on another mount the move is a
\* copy followed by a delete, and either half may fail.
FsExecuteMove(w, m) ==
  LET copied == Put(w, "dest", w.target)
      moved == Put(copied, "target", Absent)
  IN
  {Err(w)} \cup
  (IF ~IsFile(w.target) \/ w.parent = "missing" THEN {}
   ELSE IF w.cross
   THEN {Ok(moved, [m EXCEPT !.dest = TRUE, !.cross = TRUE]), Err(copied)}
        \cup {Err(v) : v \in Torn(w, "dest")}
   ELSE {Ok(moved, [m EXCEPT !.dest = TRUE])})

\* An existing destination is copied aside first; for a new one the directory
\* is made when it is missing.
FsExecuteCopy(w, m) ==
  LET new == ~IsFile(w.dest)
      kept == IF new THEN [w EXCEPT !.parent = "there"] ELSE [w EXCEPT !.snapDest = w.dest]
  IN
  {Err(w), Err(kept)} \cup
  (IF ~IsFile(w.target) THEN {}
   ELSE {Ok(Put(kept, "dest", w.target), [m EXCEPT !.dest = TRUE, !.newDest = new]),
         Err(Put(kept, "dest", w.target))}
        \cup {Err(v) : v \in Torn(kept, "dest")})

FsExecuteAppend(w, m) ==
  LET grown == Put(w, "target", [w.target EXCEPT !.data = Append(@, "app")]) IN
  {Err(w)} \cup (IF IsFile(w.target) THEN {Ok(grown, m), Err(grown)} ELSE {})

FsExecuteChmod(w, m) ==
  LET changed == Put(w, "target", [w.target EXCEPT !.mode = "asked"]) IN
  {Err(w)} \cup (IF w.target.kind = "absent" THEN {} ELSE {Ok(changed, m), Err(changed)})

FsExecuteDirCreate(w, m) ==
  {Err(w)} \cup (IF w.target = Absent THEN {Ok(Put(w, "target", Dir), m)} ELSE {})

FsExecuteDirDelete(w, m) ==
  {Err(w)} \cup (IF w.target = Dir THEN {Ok(Put(w, "target", Absent), m)} ELSE {})

FsExecute(a, s, w, m) ==
  IF ~Revalidated(a, s) THEN {Err(w)}
  ELSE CASE a = "FileWrite" -> FsExecuteWrite(w, m)
         [] a = "FileDelete" -> FsExecuteDelete(w, m)
         [] a = "FileMove" -> FsExecuteMove(w, m)
         [] a = "FileCopy" -> FsExecuteCopy(w, m)
         [] a = "FileAppend" -> FsExecuteAppend(w, m)
         [] a = "FileChmod" -> FsExecuteChmod(w, m)
         [] a = "DirCreate" -> FsExecuteDirCreate(w, m)
         [] a = "DirDelete" -> FsExecuteDirDelete(w, m)

------------------------------------------------------------------------------
(* verify *)

\* run_check: FileExists ignores must_exist; FileHashMatches compares with the
\* digest that the verify handler copied in from the execute receipt.
FsPlannedCheck(a, w) ==
  CASE a = "FileWrite" -> w.target.data = <<"new">> /\ IsFile(w.target)
    [] a = "FileDelete" -> IsFile(w.target)
    [] OTHER -> TRUE

FsHolds(a, w, m) ==
  CASE a = "FileWrite" -> IsFile(w.target)
    [] a = "FileDelete" -> ~IsFile(w.target)
    [] a = "FileMove" -> m.dest /\ IsFile(w.dest) /\ ~IsFile(w.target)
    [] a = "FileCopy" -> m.dest /\ IsFile(w.dest) /\ w.dest.data = m.hash
    [] a = "FileAppend" -> IsFile(w.target) /\ Len(w.target.data) >= m.length
    [] a = "FileChmod" -> IsFile(w.target) /\ w.target.mode = "asked"
    [] a = "DirCreate" -> w.target.kind \in {"dir", "full"}
    [] a = "DirDelete" -> w.target.kind \notin {"dir", "full"}

\* verify is the one phase without a look at the sandbox: behind a link it
\* judges some other file.
FsVerify(a, w, m) ==
  CASE w.linked -> {Verified(w), Err(w)}
    [] ~w.linked /\ FsHolds(a, w, m) /\ (m.planned => FsPlannedCheck(a, w)) ->
         {Verified(w), Err(w)}
    [] OTHER -> {Err(w)}

------------------------------------------------------------------------------
(* rollback, which compensate calls as well *)

FsRollbackDirCreate(w) ==
  CASE w.target.kind = "dir" -> {Recovered(Put(w, "target", Absent)), Incomplete(w)}
    [] w.target.kind = "full" -> {Incomplete(w)}
    [] OTHER -> {Recovered(w)}

FsRollbackDirDelete(w) ==
  CASE w.target = Absent -> {Recovered(Put(w, "target", Dir)), Incomplete(w)}
    [] IsFile(w.target) -> {Err(w)}
    [] OTHER -> {Recovered(w)}

FsRollbackAppend(w, m) ==
  LET kept == SubSeq(w.target.data, 1,
                     IF Len(w.target.data) > m.length THEN m.length
                                                      ELSE Len(w.target.data))
      cut == Put(w, "target", [w.target EXCEPT !.data = kept])
  IN
  IF ~IsFile(w.target) THEN {Incomplete(w)}
  ELSE {Incomplete(v) : v \in Torn(w, "target")}
       \cup {IF kept = m.hash THEN Recovered(cut) ELSE Err(cut)}

FsRollbackChmod(w, m) ==
  {Incomplete(w)} \cup
  (IF w.target.kind = "absent" THEN {}
   ELSE {Recovered(Put(w, "target", [w.target EXCEPT !.mode = m.mode]))})

\* Across mounts the destination is deleted before the source is restored.
FsRollbackMove(w, m) ==
  LET back == Put(Put(w, "target", w.dest), "dest", Absent)
      gone == Put(w, "dest", Absent)
  IN
  CASE ~m.dest \/ ~IsFile(w.dest) -> {Err(w)}
    [] m.dest /\ IsFile(w.dest) /\ m.cross ->
         {Incomplete(w), Incomplete(gone)} \cup
         (IF w.snapTarget = Absent THEN {}
          ELSE {Recovered(Put(gone, "target", w.snapTarget))}
               \cup {Incomplete(v) : v \in Torn(gone, "target")})
    [] OTHER ->
         {Incomplete(w), Incomplete(back)} \cup
         (IF w.snapTarget = Absent THEN {}
          ELSE {IF w.snapTarget.data = w.dest.data THEN Recovered(back) ELSE Err(back)})

\* A destination without snapshot is taken for one that the copy created, and a
\* directory that was made for it stays.
FsRollbackCopy(w, m) ==
  LET cleared == IF IsFile(w.dest) THEN Put(w, "dest", Absent) ELSE w IN
  CASE ~m.dest -> {Err(w)}
    [] m.dest /\ (m.newDest \/ w.snapDest = Absent) ->
         {Recovered(cleared), Incomplete(w)}
    [] OTHER -> {Recovered(Put(w, "dest", w.snapDest))}
                \cup {Incomplete(v) : v \in Torn(w, "dest")}

\* Mutant: a file that prepare did not find is restored like any other.
FsRollbackFileBlind(w, m) ==
  {Recovered(Put(w, "target", w.snapTarget)), Incomplete(w)}

\* FileWrite and FileDelete.
FsRollbackFile(w, m) ==
  CASE m.newFile -> {Recovered(IF IsFile(w.target) THEN Put(w, "target", Absent) ELSE w),
                     Incomplete(w)}
    [] ~m.newFile /\ w.snapTarget = Absent -> {Err(w)}
    [] OTHER -> {Recovered(Put(w, "target", w.snapTarget))}
                \cup {Incomplete(v) : v \in Torn(w, "target")}

FsRollback(a, s, w, m) ==
  IF ~Revalidated(a, s) THEN {Err(w)}
  ELSE CASE a = "DirCreate" -> FsRollbackDirCreate(w)
         [] a = "DirDelete" -> FsRollbackDirDelete(w)
         [] a = "FileAppend" -> FsRollbackAppend(w, m)
         [] a = "FileChmod" -> FsRollbackChmod(w, m)
         [] a = "FileMove" -> FsRollbackMove(w, m)
         [] a = "FileCopy" -> FsRollbackCopy(w, m)
         [] OTHER -> FsRollbackFile(w, m)

------------------------------------------------------------------------------
(* The rest of the world *)

\* Someone else replaces, truncates or removes a file, fills a directory, swaps
\* a symbolic link into the path or takes it out again.
FsMeddle(w) ==
  {[w EXCEPT !.linked = ~@]}
  \cup {[w EXCEPT ![p].data = d] :
          p \in {q \in {"target", "dest"} : IsFile(w[q])}, d \in {<<>>, <<"x">>}}
  \cup {[w EXCEPT ![p] = Absent] : p \in {q \in {"target", "dest"} : IsFile(w[q])}}
  \cup (IF w.target = Dir THEN {[w EXCEPT !.target.kind = "full"]} ELSE {})

\* The temporary directory is cleaned.
FsForget(w) == {[w EXCEPT !.snapTarget = Absent, !.snapDest = Absent]}
==============================================================================
