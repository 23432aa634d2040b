------------------------ MODULE RollbackServiceProofs ------------------------
(***************************************************************************)
(* Theorems about RollbackService: what the adapters promise for every     *)
(* number of compensations and of changes by other parties.                *)
(*                                                                         *)
(* An adapter's invariant says what the target and the metadata look like  *)
(* after any sequence of calls that nobody else interfered with.  The      *)
(* predicates take the world, the metadata and the progress as arguments,  *)
(* so that a call is a fact about its operator.                            *)
(***************************************************************************)
EXTENDS RollbackService, TLAPS

------------------------------------------------------------------------------
(* Files *)

\* The pieces of which contents are made.
Text == {"a", "b", "new", "app", "x"}

Nodes ==
  [kind : {"absent", "dir", "full", "file"}, data : Seq(Text), mode : {"none", "old", "asked"}]

FsWorld ==
  [target : Nodes, dest : Nodes, parent : {"there", "missing"}, cross : BOOLEAN,
   linked : BOOLEAN, inside : SUBSET {"target", "dest"}, snapTarget : Nodes, snapDest : Nodes]

FsMeta ==
  [newFile : BOOLEAN, length : Nat, hash : Seq(Text), mode : {"none", "old", "asked"},
   dest : BOOLEAN, newDest : BOOLEAN, cross : BOOLEAN, planned : BOOLEAN]

\* The worlds that differ from w in the files and snapshots alone, and in the
\* target, the destination or a snapshot alone.
Kept(v, w) ==
  v \in FsWorld /\ v.linked = w.linked /\ v.inside = w.inside /\ v.parent = w.parent
SetTarget(v, w, n) ==
  /\ Kept(v, w)
  /\ v.target = n /\ v.dest = w.dest
  /\ v.snapTarget = w.snapTarget /\ v.snapDest = w.snapDest
SetDest(v, w, n) ==
  /\ Kept(v, w)
  /\ v.target = w.target /\ v.dest = n
  /\ v.snapTarget = w.snapTarget /\ v.snapDest = w.snapDest
SetSnaps(v, w, n, o) ==
  /\ Kept(v, w)
  /\ v.target = w.target /\ v.dest = w.dest
  /\ v.snapTarget = n /\ v.snapDest = o

\* What is there is a node.
LEMMA NodesAre ==
  /\ Absent \in Nodes /\ Dir \in Nodes /\ Absent.kind = "absent" /\ Dir.kind = "dir"
  /\ Absent.mode = "none"
  /\ \A d \in Seq(Text), k \in {"absent", "dir", "full", "file"}, m \in {"none", "old", "asked"} :
       /\ Node(k, d, m) \in Nodes /\ Node(k, d, m).kind = k
       /\ Node(k, d, m).data = d /\ Node(k, d, m).mode = m
<1>1. <<>> \in Seq(Text)
  OBVIOUS
<1>2. ASSUME NEW d \in Seq(Text), NEW k \in {"absent", "dir", "full", "file"},
             NEW m \in {"none", "old", "asked"}
      PROVE  /\ Node(k, d, m) \in Nodes /\ Node(k, d, m).kind = k
             /\ Node(k, d, m).data = d /\ Node(k, d, m).mode = m
  BY DEF Node, Nodes
<1>3. /\ Node("absent", <<>>, "none") \in Nodes /\ Node("absent", <<>>, "none").kind = "absent"
      /\ Node("absent", <<>>, "none").mode = "none"
      /\ Node("dir", <<>>, "none") \in Nodes /\ Node("dir", <<>>, "none").kind = "dir"
  <2> DEFINE d == <<>>
  <2>1. d \in Seq(Text)
    BY <1>1
  <2> HIDE DEF d
  <2>2. /\ Node("absent", d, "none") \in Nodes /\ Node("absent", d, "none").kind = "absent"
        /\ Node("absent", d, "none").mode = "none"
        /\ Node("dir", d, "none") \in Nodes /\ Node("dir", d, "none").kind = "dir"
    BY <2>1, <1>2
  <2> QED
    BY <2>2 DEF d
<1> QED
  BY <1>2, <1>3 DEF Absent, Dir

\* A write inside the sandbox changes what it names.
LEMMA PutIs ==
  ASSUME NEW w \in FsWorld, ~w.linked, NEW n \in Nodes
  PROVE  SetTarget(Put(w, "target", n), w, n) /\ SetDest(Put(w, "dest", n), w, n)
<1>1. Put(w, "target", n) = [w EXCEPT !.target = n] /\ Put(w, "dest", n) = [w EXCEPT !.dest = n]
  BY DEF Put
<1>2. SetTarget([w EXCEPT !.target = n], w, n)
  BY DEF SetTarget, FsWorld, Kept
<1>3. SetDest([w EXCEPT !.dest = n], w, n)
  BY DEF SetDest, FsWorld, Kept
<1> QED
  BY <1>1, <1>2, <1>3

\* So does one that stops half-way, and leaves an empty file.
LEMMA TornIs ==
  ASSUME NEW w \in FsWorld, ~w.linked, NEW v
  PROVE  /\ v \in Torn(w, "target") =>
              v = w \/ \E n \in Nodes : IsFile(n) /\ n.mode = w.target.mode /\ SetTarget(v, w, n)
         /\ v \in Torn(w, "dest") =>
              v = w \/ \E n \in Nodes : IsFile(n) /\ SetDest(v, w, n)
<1>1. <<>> \in Seq(Text)
  OBVIOUS
<1>2. w.target \in Nodes /\ w.dest \in Nodes
  BY DEF FsWorld
<1>3. w.target.mode \in {"none", "old", "asked"} /\ w.dest.mode \in {"none", "old", "asked"}
  BY <1>2 DEF Nodes
<1> DEFINE e == <<>>
           t == Node("file", e, w.target.mode)
           d == Node("file", e, w.dest.mode)
<1>4. t \in Nodes /\ IsFile(t) /\ t.mode = w.target.mode /\ d \in Nodes /\ IsFile(d)
  <2>1. e \in Seq(Text)
    BY <1>1
  <2> HIDE DEF e
  <2> QED
    BY <2>1, <1>3, NodesAre DEF IsFile
<1>5. v \in Torn(w, "target") => v = w \/ v = Put(w, "target", t)
  BY DEF Torn
<1>6. v \in Torn(w, "dest") => v = w \/ v = Put(w, "dest", d)
  BY DEF Torn
<1> HIDE DEF t, d
<1>7. SetTarget(Put(w, "target", t), w, t) /\ SetDest(Put(w, "dest", d), w, d)
  BY <1>4, PutIs
<1> QED
  BY <1>4, <1>5, <1>6, <1>7

\* Taking and losing a snapshot.
LEMMA SnapIs ==
  ASSUME NEW w \in FsWorld, NEW n \in Nodes
  PROVE  /\ SetSnaps([w EXCEPT !.snapTarget = n], w, n, w.snapDest)
         /\ SetSnaps([w EXCEPT !.snapDest = n], w, w.snapTarget, n)
         /\ SetSnaps([w EXCEPT !.snapTarget = n, !.snapDest = n], w, n, n)
<1>1. SetSnaps([w EXCEPT !.snapTarget = n], w, n, w.snapDest)
  BY DEF SetSnaps, FsWorld, Kept
<1>2. SetSnaps([w EXCEPT !.snapDest = n], w, w.snapTarget, n)
  BY DEF SetSnaps, FsWorld, Kept
<1>3. SetSnaps([w EXCEPT !.snapTarget = n, !.snapDest = n], w, n, n)
  BY DEF SetSnaps, FsWorld, Kept
<1> QED
  BY <1>1, <1>2, <1>3

\* The metadata that a phase hands on.
LEMMA FsMetaIs ==
  ASSUME NEW h \in Seq(Text), NEW k \in Nat, NEW o \in {"none", "old", "asked"}
  PROVE  /\ FsNoMeta \in FsMeta /\ ~FsNoMeta.newFile /\ ~FsNoMeta.dest
         /\ [FsNoMeta EXCEPT !.newFile = TRUE] \in FsMeta
         /\ [FsNoMeta EXCEPT !.newFile = TRUE].newFile
         /\ [FsNoMeta EXCEPT !.hash = h] \in FsMeta /\ ~[FsNoMeta EXCEPT !.hash = h].dest
         /\ [FsNoMeta EXCEPT !.hash = h, !.length = k] \in FsMeta
         /\ [FsNoMeta EXCEPT !.hash = h, !.length = k].hash = h
         /\ [FsNoMeta EXCEPT !.mode = o] \in FsMeta /\ [FsNoMeta EXCEPT !.mode = o].mode = o
<1>1. <<>> \in Seq(Text)
  OBVIOUS
<1> DEFINE n == [newFile |-> FALSE, length |-> 0, hash |-> <<>>, mode |-> "none",
                 dest |-> FALSE, newDest |-> FALSE, cross |-> FALSE, planned |-> FALSE]
<1>2. n \in FsMeta /\ ~n.newFile /\ ~n.dest
  BY <1>1 DEF FsMeta
<1>3. FsNoMeta = n
  BY DEF FsNoMeta
<1> HIDE DEF n
<1>4. [n EXCEPT !.newFile = TRUE] \in FsMeta /\ [n EXCEPT !.newFile = TRUE].newFile
  BY <1>2 DEF FsMeta
<1>5. [n EXCEPT !.hash = h] \in FsMeta /\ ~[n EXCEPT !.hash = h].dest
  BY <1>2 DEF FsMeta
<1>6. [n EXCEPT !.hash = h, !.length = k] \in FsMeta /\ [n EXCEPT !.hash = h, !.length = k].hash = h
  BY <1>2 DEF FsMeta
<1>7. [n EXCEPT !.mode = o] \in FsMeta /\ [n EXCEPT !.mode = o].mode = o
  BY <1>2 DEF FsMeta
<1> QED
  BY <1>2, <1>3, <1>4, <1>5, <1>6, <1>7

\* What the metadata of a successful prepare says of the target.
FsNoted(a, w, v, m) ==
  /\ m \in FsMeta
  /\ a = "FileWrite" => /\ IsFile(w.target) => ~m.newFile /\ v.snapTarget = w.target
                        /\ ~IsFile(w.target) => m.newFile
  /\ a = "FileDelete" => IsFile(w.target) /\ ~m.newFile /\ v.snapTarget = w.target
  /\ a \in {"FileMove", "FileCopy"} => IsFile(w.target) /\ ~m.dest
  /\ a = "FileAppend" => IsFile(w.target) /\ m.hash = w.target.data
  /\ a = "FileChmod" => IsFile(w.target) /\ m.mode = w.target.mode
  /\ a = "DirCreate" => w.target.kind \notin {"dir", "full"}
  /\ a = "DirDelete" => w.target.kind = "dir"

\* prepare touches nothing but the snapshot.
LEMMA FsPrepareIs ==
  ASSUME NEW w \in FsWorld, NEW a \in FsActions, NEW r \in FsPrepare(a, w)
  PROVE  /\ \/ r.world = w
            \/ SetSnaps(r.world, w, w.target, w.snapDest) /\ IsFile(w.target)
         /\ r.answer = "ok" => FsNoted(a, w, r.world, r.meta) /\ "target" \in w.inside
<1>1. CASE ~InSandbox(w, "target")
  BY <1>1 DEF FsPrepare, Err
<1>2. w.target \in Nodes
  BY DEF FsWorld
<1>3. w.target.data \in Seq(Text) /\ w.target.mode \in {"none", "old", "asked"}
  BY <1>2 DEF Nodes
<1>4. Len(w.target.data) \in Nat
  BY <1>3
<1> DEFINE n == [w EXCEPT !.snapTarget = w.target]
           m0 == FsNoMeta
           m1 == [FsNoMeta EXCEPT !.newFile = TRUE]
           m2 == [FsNoMeta EXCEPT !.hash = w.target.data]
           m3 == [FsNoMeta EXCEPT !.hash = w.target.data, !.length = Len(w.target.data)]
           m4 == [FsNoMeta EXCEPT !.mode = w.target.mode]
<1>5. SetSnaps(n, w, w.target, w.snapDest)
  BY <1>2, SnapIs
<1>6. n.snapTarget = w.target
  BY <1>5 DEF SetSnaps
<1>7. /\ {m0, m1, m2, m3, m4} \subseteq FsMeta /\ ~m0.newFile /\ ~m0.dest /\ m1.newFile
      /\ ~m2.dest /\ m3.hash = w.target.data /\ m4.mode = w.target.mode
  <2> DEFINE h == w.target.data
             k == Len(w.target.data)
             o == w.target.mode
  <2>1. h \in Seq(Text) /\ k \in Nat /\ o \in {"none", "old", "asked"}
    BY <1>3, <1>4
  <2> HIDE DEF h, k, o
  <2>2. /\ FsNoMeta \in FsMeta /\ ~FsNoMeta.newFile /\ ~FsNoMeta.dest
        /\ [FsNoMeta EXCEPT !.newFile = TRUE] \in FsMeta
        /\ [FsNoMeta EXCEPT !.newFile = TRUE].newFile
        /\ [FsNoMeta EXCEPT !.hash = h] \in FsMeta /\ ~[FsNoMeta EXCEPT !.hash = h].dest
        /\ [FsNoMeta EXCEPT !.hash = h, !.length = k] \in FsMeta
        /\ [FsNoMeta EXCEPT !.hash = h, !.length = k].hash = h
        /\ [FsNoMeta EXCEPT !.mode = o] \in FsMeta /\ [FsNoMeta EXCEPT !.mode = o].mode = o
    BY <2>1, FsMetaIs, Zenon
  <2> QED
    BY <2>2, Zenon DEF h, k, o
<1>8. CASE InSandbox(w, "target")
  <2>0. "target" \in w.inside
    BY <1>8 DEF InSandbox
  <2>1. CASE a = "FileWrite"
    <3>1. r \in FsPrepareWrite(w)
      BY <1>8, <2>1 DEF FsPrepare
    <3>2. \/ r = Ok(n, m0) /\ IsFile(w.target)
          \/ r = Ok(w, m1) /\ ~IsFile(w.target)
          \/ r = Err(w)
      BY <3>1 DEF FsPrepareWrite
    <3> HIDE DEF n, m0, m1, m2, m3, m4
    <3> QED
      BY <2>0, <2>1, <3>2, <1>5, <1>6, <1>7 DEF Ok, Err, FsNoted
  <2>2. CASE a = "FileDelete"
    <3>1. r \in FsPrepareDelete(w)
      BY <1>8, <2>2 DEF FsPrepare
    <3>2. \/ r = Ok(n, m0) /\ IsFile(w.target)
          \/ r = Err(w)
      BY <3>1 DEF FsPrepareDelete
    <3> HIDE DEF n, m0, m1, m2, m3, m4
    <3> QED
      BY <2>0, <2>2, <3>2, <1>5, <1>6, <1>7 DEF Ok, Err, FsNoted
  <2>3. CASE a = "FileMove"
    <3>1. r \in FsPrepareMove(w)
      BY <1>8, <2>3 DEF FsPrepare
    <3>2. \/ r = Ok(n, m0) /\ IsFile(w.target)
          \/ r = Err(w)
      BY <3>1 DEF FsPrepareMove
    <3> HIDE DEF n, m0, m1, m2, m3, m4
    <3> QED
      BY <2>0, <2>3, <3>2, <1>5, <1>6, <1>7 DEF Ok, Err, FsNoted
  <2>4. CASE a = "FileCopy"
    <3>1. r \in FsPrepareCopy(w)
      BY <1>8, <2>4 DEF FsPrepare
    <3>2. \/ r = Ok(w, m2) /\ IsFile(w.target)
          \/ r = Err(w)
      BY <3>1 DEF FsPrepareCopy
    <3> HIDE DEF n, m0, m1, m2, m3, m4
    <3> QED
      BY <2>0, <2>4, <3>2, <1>5, <1>6, <1>7 DEF Ok, Err, FsNoted
  <2>5. CASE a = "FileAppend"
    <3>1. r \in FsPrepareAppend(w)
      BY <1>8, <2>5 DEF FsPrepare
    <3>2. \/ r = Ok(w, m3) /\ IsFile(w.target)
          \/ r = Err(w)
      BY <3>1 DEF FsPrepareAppend
    <3> HIDE DEF n, m0, m1, m2, m3, m4
    <3> QED
      BY <2>0, <2>5, <3>2, <1>5, <1>6, <1>7 DEF Ok, Err, FsNoted
  <2>6. CASE a = "FileChmod"
    <3>1. r \in FsPrepareChmod(w)
      BY <1>8, <2>6 DEF FsPrepare
    <3>2. \/ r = Ok(w, m4) /\ IsFile(w.target)
          \/ r = Err(w)
      BY <3>1 DEF FsPrepareChmod
    <3> HIDE DEF n, m0, m1, m2, m3, m4
    <3> QED
      BY <2>0, <2>6, <3>2, <1>5, <1>6, <1>7 DEF Ok, Err, FsNoted
  <2>7. CASE a = "DirCreate"
    <3>1. r \in FsPrepareDirCreate(w)
      BY <1>8, <2>7 DEF FsPrepare
    <3>2. \/ r = Ok(w, m0) /\ w.target.kind \notin {"dir", "full"}
          \/ r = Err(w)
      BY <3>1 DEF FsPrepareDirCreate
    <3> HIDE DEF n, m0, m1, m2, m3, m4
    <3> QED
      BY <2>0, <2>7, <3>2, <1>5, <1>6, <1>7 DEF Ok, Err, FsNoted
  <2>8. CASE a = "DirDelete"
    <3>1. r \in FsPrepareDirDelete(w)
      BY <1>8, <2>8 DEF FsPrepare
    <3>2. \/ r = Ok(w, m0) /\ w.target.kind = "dir"
          \/ r = Err(w)
      BY <3>1 DEF FsPrepareDirDelete
    <3> HIDE DEF n, m0, m1, m2, m3, m4
    <3> QED
      BY <2>0, <2>8, <3>2, <1>5, <1>6, <1>7 DEF Ok, Err, FsNoted
  <2> QED
    BY <2>1, <2>2, <2>3, <2>4, <2>5, <2>6, <2>7, <2>8 DEF FsActions
<1> QED
  BY <1>1, <1>8

\* What was visible at first.
FsBefore(b) ==
  /\ b \in Nodes \X Nodes \X {"there", "missing"}
  /\ \A i \in {1, 2} : (b[i].kind = "absent" => b[i] = Absent) /\ (b[i].kind = "dir" => b[i] = Dir)
  /\ b[2] = Absent \/ IsFile(b[2])

\* After prepare, as long as nobody interferes.  f says that the snapshots were
\* cleaned away, l that a late prepare took new ones.  A file that was there has
\* its snapshot; one that was not is all that there can be.
FileFits(w, m, b, f, l) ==
  /\ w.dest = b[2]
  /\ m.newFile => ~IsFile(b[1])
  /\ m.newFile => w.target = b[1] \/ (b[1] = Absent /\ IsFile(w.target))
  /\ ~m.newFile => /\ ~l => w.snapTarget \in {Absent, b[1]}
                   /\ ~f => w.snapTarget # Absent

\* What was moved is at its destination or gone from it for good.
MoveFits(w, m, s, b) ==
  /\ s = "prepared" => /\ w.target = b[1] /\ w.dest = b[2] /\ IsFile(b[1]) /\ ~m.dest
                       /\ w.snapTarget \in {Absent, b[1]}
  /\ m.dest => \/ w.dest = Absent
               \/ /\ w.dest = b[1] /\ w.target = Absent /\ IsFile(b[1])
                  /\ w.snapTarget \in {Absent, b[1]}

\* The source of a copy stands, and its destination was free or has its snapshot.
CopyFits(w, m, s, b, f) ==
  /\ w.target = b[1]
  /\ s = "prepared" => w.dest = b[2] /\ ~m.dest
  /\ m.dest => /\ m.newDest => b[2] = Absent /\ (w.dest = Absent \/ IsFile(w.dest))
               /\ ~m.newDest /\ ~f => w.snapDest = b[2] /\ IsFile(b[2])

\* An append leaves the mode and a change of mode the content; what they change
\* is in the metadata.
AppendFits(w, m, b) ==
  /\ w.dest = b[2] /\ IsFile(b[1])
  /\ IsFile(w.target) /\ w.target.mode = b[1].mode /\ m.hash = b[1].data

ChmodFits(w, m, b) ==
  /\ w.dest = b[2] /\ IsFile(b[1])
  /\ IsFile(w.target) /\ w.target.data = b[1].data /\ m.mode = b[1].mode

DirCreateFits(w, b) ==
  /\ w.dest = b[2] /\ b[1].kind \notin {"dir", "full"}
  /\ w.target = b[1] \/ (b[1] = Absent /\ w.target = Dir)

DirDeleteFits(w, b) == w.dest = b[2] /\ b[1] = Dir /\ w.target \in {Dir, Absent}

FsDone(a, w, m, s, b, f, l) ==
  /\ a = "FileWrite" => FileFits(w, m, b, f, l)
  /\ a = "FileDelete" => IsFile(b[1]) /\ ~m.newFile /\ FileFits(w, m, b, f, l)
  /\ a = "FileMove" => MoveFits(w, m, s, b)
  /\ a = "FileCopy" => CopyFits(w, m, s, b, f)
  /\ a = "FileAppend" => AppendFits(w, m, b)
  /\ a = "FileChmod" => ChmodFits(w, m, b)
  /\ a = "DirCreate" => DirCreateFits(w, b)
  /\ a = "DirDelete" => DirDeleteFits(w, b)

FsFits(a, w, m, s, b, f, l) ==
  /\ ~w.linked /\ FsBefore(b)
  /\ w.parent = b[3] \/ (a = "FileCopy" /\ b[3] = "missing")
  /\ s # "fresh" => "target" \in w.inside
  /\ s = "fresh" => /\ w.target = b[1] /\ w.dest = b[2]
                    /\ w.snapDest = Absent /\ w.snapTarget \in {Absent, b[1]}
  /\ s # "fresh" => FsDone(a, w, m, s, b, f, l)

------------------------------------------------------------------------------
(* execute, action by action *)

\* What a call of execute has to leave behind.
FsExecuted(a, w, m, r, b, f, l) ==
  /\ r.world \in FsWorld /\ ~r.world.linked /\ r.world.inside = w.inside
  /\ r.world.parent = w.parent \/ (a = "FileCopy" /\ r.world.parent = "there")
  /\ r.answer = "ok" => r.meta \in FsMeta
  /\ FsBefore(b) /\ FsDone(a, w, m, "prepared", b, f, l) =>
       /\ r.answer = "ok" => FsDone(a, r.world, r.meta, "executed", b, f, l)
       /\ r.answer # "ok" => FsDone(a, r.world, m, "ambiguous", b, f, l)

\* A new content, perhaps only in part.
LEMMA FsWriteDone ==
  ASSUME NEW w \in FsWorld, ~w.linked, NEW m \in FsMeta, NEW r \in FsExecuteWrite(w, m),
         NEW b, NEW f, NEW l
  PROVE  FsExecuted("FileWrite", w, m, r, b, f, l)
<1>1. /\ w.target \in Nodes /\ <<"new">> \in Seq(Text)
      /\ w.target.mode \in {"none", "old", "asked"}
  <2>1. w.target \in Nodes
    BY DEF FsWorld
  <2>2. <<"new">> \in Seq(Text)
    <3>1. \A x \in Text : <<x>> \in Seq(Text)
      OBVIOUS
    <3>2. "new" \in Text
      BY DEF Text
    <3> QED
      BY <3>1, <3>2, Zenon
  <2> QED
    BY <2>1, <2>2 DEF Nodes
<1> DEFINE n == Node("file", <<"new">>, IF IsFile(w.target) THEN w.target.mode ELSE "old")
<1>2. n \in Nodes /\ IsFile(n)
  <2> DEFINE mode == IF IsFile(w.target) THEN w.target.mode ELSE "old"
             new == <<"new">>
  <2>1. mode \in {"none", "old", "asked"} /\ new \in Seq(Text)
        /\ "file" \in {"absent", "dir", "full", "file"}
    BY <1>1
  <2> HIDE DEF mode, new
  <2>2. Node("file", new, mode) \in Nodes /\ Node("file", new, mode).kind = "file"
    <3>1. \A d \in Seq(Text), k \in {"absent", "dir", "full", "file"}, m2 \in {"none", "old", "asked"} :
            Node(k, d, m2) \in Nodes /\ Node(k, d, m2).kind = k
      BY NodesAre
    <3>2. \A k \in {"absent", "dir", "full", "file"}, m2 \in {"none", "old", "asked"} :
            Node(k, new, m2) \in Nodes /\ Node(k, new, m2).kind = k
      BY <2>1, <3>1, Zenon
    <3> QED
      BY <2>1, <3>2
  <2> QED
    BY <2>2 DEF IsFile, mode, new
<1>3. \/ r = Err(w)
      \/ r = Ok(Put(w, "target", n), m) /\ w.target.kind \notin {"dir", "full"}
      \/ (\E v \in Torn(w, "target") : r = Err(v)) /\ w.target.kind \notin {"dir", "full"}
  BY DEF FsExecuteWrite
<1> HIDE DEF n
<1>4. SetTarget(Put(w, "target", n), w, n)
  BY <1>2, PutIs
<1>5. /\ r.answer = "ok" => r.meta = m
      /\ \/ r.world = w
         \/ /\ \E k \in Nodes : IsFile(k) /\ SetTarget(r.world, w, k)
            /\ w.target.kind \notin {"dir", "full"}
  BY <1>2, <1>3, <1>4, TornIs DEF Ok, Err
<1>6. CASE r.world = w
  BY <1>5, <1>6 DEF FsExecuted, FsDone
<1>7. ASSUME NEW k \in Nodes, IsFile(k), SetTarget(r.world, w, k),
             w.target.kind \notin {"dir", "full"}
      PROVE  FsExecuted("FileWrite", w, m, r, b, f, l)
  <2>1. Kept(r.world, w)
    BY <1>7 DEF SetTarget
  <2>2. FsBefore(b) /\ FileFits(w, m, b, f, l) => FileFits(r.world, m, b, f, l)
    <3> SUFFICES ASSUME FsBefore(b), FileFits(w, m, b, f, l) PROVE FileFits(r.world, m, b, f, l)
      OBVIOUS
    <3>1. b[1] \in Nodes /\ (b[1].kind = "absent" => b[1] = Absent)
      BY DEF FsBefore
    <3>2. m.newFile => b[1] = Absent
      BY <1>7, <3>1 DEF FileFits, Nodes, IsFile
    <3> QED
      BY <1>7, <3>2 DEF FileFits, SetTarget
  <2> QED
    BY <1>5, <2>1, <2>2 DEF FsExecuted, FsDone, Kept
<1> QED
  BY <1>5, <1>6, <1>7

\* A removed file.
LEMMA FsDeleteDone ==
  ASSUME NEW w \in FsWorld, ~w.linked, NEW m \in FsMeta, NEW r \in FsExecuteDelete(w, m),
         NEW b, NEW f, NEW l
  PROVE  FsExecuted("FileDelete", w, m, r, b, f, l)
<1>1. r = Err(w) \/ r = Ok(Put(w, "target", Absent), m)
  BY DEF FsExecuteDelete
<1>2. SetTarget(Put(w, "target", Absent), w, Absent)
  BY NodesAre, PutIs
<1>3. /\ r.answer = "ok" => r.meta = m
      /\ r.world = w \/ SetTarget(r.world, w, Absent)
  BY <1>1, <1>2 DEF Ok, Err
<1>4. CASE r.world = w
  BY <1>3, <1>4 DEF FsExecuted, FsDone, Kept
<1>5. CASE SetTarget(r.world, w, Absent)
  BY <1>3, <1>5 DEF FsExecuted, FsDone, SetTarget, FileFits, Kept
<1> QED
  BY <1>3, <1>4, <1>5

\* A move leaves the content at the destination, or half of it and the source.
LEMMA FsMoveDone ==
  ASSUME NEW w \in FsWorld, ~w.linked, NEW m \in FsMeta, NEW r \in FsExecuteMove(w, m),
         NEW b, NEW f, NEW l
  PROVE  FsExecuted("FileMove", w, m, r, b, f, l)
<1> DEFINE copied == Put(w, "dest", w.target)
           moved == Put(copied, "target", Absent)
           m1 == [m EXCEPT !.dest = TRUE, !.cross = TRUE]
           m2 == [m EXCEPT !.dest = TRUE]
<1>1. w.target \in Nodes
  BY DEF FsWorld
<1>2. SetDest(copied, w, w.target)
  BY <1>1, PutIs
<1>3. Kept(copied, w) /\ copied \in FsWorld /\ ~copied.linked
  BY <1>2 DEF SetDest, Kept
<1>4. \/ r = Err(w)
      \/ r = Err(copied)
      \/ \E v \in Torn(w, "dest") : r = Err(v)
      \/ (r = Ok(moved, m1) \/ r = Ok(moved, m2)) /\ IsFile(w.target)
  BY DEF FsExecuteMove
<1> HIDE DEF copied
<1>5. SetTarget(moved, copied, Absent)
  BY <1>3, NodesAre, PutIs
<1>6. m1 \in FsMeta /\ m2 \in FsMeta /\ m1.dest /\ m2.dest
  BY DEF FsMeta
<1>7. /\ Kept(moved, w) /\ moved.dest = w.target /\ moved.target = Absent
      /\ moved.snapTarget = w.snapTarget
  BY <1>2, <1>5 DEF SetTarget, SetDest, Kept
<1> HIDE DEF moved, m1, m2
<1>8. CASE r.answer = "ok"
  <2>1. r.world = moved /\ r.meta \in {m1, m2} /\ IsFile(w.target)
    BY <1>4, <1>8 DEF Ok, Err
  <2> QED
    BY <1>6, <1>7, <1>8, <2>1 DEF FsExecuted, FsDone, MoveFits, Kept
<1>9. CASE r.answer # "ok"
  <2>1. r.world = w \/ r.world = copied \/ r.world \in Torn(w, "dest")
    BY <1>4, <1>9 DEF Ok, Err
  <2>2. Kept(r.world, w)
    BY <1>3, <2>1, TornIs DEF SetDest, Kept
  <2> QED
    BY <1>9, <2>2 DEF FsExecuted, FsDone, MoveFits, Kept
<1> QED
  BY <1>8, <1>9

\* A copy keeps the destination that it replaces.
LEMMA FsCopyDone ==
  ASSUME NEW w \in FsWorld, ~w.linked, NEW m \in FsMeta, NEW r \in FsExecuteCopy(w, m),
         NEW b, NEW f, NEW l
  PROVE  FsExecuted("FileCopy", w, m, r, b, f, l)
<1> DEFINE new == ~IsFile(w.dest)
           kept == IF new THEN [w EXCEPT !.parent = "there"] ELSE [w EXCEPT !.snapDest = w.dest]
           put == Put(kept, "dest", w.target)
           m1 == [m EXCEPT !.dest = TRUE, !.newDest = new]
<1>1. w.target \in Nodes /\ w.dest \in Nodes /\ new \in BOOLEAN
  BY DEF FsWorld
<1>2. /\ kept \in FsWorld /\ ~kept.linked /\ kept.target = w.target /\ kept.dest = w.dest
      /\ kept.inside = w.inside /\ kept.parent \in {w.parent, "there"}
      /\ ~new => kept.snapDest = w.dest
  <2>1. CASE new
    <3> DEFINE v == [w EXCEPT !.parent = "there"]
    <3>1. /\ v \in FsWorld /\ v.linked = w.linked /\ v.target = w.target /\ v.dest = w.dest
          /\ v.inside = w.inside /\ v.parent = "there"
      BY DEF FsWorld
    <3>2. kept = v
      BY <2>1
    <3> HIDE DEF v, kept, new
    <3> QED
      BY <2>1, <3>1, <3>2
  <2>2. CASE ~new
    <3> DEFINE v == [w EXCEPT !.snapDest = w.dest]
    <3>1. SetSnaps(v, w, w.snapTarget, w.dest)
      BY <1>1, SnapIs
    <3>2. kept = v
      BY <2>2
    <3> HIDE DEF v, kept, new
    <3> QED
      BY <3>1, <3>2 DEF SetSnaps, Kept
  <2> QED
    BY <2>1, <2>2
<1>3. \/ r = Err(w) \/ r = Err(kept)
      \/ IsFile(w.target) /\ (r = Ok(put, m1) \/ r = Err(put) \/ \E v \in Torn(kept, "dest") : r = Err(v))
  BY DEF FsExecuteCopy
<1>4. m1 \in FsMeta /\ m1.dest /\ m1.newDest = new
  <2> HIDE DEF new
  <2> QED
    BY <1>1 DEF FsMeta
<1> HIDE DEF kept, m1
<1>5. SetDest(put, kept, w.target)
  BY <1>1, <1>2, PutIs
<1>6. /\ put \in FsWorld /\ ~put.linked /\ put.target = w.target /\ put.dest = w.target
      /\ put.inside = w.inside /\ put.parent \in {w.parent, "there"}
      /\ ~new => put.snapDest = w.dest
  BY <1>2, <1>5 DEF SetDest, Kept
<1> HIDE DEF put
<1>7. CASE r.answer = "ok"
  <2>1. r.world = put /\ r.meta = m1 /\ IsFile(w.target)
    BY <1>3, <1>7 DEF Ok, Err
  <2>2. ASSUME FsBefore(b), CopyFits(w, m, "prepared", b, f)
        PROVE  CopyFits(put, m1, "executed", b, f)
    <3>1. w.target = b[1] /\ w.dest = b[2] /\ (b[2] = Absent \/ IsFile(b[2]))
      BY <2>2 DEF FsBefore, CopyFits
    <3>2. CASE new
      BY <1>4, <1>6, <2>1, <3>1, <3>2 DEF CopyFits
    <3>3. CASE ~new
      BY <1>4, <1>6, <2>1, <3>1, <3>3 DEF CopyFits
    <3> QED
      BY <3>2, <3>3
  <2> QED
    BY <1>4, <1>6, <1>7, <2>1, <2>2 DEF FsExecuted, FsDone, Kept
<1>8. CASE r.answer # "ok"
  <2>1. r.world = w \/ r.world = kept \/ r.world = put \/ r.world \in Torn(kept, "dest")
    BY <1>3, <1>8 DEF Ok, Err
  <2>2. /\ r.world \in FsWorld /\ ~r.world.linked /\ r.world.target = w.target
        /\ r.world.inside = w.inside /\ r.world.parent \in {w.parent, "there"}
    BY <1>2, <1>6, <2>1, TornIs DEF SetDest, Kept
  <2> QED
    BY <1>8, <2>2 DEF FsExecuted, FsDone, CopyFits, Kept
<1> QED
  BY <1>7, <1>8

\* An append makes the file longer.
LEMMA FsAppendDone ==
  ASSUME NEW w \in FsWorld, ~w.linked, NEW m \in FsMeta, NEW r \in FsExecuteAppend(w, m),
         NEW b, NEW f, NEW l
  PROVE  FsExecuted("FileAppend", w, m, r, b, f, l)
<1> DEFINE n == [w.target EXCEPT !.data = Append(w.target.data, "app")]
           grown == Put(w, "target", n)
<1>1. w.target \in Nodes
  BY DEF FsWorld
<1>2. w.target.data \in Seq(Text)
  BY <1>1 DEF Nodes
<1>3. Append(w.target.data, "app") \in Seq(Text)
  <2>1. \A x \in Text : \A q \in Seq(Text) : Append(q, x) \in Seq(Text)
    OBVIOUS
  <2>2. "app" \in Text
    BY DEF Text
  <2> QED
    BY <1>2, <2>1, <2>2, Zenon
<1>4. n \in Nodes /\ n.kind = w.target.kind /\ n.mode = w.target.mode
  BY <1>1, <1>3 DEF Nodes
<1>5. r = Err(w) \/ r = Ok(grown, m) \/ r = Err(grown)
  BY DEF FsExecuteAppend
<1> HIDE DEF n
<1>6. SetTarget(grown, w, n)
  BY <1>4, PutIs
<1> HIDE DEF grown
<1>7. /\ r.answer = "ok" => r.meta = m
      /\ r.world = w \/ SetTarget(r.world, w, n)
  BY <1>5, <1>6 DEF Ok, Err
<1>8. CASE r.world = w
  BY <1>7, <1>8 DEF FsExecuted, FsDone, Kept
<1>9. CASE SetTarget(r.world, w, n)
  BY <1>4, <1>7, <1>9 DEF FsExecuted, FsDone, SetTarget, AppendFits, IsFile, Kept
<1> QED
  BY <1>7, <1>8, <1>9

\* A change of mode leaves the content.
LEMMA FsChmodDone ==
  ASSUME NEW w \in FsWorld, ~w.linked, NEW m \in FsMeta, NEW r \in FsExecuteChmod(w, m),
         NEW b, NEW f, NEW l
  PROVE  FsExecuted("FileChmod", w, m, r, b, f, l)
<1> DEFINE n == [w.target EXCEPT !.mode = "asked"]
           changed == Put(w, "target", n)
<1>1. w.target \in Nodes
  BY DEF FsWorld
<1>2. n \in Nodes /\ n.kind = w.target.kind /\ n.data = w.target.data
  BY <1>1 DEF Nodes
<1>3. r = Err(w) \/ r = Ok(changed, m) \/ r = Err(changed)
  BY DEF FsExecuteChmod
<1> HIDE DEF n
<1>4. SetTarget(changed, w, n)
  BY <1>2, PutIs
<1> HIDE DEF changed
<1>5. /\ r.answer = "ok" => r.meta = m
      /\ r.world = w \/ SetTarget(r.world, w, n)
  BY <1>3, <1>4 DEF Ok, Err
<1>6. CASE r.world = w
  BY <1>5, <1>6 DEF FsExecuted, FsDone, Kept
<1>7. CASE SetTarget(r.world, w, n)
  BY <1>2, <1>5, <1>7 DEF FsExecuted, FsDone, SetTarget, ChmodFits, IsFile, Kept
<1> QED
  BY <1>5, <1>6, <1>7

\* A directory is made where nothing was, or an empty one is removed.
LEMMA FsDirDone ==
  ASSUME NEW w \in FsWorld, ~w.linked, NEW m \in FsMeta, NEW r, NEW b, NEW f, NEW l
  PROVE  /\ r \in FsExecuteDirCreate(w, m) => FsExecuted("DirCreate", w, m, r, b, f, l)
         /\ r \in FsExecuteDirDelete(w, m) => FsExecuted("DirDelete", w, m, r, b, f, l)
<1>1. SetTarget(Put(w, "target", Dir), w, Dir) /\ SetTarget(Put(w, "target", Absent), w, Absent)
  BY NodesAre, PutIs
<1>2. ASSUME r \in FsExecuteDirCreate(w, m) PROVE FsExecuted("DirCreate", w, m, r, b, f, l)
  <2>1. r = Err(w) \/ (r = Ok(Put(w, "target", Dir), m) /\ w.target = Absent)
    BY <1>2 DEF FsExecuteDirCreate
  <2>2. /\ r.answer = "ok" => r.meta = m
        /\ r.world = w \/ (SetTarget(r.world, w, Dir) /\ w.target = Absent)
    BY <1>1, <2>1 DEF Ok, Err
  <2>3. Absent # Dir
    BY NodesAre
  <2>4. CASE r.world = w
    BY <2>2, <2>4 DEF FsExecuted, FsDone, Kept
  <2>5. CASE SetTarget(r.world, w, Dir) /\ w.target = Absent
    BY <2>2, <2>3, <2>5 DEF FsExecuted, FsDone, SetTarget, DirCreateFits, Kept
  <2> QED
    BY <2>2, <2>4, <2>5
<1>3. ASSUME r \in FsExecuteDirDelete(w, m) PROVE FsExecuted("DirDelete", w, m, r, b, f, l)
  <2>1. r = Err(w) \/ r = Ok(Put(w, "target", Absent), m)
    BY <1>3 DEF FsExecuteDirDelete
  <2>2. /\ r.answer = "ok" => r.meta = m
        /\ r.world = w \/ SetTarget(r.world, w, Absent)
    BY <1>1, <2>1 DEF Ok, Err
  <2>3. CASE r.world = w
    BY <2>2, <2>3 DEF FsExecuted, FsDone, Kept
  <2>4. CASE SetTarget(r.world, w, Absent)
    BY <2>2, <2>4 DEF FsExecuted, FsDone, SetTarget, DirDeleteFits, Kept
  <2> QED
    BY <2>2, <2>3, <2>4
<1> QED
  BY <1>2, <1>3

\* With nobody in between, execute does nothing or what its action says.
LEMMA FsExecuteDone ==
  ASSUME NEW w \in FsWorld, NEW m \in FsMeta, NEW a \in FsActions, NEW r \in FsExecute(a, w, w, m),
         NEW b, NEW f, NEW l
  PROVE  (r.world = w /\ r.answer # "ok") \/ FsExecuted(a, w, m, r, b, f, l)
<1>1. CASE ~Revalidated(a, w)
  BY <1>1 DEF FsExecute, Err
<1>2. CASE Revalidated(a, w)
  <2>0. ~w.linked
    BY <1>2 DEF Revalidated, InSandbox
  <2>1. CASE a = "FileWrite"
    BY <1>2, <2>0, <2>1, FsWriteDone DEF FsExecute
  <2>2. CASE a = "FileDelete"
    BY <1>2, <2>0, <2>2, FsDeleteDone DEF FsExecute
  <2>3. CASE a = "FileMove"
    BY <1>2, <2>0, <2>3, FsMoveDone DEF FsExecute
  <2>4. CASE a = "FileCopy"
    BY <1>2, <2>0, <2>4, FsCopyDone DEF FsExecute
  <2>5. CASE a = "FileAppend"
    BY <1>2, <2>0, <2>5, FsAppendDone DEF FsExecute
  <2>6. CASE a = "FileChmod"
    BY <1>2, <2>0, <2>6, FsChmodDone DEF FsExecute
  <2>7. CASE a \in {"DirCreate", "DirDelete"}
    BY <1>2, <2>0, <2>7, FsDirDone DEF FsExecute
  <2> QED
    BY <2>1, <2>2, <2>3, <2>4, <2>5, <2>6, <2>7 DEF FsActions
<1> QED
  BY <1>1, <1>2

------------------------------------------------------------------------------
(* rollback, action by action *)

\* What a call of rollback has to leave behind; g is whether the adapter is known
\* to leave a gap.
FsUndone(a, w, m, s, r, b, f, l, g) ==
  /\ Kept(r.world, w)
  /\ FsBefore(b) /\ FsDone(a, w, m, s, b, f, l) /\ s # "prepared" =>
       /\ FsDone(a, r.world, m, s, b, f, l)
       /\ r.answer = "recovered" /\ ~g => r.world.target = b[1] /\ r.world.dest = b[2]

\* A file is brought back from its snapshot, or removed again.
LEMMA FsFileUndone ==
  ASSUME NEW w \in FsWorld, ~w.linked, NEW m \in FsMeta, NEW r \in FsRollbackFile(w, m),
         NEW b, NEW f, NEW l, NEW s
  PROVE  /\ FsUndone("FileWrite", w, m, s, r, b, f, l, l)
         /\ FsUndone("FileDelete", w, m, s, r, b, f, l, l)
<1>1. w.snapTarget \in Nodes /\ w.target \in Nodes /\ m.newFile \in BOOLEAN
  BY DEF FsWorld, FsMeta
<1>2. /\ SetTarget(Put(w, "target", Absent), w, Absent)
      /\ SetTarget(Put(w, "target", w.snapTarget), w, w.snapTarget)
  BY <1>1, NodesAre, PutIs
<1>3. ~IsFile(Absent)
  BY NodesAre DEF IsFile
<1>4. CASE m.newFile
  <2>1. \/ r = Recovered(Put(w, "target", Absent)) /\ IsFile(w.target)
        \/ r = Recovered(w) /\ ~IsFile(w.target)
        \/ r = Incomplete(w)
    BY <1>4 DEF FsRollbackFile
  <2>2. \/ SetTarget(r.world, w, Absent) /\ IsFile(w.target)
        \/ r.world = w /\ (r.answer = "recovered" => ~IsFile(w.target))
    BY <1>2, <2>1 DEF Recovered, Incomplete
  <2>3. CASE SetTarget(r.world, w, Absent) /\ IsFile(w.target)
    <3>1. FileFits(w, m, b, f, l) => FileFits(r.world, m, b, f, l) /\ r.world.target = b[1]
      BY <1>4, <2>3 DEF FileFits, SetTarget
    <3> QED
      BY <1>4, <2>3, <3>1 DEF FsUndone, FsDone, SetTarget, FileFits, Kept
  <2>4. CASE r.world = w /\ (r.answer = "recovered" => ~IsFile(w.target))
    BY <1>4, <2>4 DEF FsUndone, FsDone, FileFits, Kept
  <2> QED
    BY <2>2, <2>3, <2>4
<1>5. CASE ~m.newFile /\ w.snapTarget = Absent
  <2>1. r = Err(w)
    BY <1>5 DEF FsRollbackFile
  <2> QED
    BY <2>1 DEF Err, FsUndone, FsDone, Kept
<1>6. CASE ~m.newFile /\ w.snapTarget # Absent
  <2>1. \/ r = Recovered(Put(w, "target", w.snapTarget))
        \/ \E v \in Torn(w, "target") : r = Incomplete(v)
    BY <1>6 DEF FsRollbackFile
  <2>2. \/ SetTarget(r.world, w, w.snapTarget)
        \/ r.world = w /\ r.answer # "recovered"
        \/ (\E n \in Nodes : SetTarget(r.world, w, n)) /\ r.answer # "recovered"
    BY <1>2, <2>1, TornIs DEF Recovered, Incomplete
  <2>3. CASE SetTarget(r.world, w, w.snapTarget)
    <3>1. FileFits(w, m, b, f, l) => FileFits(r.world, m, b, f, l)
      BY <1>6, <2>3 DEF FileFits, SetTarget
    <3>2. FileFits(w, m, b, f, l) /\ ~l => r.world.target = b[1] /\ r.world.dest = b[2]
      BY <1>6, <2>3 DEF FileFits, SetTarget
    <3> QED
      BY <2>3, <3>1, <3>2 DEF FsUndone, FsDone, SetTarget, Kept
  <2>4. CASE r.world = w /\ r.answer # "recovered"
    BY <2>4 DEF FsUndone, FsDone, Kept
  <2>5. ASSUME NEW n \in Nodes, SetTarget(r.world, w, n), r.answer # "recovered"
        PROVE  /\ FsUndone("FileWrite", w, m, s, r, b, f, l, l)
               /\ FsUndone("FileDelete", w, m, s, r, b, f, l, l)
    <3>1. FileFits(w, m, b, f, l) => FileFits(r.world, m, b, f, l)
      BY <1>6, <2>5 DEF FileFits, SetTarget
    <3> QED
      BY <2>5, <3>1 DEF FsUndone, FsDone, SetTarget, Kept
  <2> QED
    BY <2>2, <2>3, <2>4, <2>5
<1> QED
  BY <1>1, <1>4, <1>5, <1>6

\* A move goes back by renaming or, across devices, from the snapshot.
LEMMA FsMoveUndone ==
  ASSUME NEW w \in FsWorld, ~w.linked, NEW m \in FsMeta, NEW r \in FsRollbackMove(w, m),
         NEW b, NEW f, NEW l, NEW s
  PROVE  FsUndone("FileMove", w, m, s, r, b, f, l, b[2] # Absent)
<1> DEFINE t == Put(w, "target", w.dest)
           back == Put(t, "dest", Absent)
           gone == Put(w, "dest", Absent)
           again == Put(gone, "target", w.snapTarget)
<1>1. w.snapTarget \in Nodes /\ w.dest \in Nodes /\ m.dest \in BOOLEAN /\ m.cross \in BOOLEAN
  BY DEF FsWorld, FsMeta
<1>2. SetTarget(t, w, w.dest) /\ SetDest(gone, w, Absent)
  BY <1>1, NodesAre, PutIs
<1>3. /\ Kept(t, w) /\ t \in FsWorld /\ ~t.linked
      /\ Kept(gone, w) /\ gone \in FsWorld /\ ~gone.linked
  BY <1>2 DEF SetTarget, SetDest, Kept
<1>4. \/ r = Err(w)
      \/ /\ IsFile(w.dest) /\ m.dest
         /\ \/ r = Incomplete(w) \/ r = Incomplete(gone) \/ r = Incomplete(back)
            \/ r = Err(back)
            \/ \E v \in Torn(gone, "target") : r = Incomplete(v)
            \/ r = Recovered(again) /\ w.snapTarget # Absent
            \/ r = Recovered(back)
  BY <1>1 DEF FsRollbackMove
<1> HIDE DEF t, gone
<1>5. SetDest(back, t, Absent) /\ SetTarget(again, gone, w.snapTarget)
  BY <1>1, <1>3, NodesAre, PutIs
<1>6. /\ Kept(back, w) /\ back.dest = Absent /\ back.target = w.dest
      /\ Kept(again, w) /\ again.dest = Absent /\ again.target = w.snapTarget
      /\ gone.dest = Absent
  BY <1>2, <1>3, <1>5 DEF SetDest, SetTarget, Kept
<1> HIDE DEF back, again
<1>7. \A v \in Torn(gone, "target") : Kept(v, w) /\ v.dest = Absent
  BY <1>3, <1>6, TornIs DEF SetTarget, Kept
<1>8. \/ r.world = w /\ r.answer # "recovered"
      \/ /\ IsFile(w.dest) /\ m.dest
         /\ Kept(r.world, w) /\ r.world.dest = Absent
         /\ r.answer = "recovered" =>
              r.world.target = w.dest \/ (r.world.target = w.snapTarget /\ w.snapTarget # Absent)
  BY <1>3, <1>4, <1>6, <1>7 DEF Err, Incomplete, Recovered
<1>9. CASE r.world = w /\ r.answer # "recovered"
  BY <1>9 DEF FsUndone, FsDone, Kept
<1>10. CASE /\ IsFile(w.dest) /\ m.dest
            /\ Kept(r.world, w) /\ r.world.dest = Absent
            /\ r.answer = "recovered" =>
                 r.world.target = w.dest \/ (r.world.target = w.snapTarget /\ w.snapTarget # Absent)
  <2>1. ~IsFile(Absent)
    BY NodesAre DEF IsFile
  <2>2. ASSUME s # "prepared", MoveFits(w, m, s, b)
        PROVE  /\ MoveFits(r.world, m, s, b)
               /\ r.answer = "recovered" => r.world.target = b[1]
    <3>1. w.dest = b[1] /\ w.snapTarget \in {Absent, b[1]}
      BY <1>10, <2>1, <2>2 DEF MoveFits
    <3> QED
      BY <1>10, <2>2, <3>1 DEF MoveFits
  <2> QED
    BY <1>10, <2>2 DEF FsUndone, FsDone, Kept
<1> QED
  BY <1>8, <1>9, <1>10

\* A copy is undone by removing or restoring its destination.
LEMMA FsCopyUndone ==
  ASSUME NEW w \in FsWorld, ~w.linked, NEW m \in FsMeta, NEW r \in FsRollbackCopy(w, m),
         NEW b, NEW f, NEW l, NEW s
  PROVE  FsUndone("FileCopy", w, m, s, r, b, f, l, f)
<1> DEFINE cleared == IF IsFile(w.dest) THEN Put(w, "dest", Absent) ELSE w
           again == Put(w, "dest", w.snapDest)
<1>1. w.snapDest \in Nodes /\ w.dest \in Nodes /\ m.dest \in BOOLEAN /\ m.newDest \in BOOLEAN
  BY DEF FsWorld, FsMeta
<1>2. SetDest(Put(w, "dest", Absent), w, Absent) /\ SetDest(again, w, w.snapDest)
  BY <1>1, NodesAre, PutIs
<1>3. /\ Kept(cleared, w) /\ cleared.target = w.target
      /\ cleared.snapDest = w.snapDest
      /\ cleared.dest = IF IsFile(w.dest) THEN Absent ELSE w.dest
  BY <1>2 DEF SetDest, Kept
<1>4. \/ r = Err(w)
      \/ m.dest /\ (m.newDest \/ w.snapDest = Absent) /\ (r = Recovered(cleared) \/ r = Incomplete(w))
      \/ /\ m.dest /\ ~m.newDest /\ w.snapDest # Absent
         /\ r = Recovered(again) \/ \E v \in Torn(w, "dest") : r = Incomplete(v)
  BY <1>1 DEF FsRollbackCopy
<1> HIDE DEF cleared, again
<1>5. ~IsFile(Absent)
  BY NodesAre DEF IsFile
<1>6. CASE r = Err(w) \/ r = Incomplete(w)
  <2>1. r.world = w /\ r.answer # "recovered"
    BY <1>6 DEF Err, Incomplete
  <2> QED
    BY <2>1 DEF FsUndone, FsDone, Kept
<1>7. CASE m.dest /\ (m.newDest \/ w.snapDest = Absent) /\ r = Recovered(cleared)
  <2>1. r.world = cleared
    BY <1>7 DEF Recovered
  <2>2. ASSUME s # "prepared", CopyFits(w, m, s, b, f)
        PROVE  CopyFits(r.world, m, s, b, f) /\ (~f => cleared.dest = b[2])
    <3>1. CASE m.newDest
      BY <1>3, <1>7, <2>1, <2>2, <3>1 DEF CopyFits
    <3>2. CASE ~m.newDest
      BY <1>3, <1>5, <1>7, <2>1, <2>2, <3>2 DEF CopyFits
    <3> QED
      BY <1>1, <3>1, <3>2
  <2> QED
    BY <1>3, <2>1, <2>2 DEF FsUndone, FsDone, CopyFits, Kept
<1>8. CASE /\ m.dest /\ ~m.newDest /\ w.snapDest # Absent
           /\ r = Recovered(again) \/ \E v \in Torn(w, "dest") : r = Incomplete(v)
  <2>1. \/ r.world = w /\ r.answer # "recovered"
        \/ SetDest(r.world, w, w.snapDest)
        \/ (\E n \in Nodes : SetDest(r.world, w, n)) /\ r.answer # "recovered"
    BY <1>2, <1>8, TornIs DEF Recovered, Incomplete
  <2>2. ASSUME NEW n \in Nodes, SetDest(r.world, w, n), r.answer = "recovered" => n = w.snapDest
        PROVE  FsUndone("FileCopy", w, m, s, r, b, f, l, f)
    BY <1>8, <2>2 DEF FsUndone, FsDone, CopyFits, SetDest, Kept
  <2>3. CASE r.world = w /\ r.answer # "recovered"
    BY <2>3 DEF FsUndone, FsDone, Kept
  <2> QED
    BY <1>1, <2>1, <2>2, <2>3
<1> QED
  BY <1>4, <1>6, <1>7, <1>8

\* An append is cut off again, and reported only if the content is the old one.
LEMMA FsAppendUndone ==
  ASSUME NEW w \in FsWorld, ~w.linked, NEW m \in FsMeta, NEW r \in FsRollbackAppend(w, m),
         NEW b, NEW f, NEW l, NEW s
  PROVE  FsUndone("FileAppend", w, m, s, r, b, f, l, FALSE)
<1> DEFINE top == IF Len(w.target.data) > m.length THEN m.length ELSE Len(w.target.data)
           kept == SubSeq(w.target.data, 1, top)
           n == [w.target EXCEPT !.data = kept]
           cut == Put(w, "target", n)
<1>1. w.target \in Nodes /\ m.length \in Nat
  BY DEF FsWorld, FsMeta
<1>2. w.target.data \in Seq(Text)
  BY <1>1 DEF Nodes
<1>3. Len(w.target.data) \in Nat /\ top \in Nat /\ top <= Len(w.target.data)
  <2>1. Len(w.target.data) \in Nat
    BY <1>2
  <2> QED
    BY <1>1, <2>1
<1>4. kept \in Seq(Text)
  <2> HIDE DEF top
  <2> QED
    BY <1>2, <1>3
<1>5. \/ r = Incomplete(w)
      \/ (\E v \in Torn(w, "target") : r = Incomplete(v)) /\ IsFile(w.target)
      \/ r = Err(cut) /\ IsFile(w.target)
      \/ r = Recovered(cut) /\ kept = m.hash /\ IsFile(w.target)
  BY DEF FsRollbackAppend
<1> HIDE DEF kept
<1>6. n \in Nodes /\ n.kind = w.target.kind /\ n.mode = w.target.mode /\ n.data = kept
  BY <1>1, <1>4 DEF Nodes
<1> HIDE DEF n
<1>7. SetTarget(cut, w, n)
  BY <1>6, PutIs
<1> HIDE DEF cut
<1>8. \/ r.world = w /\ r.answer # "recovered"
      \/ \E k \in Nodes : /\ SetTarget(r.world, w, k) /\ IsFile(k) /\ k.mode = w.target.mode
                          /\ r.answer = "recovered" => k.data = m.hash
  <2>1. CASE r = Incomplete(w)
    BY <2>1 DEF Incomplete
  <2>2. CASE \E v \in Torn(w, "target") : r = Incomplete(v)
    BY <2>2, TornIs DEF Incomplete
  <2>3. CASE r = Err(cut) /\ IsFile(w.target)
    BY <1>6, <1>7, <2>3 DEF Err, IsFile
  <2>4. CASE r = Recovered(cut) /\ kept = m.hash /\ IsFile(w.target)
    BY <1>6, <1>7, <2>4 DEF Recovered, IsFile
  <2> QED
    BY <1>5, <2>1, <2>2, <2>3, <2>4
<1>9. CASE r.world = w /\ r.answer # "recovered"
  BY <1>9 DEF FsUndone, FsDone, Kept
<1>10. ASSUME NEW k \in Nodes, SetTarget(r.world, w, k), IsFile(k), k.mode = w.target.mode,
              r.answer = "recovered" => k.data = m.hash
       PROVE  FsUndone("FileAppend", w, m, s, r, b, f, l, FALSE)
  <2>1. ASSUME FsBefore(b), AppendFits(w, m, b), r.answer = "recovered" PROVE k = b[1]
    <3>1. b[1] \in Nodes /\ b[1].kind = "file" /\ b[1].mode = k.mode /\ b[1].data = k.data
      BY <1>10, <2>1 DEF FsBefore, AppendFits, IsFile
    <3>2. k.kind = "file"
      BY <1>10 DEF IsFile
    <3> QED
      BY <3>1, <3>2 DEF Nodes
  <2>2. AppendFits(w, m, b) => AppendFits(r.world, m, b) /\ r.world.dest = b[2]
    BY <1>10 DEF AppendFits, SetTarget
  <2> QED
    BY <1>10, <2>1, <2>2 DEF FsUndone, FsDone, SetTarget, Kept
<1> QED
  BY <1>8, <1>9, <1>10

\* The mode is set back.
LEMMA FsChmodUndone ==
  ASSUME NEW w \in FsWorld, ~w.linked, NEW m \in FsMeta, NEW r \in FsRollbackChmod(w, m),
         NEW b, NEW f, NEW l, NEW s
  PROVE  FsUndone("FileChmod", w, m, s, r, b, f, l, FALSE)
<1> DEFINE n == [w.target EXCEPT !.mode = m.mode]
           changed == Put(w, "target", n)
<1>1. w.target \in Nodes /\ m.mode \in {"none", "old", "asked"}
  BY DEF FsWorld, FsMeta
<1>2. n \in Nodes /\ n.kind = w.target.kind /\ n.data = w.target.data /\ n.mode = m.mode
  BY <1>1 DEF Nodes
<1>3. r = Incomplete(w) \/ r = Recovered(changed)
  BY DEF FsRollbackChmod
<1> HIDE DEF n
<1>4. SetTarget(changed, w, n)
  BY <1>2, PutIs
<1> HIDE DEF changed
<1>5. (r.world = w /\ r.answer # "recovered") \/ SetTarget(r.world, w, n)
  BY <1>3, <1>4 DEF Recovered, Incomplete
<1>6. CASE r.world = w /\ r.answer # "recovered"
  BY <1>6 DEF FsUndone, FsDone, Kept
<1>7. CASE SetTarget(r.world, w, n)
  <2>1. ASSUME FsBefore(b), ChmodFits(w, m, b) PROVE n = b[1]
    <3>1. b[1] \in Nodes /\ b[1].kind = n.kind /\ b[1].mode = n.mode /\ b[1].data = n.data
      BY <1>2, <2>1 DEF FsBefore, ChmodFits, IsFile
    <3> QED
      BY <1>2, <3>1 DEF Nodes
  <2>2. FsBefore(b) /\ ChmodFits(w, m, b) => ChmodFits(r.world, m, b) /\ r.world.dest = b[2]
    BY <1>2, <1>7 DEF ChmodFits, SetTarget, IsFile
  <2> QED
    BY <1>7, <2>1, <2>2 DEF FsUndone, FsDone, SetTarget, Kept
<1> QED
  BY <1>5, <1>6, <1>7

\* A directory is removed again as long as it is empty, and made again.
LEMMA FsDirUndone ==
  ASSUME NEW w \in FsWorld, ~w.linked, NEW m \in FsMeta, NEW r, NEW b, NEW f, NEW l, NEW s
  PROVE  /\ r \in FsRollbackDirCreate(w) => FsUndone("DirCreate", w, m, s, r, b, f, l, FALSE)
         /\ r \in FsRollbackDirDelete(w) => FsUndone("DirDelete", w, m, s, r, b, f, l, FALSE)
<1>1. SetTarget(Put(w, "target", Dir), w, Dir) /\ SetTarget(Put(w, "target", Absent), w, Absent)
  BY NodesAre, PutIs
<1>2. ASSUME r \in FsRollbackDirCreate(w)
      PROVE  FsUndone("DirCreate", w, m, s, r, b, f, l, FALSE)
  <2>1. \/ r = Recovered(Put(w, "target", Absent)) /\ w.target.kind = "dir"
        \/ r = Incomplete(w)
        \/ r = Recovered(w) /\ w.target.kind # "dir"
    BY <1>2 DEF FsRollbackDirCreate
  <2>2. \/ SetTarget(r.world, w, Absent) /\ w.target.kind = "dir"
        \/ r.world = w /\ (r.answer = "recovered" => w.target.kind # "dir")
    BY <1>1, <2>1 DEF Recovered, Incomplete
  <2>3. CASE SetTarget(r.world, w, Absent) /\ w.target.kind = "dir"
    BY <2>3 DEF FsUndone, FsDone, SetTarget, DirCreateFits, Kept
  <2>4. CASE r.world = w /\ (r.answer = "recovered" => w.target.kind # "dir")
    BY <2>4, NodesAre DEF FsUndone, FsDone, DirCreateFits, Kept
  <2> QED
    BY <2>2, <2>3, <2>4
<1>3. ASSUME r \in FsRollbackDirDelete(w)
      PROVE  FsUndone("DirDelete", w, m, s, r, b, f, l, FALSE)
  <2>1. \/ r = Recovered(Put(w, "target", Dir))
        \/ r = Incomplete(w)
        \/ r = Err(w)
        \/ r = Recovered(w) /\ w.target # Absent
    BY <1>3 DEF FsRollbackDirDelete
  <2>2. \/ SetTarget(r.world, w, Dir)
        \/ r.world = w /\ (r.answer = "recovered" => w.target # Absent)
    BY <1>1, <2>1 DEF Recovered, Incomplete, Err
  <2>3. CASE SetTarget(r.world, w, Dir)
    BY <2>3 DEF FsUndone, FsDone, SetTarget, DirDeleteFits, Kept
  <2>4. CASE r.world = w /\ (r.answer = "recovered" => w.target # Absent)
    BY <2>4 DEF FsUndone, FsDone, DirDeleteFits, Kept
  <2> QED
    BY <2>2, <2>3, <2>4
<1> QED
  BY <1>2, <1>3

\* The gaps of the fs adapter.
FsGaps(a, b, f, l) ==
  \/ a = "FileMove" /\ b[2] # Absent
  \/ a = "FileCopy" /\ (f \/ b[3] = "missing")
  \/ a \in {"FileWrite", "FileDelete"} /\ l

\* With nobody in between, rollback does nothing or what its action says.
LEMMA FsRollbackDone ==
  ASSUME NEW w \in FsWorld, NEW m \in FsMeta, NEW a \in FsActions, NEW r \in FsRollback(a, w, w, m),
         NEW b, NEW f \in BOOLEAN, NEW l \in BOOLEAN, NEW s
  PROVE  \/ r.world = w /\ r.answer # "recovered"
         \/ FsUndone(a, w, m, s, r, b, f, l, FsGaps(a, b, f, l))
<1>1. CASE ~Revalidated(a, w)
  BY <1>1 DEF FsRollback, Err
<1>2. CASE Revalidated(a, w)
  <2>0. ~w.linked
    BY <1>2 DEF Revalidated, InSandbox
  <2>1. CASE a \in {"FileWrite", "FileDelete"}
    <3>1. r \in FsRollbackFile(w, m)
      BY <1>2, <2>0, <2>1 DEF FsRollback
    <3>2. FsUndone(a, w, m, s, r, b, f, l, l)
      BY <1>2, <2>0, <2>1, <3>1, FsFileUndone
    <3> QED
      BY <1>2, <2>0, <2>1, <3>2 DEF FsUndone, FsGaps
  <2>2. CASE a = "FileMove"
    <3>1. FsUndone(a, w, m, s, r, b, f, l, b[2] # Absent)
      BY <1>2, <2>0, <2>2, FsMoveUndone DEF FsRollback
    <3> QED
      BY <1>2, <2>0, <2>2, <3>1 DEF FsUndone, FsGaps
  <2>3. CASE a = "FileCopy"
    <3>1. FsUndone(a, w, m, s, r, b, f, l, f)
      BY <1>2, <2>0, <2>3, FsCopyUndone DEF FsRollback
    <3> QED
      BY <1>2, <2>0, <2>3, <3>1 DEF FsUndone, FsGaps
  <2>4. CASE a \in {"FileAppend", "FileChmod", "DirCreate", "DirDelete"}
    <3>1. FsUndone(a, w, m, s, r, b, f, l, FALSE)
      BY <1>2, <2>0, <2>4, FsAppendUndone, FsChmodUndone, FsDirUndone DEF FsRollback
    <3> QED
      BY <1>2, <2>0, <2>4, <3>1 DEF FsUndone, FsGaps
  <2> QED
    BY <2>1, <2>2, <2>3, <2>4 DEF FsActions
<1> QED
  BY <1>1, <1>2

------------------------------------------------------------------------------
(* The service *)

\* The adapter and the action of a contract belong together.
ContractInv ==
  /\ Key = "fs" => Action \in FsActions
  /\ Key = "git" => Action \in GitActions
  /\ Key = "sqlite" => Action \in SqlActions
  /\ Key = "http" => Action \in HttpActions
  /\ Key = "s3" => Action \in S3Actions
  /\ Key = "gcs" => Action \in GcsActions
  /\ Key = "maildraft" => Action \in MailActions
  /\ Key \in {"fs", "git", "sqlite", "http", "s3", "gcs", "maildraft"}

\* Progress: nothing is undone before it was tried.
ProgressInv ==
  /\ step \in Step /\ meddled \in Nat /\ attempts \in Nat
  /\ forgotten \in BOOLEAN /\ late \in BOOLEAN
  /\ attempts > 0 => step \in {"executed", "ambiguous", "verified"}
  /\ attempts = 0 => last = "none"

ServiceInv == ContractInv /\ ProgressInv

\* A contract is registered.
LEMMA ServiceInit == Init => ServiceInv
<1> SUFFICES ASSUME Init PROVE ServiceInv
  OBVIOUS
<1>1. PICK ka \in Registered : contract = [adapter |-> ka[1], action |-> ka[2]]
  BY DEF Init
<1>2. ka \in AllAdapters
  BY RollbackAssumption
<1>3. Key = ka[1] /\ Action = ka[2]
  BY <1>1 DEF Key, Action
<1>4. ContractInv
  BY <1>2, <1>3 DEF ContractInv, AllAdapters
<1>5. ProgressInv
  <2>1. /\ step = "fresh" /\ meddled = 0 /\ attempts = 0 /\ last = "none"
        /\ forgotten = FALSE /\ late = FALSE
    BY Zenon DEF Init
  <2>2. forgotten \in BOOLEAN /\ late \in BOOLEAN
    BY <2>1, Zenon
  <2>3. /\ step \in Step /\ meddled \in Nat /\ attempts \in Nat /\ ~(attempts > 0)
        /\ last = "none"
    BY <2>1 DEF Step
  <2> QED
    BY <2>2, <2>3, Zenon DEF ProgressInv
<1> QED
  BY <1>4, <1>5 DEF ServiceInv

\* What every step leaves alone, and how far it comes.
LEMMA ServiceStep ==
  ASSUME ServiceInv, [Next]_vars
  PROVE  /\ ServiceInv' /\ Key' = Key /\ Action' = Action /\ before' = before
         /\ meddled' = 0 => meddled = 0
<1>1. contract' = contract /\ before' = before
  BY DEF Next, vars, Prepare, LatePrepare, Execute, Verify, Compensate, Meddle, Forget
<1>2. Key' = Key /\ Action' = Action
  BY <1>1 DEF Key, Action
<1>3. ContractInv'
  BY <1>2 DEF ServiceInv, ContractInv
<1>4. ProgressInv /\ meddled \in Nat /\ attempts \in Nat
  BY DEF ServiceInv, ProgressInv
<1>5. ProgressInv' /\ (meddled' = 0 => meddled = 0)
  <2>1. CASE UNCHANGED vars
    BY <1>4, <2>1 DEF ProgressInv, vars
  <2>2. CASE Prepare
    BY <1>4, <2>2 DEF ProgressInv, Prepare, Step
  <2>3. CASE LatePrepare
    BY <1>4, <2>3 DEF ProgressInv, LatePrepare
  <2>4. CASE Execute
    <3>1. /\ step = "prepared" /\ UNCHANGED <<last, attempts, forgotten, late>>
          /\ step' \in {"executed", "ambiguous"} /\ meddled' \in {meddled, meddled + 1}
      BY <2>4 DEF Execute, Interrupted
    <3> QED
      BY <1>4, <3>1 DEF ProgressInv, Step
  <2>5. CASE Verify
    BY <1>4, <2>5 DEF ProgressInv, Verify, Step
  <2>6. CASE Compensate
    <3>1. /\ step \in {"executed", "ambiguous"} /\ UNCHANGED <<step, forgotten, late>>
          /\ attempts' = attempts + 1 /\ meddled' \in {meddled, meddled + 1}
      BY <2>6 DEF Compensate, Interrupted
    <3> QED
      BY <1>4, <3>1 DEF ProgressInv
  <2>7. CASE Meddle
    BY <1>4, <2>7 DEF ProgressInv, Meddle
  <2>8. CASE Forget
    BY <1>4, <2>8 DEF ProgressInv, Forget
  <2> QED
    BY <2>1, <2>2, <2>3, <2>4, <2>5, <2>6, <2>7, <2>8 DEF Next
<1> QED
  BY <1>1, <1>2, <1>3, <1>5 DEF ServiceInv

\* A call in which nobody comes between the look and the act.
LEMMA CallsAlone ==
  ASSUME ServiceInv, meddled' = 0
  PROVE  /\ Execute => /\ step = "prepared" /\ UNCHANGED <<last, meddled, forgotten, late>>
                       /\ \E r \in ExecuteResults(Key, Action, world, world, meta) :
                            /\ world' = r.world
                            /\ IF r.answer = "ok" THEN step' = "executed" /\ meta' = r.meta
                                                  ELSE step' = "ambiguous" /\ UNCHANGED meta
         /\ Compensate => /\ step \in {"executed", "ambiguous"} /\ attempts' = attempts + 1
                          /\ UNCHANGED <<meta, step, meddled, forgotten, late>>
                          /\ \E r \in RollbackResults(Key, Action, world, world, meta) :
                               world' = r.world /\ last' = r.answer
<1>1. meddled \in Nat
  BY DEF ServiceInv, ProgressInv
<1>2. ASSUME NEW w, Interrupted(w) PROVE w = world /\ UNCHANGED meddled
  BY <1>1, <1>2 DEF Interrupted
<1>3. ASSUME Execute
      PROVE  /\ step = "prepared" /\ UNCHANGED <<last, meddled, forgotten, late>>
             /\ \E r \in ExecuteResults(Key, Action, world, world, meta) :
                  /\ world' = r.world
                  /\ IF r.answer = "ok" THEN step' = "executed" /\ meta' = r.meta
                                        ELSE step' = "ambiguous" /\ UNCHANGED meta
  <2>1. PICK w \in {world} \cup Meddled(Key, world) :
          /\ Interrupted(w)
          /\ \E r \in ExecuteResults(Key, Action, world, w, meta) :
               /\ world' = r.world
               /\ IF r.answer = "ok" THEN step' = "executed" /\ meta' = r.meta
                                     ELSE step' = "ambiguous" /\ UNCHANGED meta
    BY <1>3 DEF Execute
  <2>2. w = world /\ UNCHANGED meddled
    BY <1>2, <2>1
  <2>3. step = "prepared" /\ UNCHANGED <<last, forgotten, late>>
    BY <1>3 DEF Execute
  <2> QED
    BY <2>1, <2>2, <2>3
<1>4. ASSUME Compensate
      PROVE  /\ step \in {"executed", "ambiguous"} /\ attempts' = attempts + 1
             /\ UNCHANGED <<meta, step, meddled, forgotten, late>>
             /\ \E r \in RollbackResults(Key, Action, world, world, meta) :
                  world' = r.world /\ last' = r.answer
  <2>1. PICK w \in {world} \cup Meddled(Key, world) :
          /\ Interrupted(w)
          /\ \E r \in RollbackResults(Key, Action, world, w, meta) :
               world' = r.world /\ last' = r.answer
    BY <1>4 DEF Compensate
  <2>2. w = world /\ UNCHANGED meddled
    BY <1>2, <2>1
  <2>3. /\ step \in {"executed", "ambiguous"} /\ attempts' = attempts + 1
        /\ UNCHANGED <<meta, step, forgotten, late>>
    BY <1>4 DEF Compensate
  <2> QED
    BY <2>1, <2>2, <2>3
<1> QED
  BY <1>3, <1>4

------------------------------------------------------------------------------
(* Files, in the service *)

FsInv ==
  Key = "fs" /\ meddled = 0 =>
    /\ world \in FsWorld
    /\ step # "fresh" => meta \in FsMeta
    /\ FsFits(Action, world, meta, step, before, forgotten, late)
    /\ last = "recovered" /\ ~FsGaps(Action, before, forgotten, late) =>
         world.target = before[1] /\ world.dest = before[2]

\* Whether there are checks has no bearing on the rest.
LEMMA FsPlanned ==
  ASSUME NEW m \in FsMeta, NEW p \in BOOLEAN
  PROVE  LET q == [m EXCEPT !.planned = p]
         IN  /\ q \in FsMeta /\ q.newFile = m.newFile /\ q.hash = m.hash /\ q.mode = m.mode
             /\ q.dest = m.dest /\ q.newDest = m.newDest
BY DEF FsMeta

\* A fresh contract that is prepared.
LEMMA FsPrepared ==
  ASSUME NEW w \in FsWorld, NEW a \in FsActions, NEW r \in FsPrepare(a, w), NEW m, NEW b,
         NEW f, NEW l, FsFits(a, w, m, "fresh", b, f, l)
  PROVE  /\ r.world \in FsWorld /\ FsFits(a, r.world, m, "fresh", b, f, l)
         /\ r.answer = "ok" => FsFits(a, r.world, r.meta, "prepared", b, f, l)
<1>1. /\ ~w.linked /\ FsBefore(b) /\ w.target = b[1] /\ w.dest = b[2]
      /\ w.snapDest = Absent /\ w.snapTarget \in {Absent, b[1]}
      /\ w.parent = b[3] \/ (a = "FileCopy" /\ b[3] = "missing")
  BY DEF FsFits
<1>2. /\ r.world \in FsWorld /\ ~r.world.linked
      /\ r.world.parent = w.parent /\ r.world.inside = w.inside
      /\ r.world.target = b[1] /\ r.world.dest = b[2]
      /\ r.world.snapDest = Absent /\ r.world.snapTarget \in {Absent, b[1]}
  BY <1>1, FsPrepareIs DEF SetSnaps, Kept
<1>3. ~IsFile(Absent) /\ IsFile(w.target) = (w.target.kind = "file")
  BY NodesAre DEF IsFile
<1>4. ASSUME r.answer = "ok" PROVE FsDone(a, r.world, r.meta, "prepared", b, f, l)
  <2>1. FsNoted(a, w, r.world, r.meta)
    BY <1>4, FsPrepareIs
  <2>2. a \in {"FileWrite", "FileDelete"} => FileFits(r.world, r.meta, b, f, l)
    BY <1>1, <1>2, <1>3, <2>1 DEF FsNoted, FileFits
  <2>3. a = "FileMove" => MoveFits(r.world, r.meta, "prepared", b)
    BY <1>1, <1>2, <2>1 DEF FsNoted, MoveFits
  <2>4. a = "FileCopy" => CopyFits(r.world, r.meta, "prepared", b, f)
    BY <1>1, <1>2, <2>1 DEF FsNoted, CopyFits
  <2>5. a = "FileAppend" => AppendFits(r.world, r.meta, b)
    BY <1>1, <1>2, <2>1 DEF FsNoted, AppendFits
  <2>6. a = "FileChmod" => ChmodFits(r.world, r.meta, b)
    BY <1>1, <1>2, <2>1 DEF FsNoted, ChmodFits
  <2>7. a = "DirCreate" => DirCreateFits(r.world, b)
    BY <1>1, <1>2, <2>1 DEF FsNoted, DirCreateFits
  <2>8. a = "DirDelete" => DirDeleteFits(r.world, b)
    BY <1>1, <1>2, <2>1 DEF FsNoted, DirDeleteFits, FsBefore
  <2> QED
    BY <1>1, <2>1, <2>2, <2>3, <2>4, <2>5, <2>6, <2>7, <2>8 DEF FsDone, FsNoted
<1>5. r.answer = "ok" => "target" \in r.world.inside
  BY <1>2, FsPrepareIs
<1> QED
  BY <1>1, <1>2, <1>4, <1>5 DEF FsFits

\* A late prepare, which takes new snapshots.
LEMMA FsPreparedLate ==
  ASSUME NEW w \in FsWorld, NEW a \in FsActions, NEW r \in FsPrepare(a, w), NEW m, NEW b,
         NEW f, NEW l, NEW s, s # "fresh"
  PROVE  /\ r.world \in FsWorld /\ r.world.target = w.target /\ r.world.dest = w.dest
         /\ FsFits(a, w, m, s, b, f, l) => FsFits(a, r.world, m, s, b, f, TRUE)
<1>1. r.world = w \/ (SetSnaps(r.world, w, w.target, w.snapDest) /\ IsFile(w.target))
  BY FsPrepareIs
<1>2. /\ r.world \in FsWorld /\ r.world.linked = w.linked /\ r.world.target = w.target
      /\ r.world.parent = w.parent /\ r.world.inside = w.inside
      /\ r.world.dest = w.dest /\ r.world.snapDest = w.snapDest
      /\ r.world.snapTarget = w.snapTarget
           \/ (r.world.snapTarget = w.target /\ IsFile(w.target))
  BY <1>1 DEF SetSnaps, Kept
<1>3. ~IsFile(Absent)
  BY NodesAre DEF IsFile
<1>4. FileFits(w, m, b, f, l) => FileFits(r.world, m, b, f, TRUE)
  BY <1>2, <1>3 DEF FileFits
<1>5. MoveFits(w, m, s, b) => MoveFits(r.world, m, s, b)
  BY <1>2, <1>3 DEF MoveFits
<1>6. CopyFits(w, m, s, b, f) => CopyFits(r.world, m, s, b, f)
  BY <1>2 DEF CopyFits
<1>7. /\ AppendFits(w, m, b) => AppendFits(r.world, m, b)
      /\ ChmodFits(w, m, b) => ChmodFits(r.world, m, b)
      /\ DirCreateFits(w, b) => DirCreateFits(r.world, b)
      /\ DirDeleteFits(w, b) => DirDeleteFits(r.world, b)
  BY <1>2 DEF AppendFits, ChmodFits, DirCreateFits, DirDeleteFits
<1>8. FsDone(a, w, m, s, b, f, l) => FsDone(a, r.world, m, s, b, f, TRUE)
  BY <1>4, <1>5, <1>6, <1>7 DEF FsDone
<1> QED
  BY <1>2, <1>8 DEF FsFits

\* The snapshots are gone.
LEMMA FsForgot ==
  ASSUME NEW w \in FsWorld, NEW v \in FsForget(w), NEW a, NEW m, NEW b, NEW f, NEW l,
         NEW s, s # "fresh"
  PROVE  /\ v \in FsWorld /\ v.target = w.target /\ v.dest = w.dest
         /\ FsFits(a, w, m, s, b, f, l) => FsFits(a, v, m, s, b, TRUE, l)
<1>1. SetSnaps(v, w, Absent, Absent)
  <2>1. SetSnaps([w EXCEPT !.snapTarget = Absent, !.snapDest = Absent], w, Absent, Absent)
    BY NodesAre, SnapIs, Zenon
  <2>2. v = [w EXCEPT !.snapTarget = Absent, !.snapDest = Absent]
    BY DEF FsForget
  <2> QED
    BY <2>1, <2>2, Zenon
<1>2. FileFits(w, m, b, f, l) => FileFits(v, m, b, TRUE, l)
  BY <1>1 DEF FileFits, SetSnaps
<1>3. MoveFits(w, m, s, b) => MoveFits(v, m, s, b)
  BY <1>1 DEF MoveFits, SetSnaps
<1>4. CopyFits(w, m, s, b, f) => CopyFits(v, m, s, b, TRUE)
  BY <1>1 DEF CopyFits, SetSnaps
<1>5. /\ AppendFits(w, m, b) => AppendFits(v, m, b)
      /\ ChmodFits(w, m, b) => ChmodFits(v, m, b)
      /\ DirCreateFits(w, b) => DirCreateFits(v, b)
      /\ DirDeleteFits(w, b) => DirDeleteFits(v, b)
  BY <1>1 DEF AppendFits, ChmodFits, DirCreateFits, DirDeleteFits, SetSnaps
<1>6. FsDone(a, w, m, s, b, f, l) => FsDone(a, v, m, s, b, TRUE, l)
  BY <1>2, <1>3, <1>4, <1>5 DEF FsDone
<1> QED
  BY <1>1, <1>6 DEF FsFits, SetSnaps, Kept

\* At first the snapshots are missing and the target is what it is.
LEMMA FsInit == Init => FsInv
<1> SUFFICES ASSUME Init, Key = "fs" PROVE FsInv
  BY DEF FsInv
<1>1. world \in Worlds(Key, Action) /\ before = Visible(Key, world)
  BY DEF Init, Key, Action
<1>2. world \in FsWorlds(Action) /\ before = <<world.target, world.dest, world.parent>>
  BY <1>1 DEF Worlds, Visible, FsVisible
<1>3. step = "fresh" /\ last = "none"
  BY Zenon DEF Init
<1> DEFINE full == Node("full", <<>>, "none")
           fa == File(<<"a">>)
           fb == File(<<"b">>)
<1>4. /\ world.target \in {Absent, Dir, full, fa} /\ world.dest \in {Absent, fb}
      /\ world.cross \in BOOLEAN /\ world.linked = FALSE /\ world.parent \in {"there", "missing"}
      /\ world.inside \in SUBSET {"target", "dest"}
      /\ world.snapTarget = Absent /\ world.snapDest = Absent
      /\ world = [target |-> world.target, dest |-> world.dest, parent |-> world.parent,
                  cross |-> world.cross, linked |-> world.linked, inside |-> world.inside,
                  snapTarget |-> world.snapTarget, snapDest |-> world.snapDest]
  <2>1. PICK target \in {Absent, Dir, full, fa}, dest \in {Absent, fb},
             parent \in {"there", "missing"}, cross \in BOOLEAN,
             inside \in SUBSET {"target", "dest"} :
          world = [target |-> target, dest |-> dest, parent |-> parent, cross |-> cross,
                   linked |-> FALSE, inside |-> inside, snapTarget |-> Absent, snapDest |-> Absent]
    BY <1>2 DEF FsWorlds
  <2> HIDE DEF full, fa, fb
  <2> QED
    BY <2>1
<1>5. full \in Nodes /\ full.kind = "full" /\ fa \in Nodes /\ fb \in Nodes /\ IsFile(fa) /\ IsFile(fb)
  <2>1. \A x \in Text : <<x>> \in Seq(Text)
    OBVIOUS
  <2>2. "a" \in Text /\ "b" \in Text
    BY DEF Text
  <2> DEFINE e == <<>>
             ta == <<"a">>
             tb == <<"b">>
  <2>3. e \in Seq(Text)
    OBVIOUS
  <2>4. ta \in Seq(Text) /\ tb \in Seq(Text)
    BY <2>1, <2>2, Zenon
  <2> HIDE DEF e, ta, tb
  <2>5. /\ Node("full", e, "none") \in Nodes /\ Node("full", e, "none").kind = "full"
        /\ Node("file", ta, "old") \in Nodes /\ Node("file", ta, "old").kind = "file"
        /\ Node("file", tb, "old") \in Nodes /\ Node("file", tb, "old").kind = "file"
    BY <2>3, <2>4, NodesAre
  <2> QED
    BY <2>5 DEF e, ta, tb, File, IsFile
<1> HIDE DEF full, fa, fb
<1>6. world.target \in Nodes /\ world.dest \in Nodes /\ Absent \in Nodes
  BY <1>4, <1>5, NodesAre
<1>7. world \in FsWorld
  BY <1>4, <1>6 DEF FsWorld
<1>8. FsBefore(before)
  <2>1. before[1] = world.target /\ before[2] = world.dest
        /\ before \in Nodes \X Nodes \X {"there", "missing"}
    BY <1>2, <1>4, <1>6
  <2>2. /\ world.target.kind = "absent" => world.target = Absent
        /\ world.target.kind = "dir" => world.target = Dir
    BY <1>4, <1>5, NodesAre DEF IsFile
  <2>3. /\ world.dest.kind = "absent" => world.dest = Absent
        /\ world.dest.kind = "dir" => world.dest = Dir
        /\ world.dest = Absent \/ IsFile(world.dest)
    BY <1>4, <1>5, NodesAre DEF IsFile
  <2> QED
    BY <2>1, <2>2, <2>3 DEF FsBefore
<1> QED
  BY <1>2, <1>3, <1>4, <1>7, <1>8 DEF FsInv, FsFits

\* Every step that the fs adapter takes part in.
LEMMA FsStep ==
  ASSUME ServiceInv, FsInv, [Next]_vars
  PROVE  FsInv'
<1>1. Key' = Key /\ Action' = Action /\ before' = before
  BY ServiceStep
<1> SUFFICES ASSUME Key = "fs", meddled' = 0 PROVE FsInv'
  BY <1>1 DEF FsInv
<1>0. meddled = 0
  BY ServiceStep
<1>2. /\ world \in FsWorld /\ (step # "fresh" => meta \in FsMeta) /\ Action \in FsActions
      /\ FsFits(Action, world, meta, step, before, forgotten, late)
      /\ last = "recovered" /\ ~FsGaps(Action, before, forgotten, late) =>
           world.target = before[1] /\ world.dest = before[2]
      /\ forgotten \in BOOLEAN /\ late \in BOOLEAN
  BY <1>0 DEF FsInv, ServiceInv, ContractInv, ProgressInv
<1>3. CASE UNCHANGED vars
  BY <1>1, <1>2, <1>3 DEF FsInv, vars
<1>4. ASSUME NEW r \in FsPrepare(Action, world), NEW p \in BOOLEAN, step = "fresh",
             world' = r.world,
             \/ step' = step /\ meta' = meta
             \/ r.answer = "ok" /\ step' = "prepared" /\ meta' = [r.meta EXCEPT !.planned = p],
             UNCHANGED <<last, meddled, forgotten, late>>
      PROVE  FsInv'
  <2>1. last # "recovered" /\ (step' # "fresh" => r.answer = "ok")
    <3>1. attempts = 0 /\ last = "none"
      BY <1>4 DEF ServiceInv, ProgressInv
    <3> QED
      BY <1>4, <3>1
  <2>2. r.world \in FsWorld
    BY <1>2, FsPrepareIs DEF SetSnaps, Kept
  <2>3. step' # "fresh" => r.meta \in FsMeta /\ meta' \in FsMeta
    <3>1. r.answer = "ok" => r.meta \in FsMeta
      BY <1>2, FsPrepareIs DEF FsNoted
    <3> QED
      BY <1>4, <2>1, <3>1, FsPlanned
  <2>4. FsFits(Action, r.world, meta', step', before, forgotten, late)
    <3>1. /\ FsFits(Action, r.world, meta, "fresh", before, forgotten, late)
          /\ r.answer = "ok" =>
               FsFits(Action, r.world, r.meta, "prepared", before, forgotten, late)
      BY <1>2, <1>4, FsPrepared
    <3>2. CASE step' = step /\ meta' = meta
      BY <1>4, <3>1, <3>2
    <3>3. CASE r.answer = "ok" /\ step' = "prepared" /\ meta' = [r.meta EXCEPT !.planned = p]
      <4>1. r.meta \in FsMeta
        BY <2>3, <3>3
      <4>2. /\ meta'.newFile = r.meta.newFile /\ meta'.hash = r.meta.hash
            /\ meta'.mode = r.meta.mode /\ meta'.dest = r.meta.dest
            /\ meta'.newDest = r.meta.newDest
        BY <3>3, <4>1, FsPlanned
      <4> QED
        BY <3>1, <3>3, <4>2 DEF FsFits, FsDone, FileFits, MoveFits, CopyFits, AppendFits, ChmodFits
    <3> QED
      BY <1>4, <3>2, <3>3
  <2> QED
    BY <1>1, <1>4, <2>1, <2>2, <2>3, <2>4 DEF FsInv
<1>5. CASE Prepare
  <2>1. PICK class \in RollbackClass, p \in BOOLEAN :
          /\ step = "fresh" /\ UNCHANGED <<last, meddled, forgotten, late>>
          /\ \E r \in PrepareResults(Key, Action, world) :
               /\ world' = r.world
               /\ IF r.answer = "ok" /\ (class = "R2" => p)
                  THEN step' = "prepared" /\ meta' = [r.meta EXCEPT !.planned = p]
                  ELSE UNCHANGED <<step, meta>>
    BY <1>5 DEF Prepare
  <2>2. PICK r \in FsPrepare(Action, world) :
          /\ world' = r.world
          /\ IF r.answer = "ok" /\ (class = "R2" => p)
             THEN step' = "prepared" /\ meta' = [r.meta EXCEPT !.planned = p]
             ELSE UNCHANGED <<step, meta>>
    BY <2>1 DEF PrepareResults
  <2> QED
    BY <1>4, <2>1, <2>2
<1>6. CASE LatePrepare
  <2>1. /\ step # "fresh" /\ late' = TRUE /\ \E r \in PrepareResults(Key, Action, world) : world' = r.world
        /\ UNCHANGED <<meta, step, last, meddled, forgotten>>
    BY <1>6 DEF LatePrepare
  <2>2. PICK r \in FsPrepare(Action, world) : world' = r.world
    BY <2>1 DEF PrepareResults
  <2>3. /\ world' \in FsWorld /\ world'.target = world.target /\ world'.dest = world.dest
        /\ FsFits(Action, world', meta, step, before, forgotten, TRUE)
    <3>1. world \in FsWorld /\ Action \in FsActions /\ step # "fresh"
      BY <1>2, <2>1
    <3>2. FsFits(Action, world, meta, step, before, forgotten, late)
      BY <1>2
    <3>3. /\ r.world \in FsWorld /\ r.world.target = world.target /\ r.world.dest = world.dest
          /\ FsFits(Action, world, meta, step, before, forgotten, late) =>
               FsFits(Action, r.world, meta, step, before, forgotten, TRUE)
      BY <3>1, FsPreparedLate, Zenon
    <3> QED
      BY <2>2, <3>2, <3>3, Zenon
  <2>4. FsGaps(Action, before, forgotten, late) => FsGaps(Action, before, forgotten, TRUE)
    BY DEF FsGaps
  <2> QED
    BY <1>1, <1>2, <2>1, <2>3, <2>4 DEF FsInv
<1>7. CASE Execute
  <2>1. /\ step = "prepared" /\ UNCHANGED <<last, meddled, forgotten, late>>
        /\ \E r \in ExecuteResults(Key, Action, world, world, meta) :
             /\ world' = r.world
             /\ IF r.answer = "ok" THEN step' = "executed" /\ meta' = r.meta
                                   ELSE step' = "ambiguous" /\ UNCHANGED meta
    BY <1>7, CallsAlone
  <2>2. PICK r \in FsExecute(Action, world, world, meta) :
          /\ world' = r.world
          /\ IF r.answer = "ok" THEN step' = "executed" /\ meta' = r.meta
                                ELSE step' = "ambiguous" /\ UNCHANGED meta
    BY <2>1 DEF ExecuteResults
  <2>3. last # "recovered"
    BY <2>1 DEF ServiceInv, ProgressInv
  <2>4. \/ r.world = world /\ r.answer # "ok"
        \/ FsExecuted(Action, world, meta, r, before, forgotten, late)
    BY <1>2, <2>1, FsExecuteDone
  <2>5. r.world \in FsWorld /\ meta' \in FsMeta
    BY <1>2, <2>1, <2>2, <2>4 DEF FsExecuted
  <2>6. FsFits(Action, r.world, meta', step', before, forgotten, late)
    <3>1. CASE r.world = world /\ r.answer # "ok"
      BY <1>2, <2>1, <2>2, <3>1 DEF FsFits, FsDone, MoveFits, CopyFits
    <3>2. CASE FsExecuted(Action, world, meta, r, before, forgotten, late)
      BY <1>2, <2>1, <2>2, <3>2 DEF FsFits, FsExecuted, FsBefore
    <3> QED
      BY <2>4, <3>1, <3>2
  <2> QED
    BY <1>1, <2>1, <2>2, <2>3, <2>5, <2>6 DEF FsInv
<1>8. CASE Verify
  <2>1. /\ step = "executed" /\ UNCHANGED <<meta, last, meddled, forgotten, late>>
        /\ step' \in {"executed", "verified"}
        /\ \E r \in VerifyResults(Key, Action, world, meta) : world' = r.world
    BY <1>8 DEF Verify
  <2>2. PICK r \in FsVerify(Action, world, meta) : world' = r.world
    BY <2>1 DEF VerifyResults
  <2>3. world' = world
    BY <2>2 DEF FsVerify, Verified, Err
  <2>4. FsFits(Action, world, meta, step', before, forgotten, late)
    BY <1>2, <2>1 DEF FsFits, FsDone, MoveFits, CopyFits
  <2> QED
    BY <1>1, <1>2, <2>1, <2>3, <2>4 DEF FsInv
<1>9. CASE Compensate
  <2>1. /\ step \in {"executed", "ambiguous"} /\ UNCHANGED <<meta, step, meddled, forgotten, late>>
        /\ \E r \in RollbackResults(Key, Action, world, world, meta) :
             world' = r.world /\ last' = r.answer
    BY <1>9, CallsAlone
  <2>2. PICK r \in FsRollback(Action, world, world, meta) : world' = r.world /\ last' = r.answer
    BY <2>1 DEF RollbackResults
  <2>3. \/ r.world = world /\ r.answer # "recovered"
        \/ FsUndone(Action, world, meta, step, r, before, forgotten, late,
                    FsGaps(Action, before, forgotten, late))
    BY <1>2, <2>1, FsRollbackDone
  <2>4. r.world \in FsWorld
    BY <1>2, <2>3 DEF FsUndone, Kept
  <2>5. /\ FsFits(Action, r.world, meta, step, before, forgotten, late)
        /\ r.answer = "recovered" /\ ~FsGaps(Action, before, forgotten, late) =>
             r.world.target = before[1] /\ r.world.dest = before[2]
    BY <1>2, <2>1, <2>3 DEF FsFits, FsUndone, Kept
  <2> QED
    BY <1>1, <1>2, <2>1, <2>2, <2>4, <2>5 DEF FsInv
<1>10. CASE Meddle
  BY <1>0, <1>10 DEF Meddle
<1>11. CASE Forget
  <2>1. /\ step # "fresh" /\ forgotten' = TRUE /\ world' \in FsForget(world)
        /\ UNCHANGED <<meta, step, last, meddled, late>>
    BY <1>11 DEF Forget
  <2>2. /\ world' \in FsWorld /\ world'.target = world.target /\ world'.dest = world.dest
        /\ FsFits(Action, world', meta, step, before, TRUE, late)
    <3>1. world \in FsWorld /\ step # "fresh"
      BY <1>2, <2>1
    <3>2. FsFits(Action, world, meta, step, before, forgotten, late)
      BY <1>2
    <3>3. PICK v \in FsForget(world) : world' = v
      BY <2>1
    <3>4. /\ v \in FsWorld /\ v.target = world.target /\ v.dest = world.dest
          /\ FsFits(Action, world, meta, step, before, forgotten, late) =>
               FsFits(Action, v, meta, step, before, TRUE, late)
      BY <3>1, FsForgot, Zenon
    <3> QED
      BY <3>2, <3>3, <3>4, Zenon
  <2>3. FsGaps(Action, before, forgotten, late) => FsGaps(Action, before, TRUE, late)
    BY DEF FsGaps
  <2> QED
    BY <1>1, <1>2, <2>1, <2>2, <2>3 DEF FsInv
<1> QED
  BY <1>3, <1>5, <1>6, <1>7, <1>8, <1>9, <1>10, <1>11 DEF Next

------------------------------------------------------------------------------
(* HTTP *)

HttpWorld ==
  [effects : Nat, known : {"nothing", "done", "refused"}, probed : BOOLEAN,
   allowed : BOOLEAN, plan : {"none", "replay", "mismatch"}]

\* Under a replay plan the server has carried out the mutation when it has that
\* on record under the key.
HttpFits(w, answer) ==
  /\ w \in HttpWorld
  /\ w.plan = "replay" =>
       /\ w.effects = IF w.known = "done" THEN 1 ELSE 0
       /\ answer = "recovered" => w.known = "done"

HttpInv == Key = "http" => HttpFits(world, last)

\* A request that carries the key is carried out once, and none without it is
\* sent under a replay plan.
LEMMA ServeOnce ==
  ASSUME NEW w, NEW k \in BOOLEAN, NEW y, HttpFits(w, y), w.plan = "replay" => k,
         NEW q \in Serve(w, k)
  PROVE  HttpFits(q.world, y) /\ (q.good => HttpFits(q.world, "recovered"))
<1>1. w \in HttpWorld /\ w.effects \in Nat
  BY DEF HttpFits, HttpWorld
<1>2. CASE k /\ w.known # "nothing"
  <2>1. q.world = w /\ q.good = (w.known = "done")
    BY <1>2 DEF Serve, Answer
  <2> QED
    BY <2>1 DEF HttpFits
<1>3. CASE ~(k /\ w.known # "nothing")
  <2> DEFINE n == w.effects + 1
             done == IF k THEN "done" ELSE w.known
             refused == IF k THEN "refused" ELSE w.known
             v == [w EXCEPT !.effects = n, !.known = done]
             u == [w EXCEPT !.known = refused]
  <2>1. \/ q.world = v
        \/ q.world = w /\ ~q.good
        \/ q.world = u /\ ~q.good
    <3>1. q \in {Answer(v, TRUE), Answer(w, FALSE), Answer(u, FALSE)}
      BY <1>3 DEF Serve
    <3> HIDE DEF v, u
    <3> QED
      BY <3>1 DEF Answer
  <2>2. /\ n \in Nat /\ done \in {"nothing", "done", "refused"}
        /\ refused \in {"nothing", "done", "refused"}
    BY <1>1 DEF HttpWorld
  <2>3. /\ w.plan = "replay" => w.known = "nothing" /\ n = 1 /\ done = "done" /\ refused = "refused"
        /\ w.plan = "replay" => w.effects = 0 /\ y # "recovered"
    BY <1>3 DEF HttpFits
  <2> HIDE DEF n, done, refused
  <2>4. v \in HttpWorld /\ v.effects = n /\ v.known = done /\ v.plan = w.plan
    BY <1>1, <2>2 DEF HttpWorld
  <2>5. u \in HttpWorld /\ u.effects = w.effects /\ u.known = refused /\ u.plan = w.plan
    BY <1>1, <2>2 DEF HttpWorld
  <2> HIDE DEF v, u
  <2>6. HttpFits(v, y) /\ HttpFits(v, "recovered")
    BY <2>3, <2>4 DEF HttpFits
  <2>7. HttpFits(u, y)
    BY <2>3, <2>5 DEF HttpFits
  <2> QED
    BY <2>1, <2>6, <2>7
<1> QED
  BY <1>2, <1>3

\* Checks and a shorter allowlist do not reach the mutation under the key.
LEMMA ProbeKeeps ==
  ASSUME NEW w, NEW y, HttpFits(w, y)
  PROVE  /\ \A v \in Probe(w) : HttpFits(v, y)
         /\ \A v \in {w} \cup HttpMeddle(w) : HttpFits(v, y)
<1>1. w \in HttpWorld
  BY DEF HttpFits
<1>2. LET v == [w EXCEPT !.probed = TRUE]
      IN  v \in HttpWorld /\ v.plan = w.plan /\ v.known = w.known /\ v.effects = w.effects
  BY <1>1 DEF HttpWorld
<1>3. LET v == [w EXCEPT !.allowed = FALSE]
      IN  v \in HttpWorld /\ v.plan = w.plan /\ v.known = w.known /\ v.effects = w.effects
  BY <1>1 DEF HttpWorld
<1>4. HttpFits([w EXCEPT !.probed = TRUE], y)
  BY <1>2 DEF HttpFits
<1>5. HttpFits([w EXCEPT !.allowed = FALSE], y)
  BY <1>3 DEF HttpFits
<1> QED
  BY <1>4, <1>5, Zenon DEF Probe, HttpMeddle

\* What every phase of the HTTP adapter leaves behind.
LEMMA HttpPhases ==
  ASSUME NEW w, NEW m, NEW r, NEW y, HttpFits(w, y)
  PROVE  /\ r \in HttpPrepare(w) => HttpFits(r.world, y)
         /\ r \in HttpExecute(w, m) => HttpFits(r.world, "none")
         /\ r \in HttpVerify(w, m) => HttpFits(r.world, y)
         /\ r \in HttpRollback(w, m) => HttpFits(r.world, r.answer)
<1>1. HttpFits(w, "none") /\ HttpFits(w, "err")
  BY DEF HttpFits
<1>2. r \in HttpPrepare(w) \/ r \in HttpVerify(w, m) => HttpFits(r.world, y)
  <2>1. r \in HttpPrepare(w) \/ r \in HttpVerify(w, m) =>
          r.world = w \/ \E v \in Probe(w) : r.world = v
    BY DEF HttpPrepare, HttpVerify, Ok, Err, Verified
  <2> QED
    BY <2>1, ProbeKeeps, Zenon
<1>3. ASSUME r \in HttpExecute(w, m) PROVE HttpFits(r.world, "none")
  <2>1. r.world = w \/ \E q \in Serve(w, SendsKey(w)) : r.world = q.world
    BY <1>3 DEF HttpExecute, Ok, Err
  <2>2. SendsKey(w) \in BOOLEAN /\ (w.plan = "replay" => SendsKey(w))
    BY DEF SendsKey
  <2>3. \A q \in Serve(w, SendsKey(w)) : HttpFits(q.world, y)
    BY <2>2, ServeOnce
  <2> QED
    BY <1>1, <2>1, <2>3 DEF HttpFits
<1>4. ASSUME r \in HttpRollback(w, m) PROVE HttpFits(r.world, r.answer)
  <2>1. \/ r.world = w /\ r.answer = "err"
        \/ \E q \in Serve(w, TRUE) :
             r.world = q.world /\ (r.answer = "err" \/ (r.answer = "recovered" /\ q.good))
    <3>1. \/ r = Err(w)
          \/ \E q \in Serve(w, TRUE) : r = Err(q.world)
          \/ \E q \in Serve(w, TRUE) : r = Recovered(q.world) /\ q.good
      BY <1>4 DEF HttpRollback
    <3>2. ASSUME NEW q \in Serve(w, TRUE), r = Err(q.world)
          PROVE  r.world = q.world /\ r.answer = "err"
      BY <3>2 DEF Err
    <3>3. ASSUME NEW q \in Serve(w, TRUE), r = Recovered(q.world)
          PROVE  r.world = q.world /\ r.answer = "recovered"
      BY <3>3 DEF Recovered
    <3>4. r = Err(w) => r.world = w /\ r.answer = "err"
      BY DEF Err
    <3> QED
      BY <3>1, <3>2, <3>3, <3>4
  <2>2. \A q \in Serve(w, TRUE) : HttpFits(q.world, y) /\ (q.good => HttpFits(q.world, "recovered"))
    BY ServeOnce
  <2> QED
    BY <1>1, <2>1, <2>2 DEF HttpFits
<1> QED
  BY <1>2, <1>3, <1>4

\* Nothing has been sent at first.
LEMMA HttpInit == Init => HttpInv
<1> SUFFICES ASSUME Init, Key = "http" PROVE HttpInv
  BY DEF HttpInv
<1>1. world \in Worlds(Key, Action) /\ last = "none"
  BY DEF Init, Key, Action
<1>2. world \in HttpWorlds
  BY <1>1 DEF Worlds
<1>3. /\ world \in [effects : {0}, known : {"nothing"}, probed : {FALSE}, allowed : {TRUE},
                   plan : {"none", "replay", "mismatch"}]
  BY <1>2 DEF HttpWorlds
<1>4. world \in HttpWorld
  <2>1. {FALSE} \subseteq BOOLEAN /\ {TRUE} \subseteq BOOLEAN
    BY Zenon
  <2>2. {0} \subseteq Nat
    OBVIOUS
  <2> DEFINE F == {FALSE}
             T == {TRUE}
             Z == {0}
  <2>3. /\ F \subseteq BOOLEAN /\ T \subseteq BOOLEAN /\ Z \subseteq Nat
        /\ world \in [effects : Z, known : {"nothing"}, probed : F, allowed : T,
                     plan : {"none", "replay", "mismatch"}]
    BY <1>3, <2>1, <2>2, Zenon
  <2> HIDE DEF F, T, Z
  <2> QED
    BY <2>3 DEF HttpWorld
<1>5. world.effects = 0 /\ world.known = "nothing"
  BY <1>3
<1> QED
  BY <1>1, <1>4, <1>5 DEF HttpInv, HttpFits

\* Every step that the HTTP adapter takes part in.
LEMMA HttpStep ==
  ASSUME ServiceInv, HttpInv, [Next]_vars
  PROVE  HttpInv'
<1>1. Key' = Key
  BY ServiceStep
<1> SUFFICES ASSUME Key = "http" PROVE HttpInv'
  BY <1>1 DEF HttpInv
<1>2. HttpFits(world, last)
  BY DEF HttpInv
<1>3. CASE UNCHANGED vars
  BY <1>1, <1>2, <1>3 DEF HttpInv, vars
<1>4. CASE Prepare \/ LatePrepare
  <2>1. PICK r \in HttpPrepare(world) : world' = r.world /\ last' = last
    BY <1>4 DEF Prepare, LatePrepare, PrepareResults
  <2>2. HttpFits(r.world, last)
    BY <1>2, HttpPhases
  <2> QED
    BY <1>1, <2>1, <2>2 DEF HttpInv
<1>5. CASE Execute
  <2>1. PICK w \in {world} \cup HttpMeddle(world) :
          \E r \in HttpExecute(w, meta) : world' = r.world /\ last' = last /\ step = "prepared"
    BY <1>5 DEF Execute, ExecuteResults, Meddled
  <2>2. last = "none"
    BY <2>1 DEF ServiceInv, ProgressInv
  <2>3. HttpFits(w, last)
    BY <1>2, ProbeKeeps
  <2>4. HttpFits(world', "none")
    BY <2>1, <2>3, HttpPhases
  <2> QED
    BY <1>1, <2>1, <2>2, <2>4 DEF HttpInv
<1>6. CASE Verify
  <2>1. PICK r \in HttpVerify(world, meta) : world' = r.world /\ last' = last
    BY <1>6 DEF Verify, VerifyResults
  <2>2. HttpFits(r.world, last)
    BY <1>2, HttpPhases
  <2> QED
    BY <1>1, <2>1, <2>2 DEF HttpInv
<1>7. CASE Compensate
  <2>1. PICK w \in {world} \cup HttpMeddle(world) :
          \E r \in HttpRollback(w, meta) : world' = r.world /\ last' = r.answer
    BY <1>7 DEF Compensate, RollbackResults, Meddled
  <2>2. HttpFits(w, last)
    BY <1>2, ProbeKeeps
  <2>3. HttpFits(world', last')
    BY <2>1, <2>2, HttpPhases
  <2> QED
    BY <1>1, <2>3 DEF HttpInv
<1>8. CASE Meddle
  <2>1. world' \in HttpMeddle(world) /\ last' = last
    BY <1>8 DEF Meddle, Meddled
  <2>2. HttpFits(world', last)
    BY <1>2, <2>1, ProbeKeeps
  <2> QED
    BY <1>1, <2>1, <2>2 DEF HttpInv
<1>9. CASE Forget
  BY <1>9 DEF Forget
<1> QED
  BY <1>3, <1>4, <1>5, <1>6, <1>7, <1>8, <1>9 DEF Next

\* Execution and any number of replays under a valid contract are carried out by
\* the server at most once, whatever answers were lost or refused, and a reported
\* recovery means that they were.
THEOREM MutationsApplyOnce == Spec => []AppliedOnce
<1>1. Init => ServiceInv /\ HttpInv
  BY ServiceInit, HttpInit
<1>2. ServiceInv /\ HttpInv /\ [Next]_vars => (ServiceInv /\ HttpInv)'
  BY ServiceStep, HttpStep
<1>3. HttpInv => AppliedOnce
  BY DEF HttpInv, HttpFits, AppliedOnce
<1> QED
  BY <1>1, <1>2, <1>3, PTL DEF Spec

------------------------------------------------------------------------------
(* GCS *)

\* No call reaches the object.
GcsInv ==
  Key = "gcs" /\ meddled = 0 => world.object = before

\* The adapter has no client.
LEMMA GcsPhases ==
  ASSUME NEW a, NEW w, NEW m, NEW r,
         r \in GcsPrepare(w) \cup GcsExecute(w, m) \cup GcsVerify(w, m) \cup GcsRollback(a, w, m)
  PROVE  r.world = w
BY DEF GcsPrepare, GcsExecute, GcsVerify, GcsRollback, Ok, Err, Verified, Recovered, Incomplete

\* The object is what it was.
LEMMA GcsInit == Init => GcsInv
<1> SUFFICES ASSUME Init, Key = "gcs" PROVE before = world.object
  BY DEF GcsInv
<1>1. before = Visible(Key, world)
  BY DEF Init, Key
<1> QED
  BY <1>1 DEF Visible, GcsVisible

\* Every step that the GCS adapter takes part in.
LEMMA GcsStep ==
  ASSUME ServiceInv, GcsInv, [Next]_vars
  PROVE  GcsInv'
<1>1. Key' = Key /\ before' = before /\ (meddled' = 0 => meddled = 0)
  BY ServiceStep
<1> SUFFICES ASSUME Key = "gcs", meddled' = 0 PROVE world' = world
  BY <1>1 DEF GcsInv
<1>2. CASE UNCHANGED vars
  BY <1>2 DEF vars
<1>3. CASE Prepare \/ LatePrepare
  <2>1. PICK r \in GcsPrepare(world) : world' = r.world
    BY <1>3 DEF Prepare, LatePrepare, PrepareResults
  <2> QED
    BY <2>1, GcsPhases
<1>4. CASE Execute
  <2>1. PICK r \in GcsExecute(world, meta) : world' = r.world
    BY <1>4, CallsAlone DEF ExecuteResults
  <2> QED
    BY <2>1, GcsPhases
<1>5. CASE Verify
  <2>1. PICK r \in GcsVerify(world, meta) : world' = r.world
    BY <1>5 DEF Verify, VerifyResults
  <2> QED
    BY <2>1, GcsPhases
<1>6. CASE Compensate
  <2>1. PICK r \in GcsRollback(Action, world, meta) : world' = r.world
    BY <1>6, CallsAlone DEF RollbackResults
  <2> QED
    BY <2>1, GcsPhases
<1>7. CASE Meddle
  BY <1>7 DEF Meddle, ServiceInv, ProgressInv
<1>8. CASE Forget
  BY <1>8 DEF Forget
<1> QED
  BY <1>2, <1>3, <1>4, <1>5, <1>6, <1>7, <1>8 DEF Next

------------------------------------------------------------------------------
(* E-mail drafts *)

DraftIds == {"target", "payload", "placeholder"}

MailWorld ==
  [drafts : [DraftIds -> {"none", "a", "new", "x"}], target : {"target", "open"},
   payload : {"target", "payload", "unset"}, inMeta : BOOLEAN]

\* Only the target's draft is touched, unless a create goes elsewhere.
MailFits(a, w, m, s, b) ==
  /\ w \in MailWorld
  /\ b \in [DraftIds -> {"none", "a", "new", "x"}]
  /\ (a = "create" => CreatedId(w) = "target") =>
       w.drafts["payload"] = b["payload"] /\ w.drafts["placeholder"] = b["placeholder"]
  /\ s = "fresh" => w.drafts = b
  /\ s # "fresh" /\ a # "create" => m.original = b["target"]
  /\ s # "fresh" /\ a = "create" /\ w.target = "target" => b["target"] = "none"

\* What MailGap says, of given drafts.
MailGaps(a, w) == a = "create" /\ (w.target = "open" \/ CreatedId(w) # "target")

MailInv ==
  Key = "maildraft" /\ meddled = 0 =>
    /\ MailFits(Action, world, meta, step, before)
    /\ last = "recovered" /\ ~MailGaps(Action, world) => world.drafts = before

\* v is w with one draft replaced.
Redrafted(v, w, i, d) ==
  /\ v \in MailWorld /\ v.target = w.target /\ v.payload = w.payload
  /\ v.drafts[i] = d /\ \A j \in DraftIds \ {i} : v.drafts[j] = w.drafts[j]

\* Replacing a draft.
LEMMA RedraftedIs ==
  ASSUME NEW w \in MailWorld, NEW i \in DraftIds, NEW d \in {"none", "a", "new", "x"}
  PROVE  Redrafted([w EXCEPT !.drafts[i] = d], w, i, d)
<1> DEFINE f == [w.drafts EXCEPT ![i] = d]
<1>1. w.drafts \in [DraftIds -> {"none", "a", "new", "x"}]
  BY DEF MailWorld
<1>2. f \in [DraftIds -> {"none", "a", "new", "x"}] /\ f[i] = d
  BY <1>1
<1>3. \A j \in DraftIds \ {i} : f[j] = w.drafts[j]
  BY <1>1
<1>4. [w EXCEPT !.drafts[i] = d] = [w EXCEPT !.drafts = f]
  BY DEF MailWorld
<1> HIDE DEF f
<1>5. /\ [w EXCEPT !.drafts = f] \in MailWorld
      /\ [w EXCEPT !.drafts = f].target = w.target
      /\ [w EXCEPT !.drafts = f].payload = w.payload
      /\ [w EXCEPT !.drafts = f].drafts = f
  BY <1>2 DEF MailWorld
<1> QED
  BY <1>2, <1>3, <1>4, <1>5 DEF Redrafted

\* Where a create goes depends on the contract alone.
LEMMA CreatedIdIs ==
  ASSUME NEW w \in MailWorld
  PROVE  /\ CreatedId(w) \in DraftIds
         /\ \A v, i, d : Redrafted(v, w, i, d) => CreatedId(v) = CreatedId(w)
<1>1. w.payload \in {"target", "payload", "unset"} /\ w.target \in {"target", "open"}
  BY DEF MailWorld
<1> QED
  BY <1>1 DEF CreatedId, DraftIds, Redrafted

\* prepare looks and notes.
LEMMA MailPrepared ==
  ASSUME NEW a \in MailActions, NEW w, NEW m, NEW b, NEW r \in MailPrepare(a, w)
  PROVE  /\ r.world = w
         /\ MailFits(a, w, m, "fresh", b) /\ r.answer = "ok" =>
              \A p \in BOOLEAN : MailFits(a, w, [r.meta EXCEPT !.planned = p], "prepared", b)
<1>1. r.world = w
  BY DEF MailPrepare, MailPrepareCreate, MailPrepareUpdate, MailPrepareDelete, Ok, Err
<1>2. ASSUME MailFits(a, w, m, "fresh", b), r.answer = "ok", NEW p \in BOOLEAN
      PROVE  MailFits(a, w, [r.meta EXCEPT !.planned = p], "prepared", b)
  <2>1. w.drafts = b /\ w.target \in {"target", "open"}
    BY <1>2 DEF MailFits, MailWorld
  <2>2. CASE a = "create"
    <3>1. Found(w) = "none"
      BY <1>2, <2>2 DEF MailPrepare, MailPrepareCreate, Err, NoDraft
    <3>2. w.target = "target" => b["target"] = "none"
      BY <2>1, <3>1 DEF Found
    <3> QED
      BY <1>2, <2>2, <3>2 DEF MailFits
  <2>3. CASE a # "create"
    <3> DEFINE u == [MailNoMeta EXCEPT !.body = "new", !.original = Found(w)]
               d == [MailNoMeta EXCEPT !.original = Found(w)]
    <3>1. /\ u.original = Found(w) /\ [u EXCEPT !.planned = p].original = Found(w)
          /\ d.original = Found(w) /\ [d EXCEPT !.planned = p].original = Found(w)
      BY DEF MailNoMeta
    <3>2. Found(w) # "none" /\ (r = Ok(w, u) \/ r = Ok(w, d))
      <4>1. r # Err(w)
        BY <1>2 DEF Err
      <4>2. r \in MailPrepareUpdate(w) \/ r \in MailPrepareDelete(w)
        BY <2>3, <4>1 DEF MailPrepare
      <4> QED
        BY <4>2 DEF MailPrepareUpdate, MailPrepareDelete, NoDraft
    <3> HIDE DEF u, d
    <3>3. r.meta = u \/ r.meta = d
      BY <3>2 DEF Ok
    <3>4. [r.meta EXCEPT !.planned = p].original = Found(w)
      BY <3>1, <3>3
    <3>5. Found(w) = b["target"]
      BY <2>1, <3>2 DEF Found, NoDraft
    <3> QED
      BY <1>2, <2>3, <3>4, <3>5 DEF MailFits
  <2> QED
    BY <2>2, <2>3
<1> QED
  BY <1>1, <1>2

\* execute writes the draft that the action names.
LEMMA MailExecuted ==
  ASSUME NEW a \in MailActions, NEW w, NEW m, NEW b, NEW r \in MailExecute(a, w, m),
         MailFits(a, w, m, "prepared", b)
  PROVE  /\ MailFits(a, r.world, m, "executed", b) /\ MailFits(a, r.world, m, "ambiguous", b)
         /\ r.answer = "ok" => r.meta = m
<1>1. w \in MailWorld /\ CreatedId(w) \in DraftIds
  BY CreatedIdIs DEF MailFits
<1>2. /\ a = "create" => Redrafted([w EXCEPT !.drafts[CreatedId(w)] = "new"], w, CreatedId(w), "new")
      /\ Redrafted([w EXCEPT !.drafts["target"] = "new"], w, "target", "new")
      /\ Redrafted([w EXCEPT !.drafts["target"] = "none"], w, "target", "none")
  BY <1>1, RedraftedIs DEF DraftIds
<1>3. /\ r.answer = "ok" => r.meta = m
      /\ \/ r.world = w
         \/ \E d : Redrafted(r.world, w, IF a = "create" THEN CreatedId(w) ELSE "target", d)
  BY <1>2 DEF MailExecute, MailExecuteCreate, MailExecuteUpdate, MailExecuteDelete, Ok, Err, NoDraft
<1>4. CASE r.world = w
  BY <1>3, <1>4 DEF MailFits
<1>5. ASSUME NEW d, NEW i, Redrafted(r.world, w, i, d),
             i = IF a = "create" THEN CreatedId(w) ELSE "target"
      PROVE  MailFits(a, r.world, m, "executed", b) /\ MailFits(a, r.world, m, "ambiguous", b)
  <2>1. r.world \in MailWorld /\ CreatedId(r.world) = CreatedId(w) /\ r.world.target = w.target
    BY <1>1, <1>5, CreatedIdIs DEF Redrafted
  <2>2. (a = "create" => CreatedId(w) = "target") =>
          /\ r.world.drafts["payload"] = w.drafts["payload"]
          /\ r.world.drafts["placeholder"] = w.drafts["placeholder"]
    BY <1>5 DEF Redrafted, DraftIds
  <2> QED
    BY <2>1, <2>2 DEF MailFits
<1> QED
  BY <1>3, <1>4, <1>5

\* Rollback puts the target's draft back.
LEMMA MailUndone ==
  ASSUME NEW a \in MailActions, NEW w, NEW m, NEW b, NEW s, s # "fresh",
         NEW r \in MailRollback(a, w, m), MailFits(a, w, m, s, b)
  PROVE  MailFits(a, r.world, m, s, b) /\ (~MailGaps(a, w) => r.world.drafts = b)
         /\ (MailGaps(a, w) <=> MailGaps(a, r.world))
<1>1. w \in MailWorld /\ b \in [DraftIds -> {"none", "a", "new", "x"}]
  BY DEF MailFits
<1>2. b["target"] \in {"none", "a", "new", "x"} /\ "target" \in DraftIds
  BY <1>1 DEF DraftIds
<1>3. /\ Redrafted([w EXCEPT !.drafts["target"] = "none"], w, "target", "none")
      /\ Redrafted([w EXCEPT !.drafts["target"] = b["target"]], w, "target", b["target"])
  BY <1>1, <1>2, RedraftedIs
<1>4. \/ a = "create" /\ w.target = "open" /\ r.world = w
      \/ Redrafted(r.world, w, "target", b["target"])
  <2>1. CASE a = "create"
    <3>1. w.target \in {"target", "open"}
      BY <1>1 DEF MailWorld
    <3>2. w.target = "target" => b["target"] = "none"
      BY <2>1 DEF MailFits
    <3> QED
      BY <1>3, <2>1, <3>1, <3>2 DEF MailRollback, MailRollbackCreate, Recovered, NoDraft
  <2>2. CASE a # "create"
    <3>1. m.original = b["target"]
      BY <2>2 DEF MailFits
    <3> QED
      BY <1>3, <2>2, <3>1 DEF MailRollback, MailRollbackUpdate, MailRollbackDelete, Recovered
  <2> QED
    BY <2>1, <2>2
<1>5. CASE a = "create" /\ w.target = "open" /\ r.world = w
  BY <1>5 DEF MailGaps
<1>6. CASE Redrafted(r.world, w, "target", b["target"])
  <2>1. r.world \in MailWorld /\ CreatedId(r.world) = CreatedId(w) /\ r.world.target = w.target
    BY <1>1, <1>6, CreatedIdIs DEF Redrafted
  <2>2. /\ r.world.drafts["payload"] = w.drafts["payload"]
        /\ r.world.drafts["placeholder"] = w.drafts["placeholder"]
        /\ r.world.drafts["target"] = b["target"]
    BY <1>6 DEF Redrafted, DraftIds
  <2>3. MailFits(a, r.world, m, s, b)
    BY <2>1, <2>2 DEF MailFits
  <2>4. ~MailGaps(a, w) => r.world.drafts = b
    <3>1. r.world.drafts \in [DraftIds -> {"none", "a", "new", "x"}]
      BY <2>1 DEF MailWorld
    <3>2. ~MailGaps(a, w) => \A i \in DraftIds : r.world.drafts[i] = b[i]
      BY <2>2 DEF MailFits, MailGaps, DraftIds
    <3> QED
      BY <1>1, <3>1, <3>2
  <2> QED
    BY <2>1, <2>3, <2>4 DEF MailGaps
<1> QED
  BY <1>4, <1>5, <1>6

\* The drafts are what they are.
LEMMA MailInit == Init => MailInv
<1> SUFFICES ASSUME Init, Key = "maildraft" PROVE MailInv
  BY DEF MailInv
<1>1. world \in Worlds(Key, Action) /\ before = Visible(Key, world) /\ last = "none" /\ step = "fresh"
  BY DEF Init, Key, Action
<1>2. world \in MailWorlds(Action) /\ before = world.drafts
  BY <1>1 DEF Worlds, Visible, MailVisible
<1>3. world \in [drafts : [DraftIds -> {NoDraft, "a"}], target : {"target", "open"},
                 payload : {"target", "payload", "unset"}, inMeta : BOOLEAN]
  BY <1>2 DEF MailWorlds, DraftIds
<1>4. world \in MailWorld
  <2> DEFINE Few == [DraftIds -> {"none", "a"}]
             All == [DraftIds -> {"none", "a", "new", "x"}]
  <2>1. Few \subseteq All
    OBVIOUS
  <2>2. world \in [drafts : Few, target : {"target", "open"},
                 payload : {"target", "payload", "unset"}, inMeta : BOOLEAN]
    BY <1>3 DEF NoDraft
  <2> HIDE DEF Few, All
  <2>3. world \in [drafts : All, target : {"target", "open"},
                 payload : {"target", "payload", "unset"}, inMeta : BOOLEAN]
    BY <2>1, <2>2
  <2> QED
    BY <2>3 DEF MailWorld, All
<1>5. world.drafts \in [DraftIds -> {"none", "a", "new", "x"}]
  BY <1>4 DEF MailWorld
<1> QED
  BY <1>1, <1>2, <1>4, <1>5 DEF MailInv, MailFits

\* Every step that the draft adapter takes part in.
LEMMA MailStep ==
  ASSUME ServiceInv, MailInv, [Next]_vars
  PROVE  MailInv'
<1>1. Key' = Key /\ Action' = Action /\ before' = before /\ (meddled' = 0 => meddled = 0)
  BY ServiceStep
<1> SUFFICES ASSUME Key = "maildraft", meddled' = 0, meddled = 0 PROVE MailInv'
  BY <1>1 DEF MailInv
<1>2. /\ Action \in MailActions /\ MailFits(Action, world, meta, step, before)
      /\ last = "recovered" /\ ~MailGaps(Action, world) => world.drafts = before
  BY DEF MailInv, ServiceInv, ContractInv
<1>3. CASE UNCHANGED vars
  BY <1>1, <1>2, <1>3 DEF MailInv, vars
<1>4. CASE Prepare
  <2>1. PICK p \in BOOLEAN, r \in MailPrepare(Action, world) :
          /\ step = "fresh" /\ world' = r.world /\ last' = last
          /\ \/ step' = step /\ meta' = meta
             \/ r.answer = "ok" /\ step' = "prepared" /\ meta' = [r.meta EXCEPT !.planned = p]
    BY <1>4 DEF Prepare, PrepareResults
  <2>2. r.world = world
    BY <1>2, MailPrepared
  <2>3. MailFits(Action, world, meta, "fresh", before)
    BY <1>2, <2>1
  <2>4. r.answer = "ok" =>
          MailFits(Action, world, [r.meta EXCEPT !.planned = p], "prepared", before)
    BY <1>2, <2>3, MailPrepared
  <2> QED
    BY <1>1, <1>2, <2>1, <2>2, <2>4 DEF MailInv
<1>5. CASE LatePrepare
  <2>1. PICK r \in MailPrepare(Action, world) : world' = r.world /\ UNCHANGED <<meta, step, last>>
    BY <1>5 DEF LatePrepare, PrepareResults
  <2>2. r.world = world
    BY <1>2, MailPrepared
  <2> QED
    BY <1>1, <1>2, <2>1, <2>2 DEF MailInv
<1>6. CASE Execute
  <2>1. PICK r \in MailExecute(Action, world, meta) :
          /\ step = "prepared" /\ world' = r.world /\ last' = last
          /\ \/ r.answer = "ok" /\ step' = "executed" /\ meta' = r.meta
             \/ step' = "ambiguous" /\ meta' = meta
    BY <1>6, CallsAlone DEF ExecuteResults
  <2>2. last # "recovered"
    BY <2>1 DEF ServiceInv, ProgressInv
  <2>3. MailFits(Action, world, meta, "prepared", before)
    BY <1>2, <2>1
  <2>4. /\ MailFits(Action, r.world, meta, "executed", before)
        /\ MailFits(Action, r.world, meta, "ambiguous", before)
        /\ r.answer = "ok" => r.meta = meta
    BY <1>2, <2>3, MailExecuted
  <2> QED
    BY <1>1, <2>1, <2>2, <2>4 DEF MailInv
<1>7. CASE Verify
  <2>1. PICK r \in MailVerify(Action, world, meta) :
          /\ step = "executed" /\ step' \in {"executed", "verified"}
          /\ world' = r.world /\ UNCHANGED <<meta, last>>
    BY <1>7 DEF Verify, VerifyResults
  <2>2. r.world = world
    BY DEF MailVerify, Verified, Err
  <2>3. MailFits(Action, world, meta, step', before)
    BY <1>2, <2>1 DEF MailFits
  <2> QED
    BY <1>1, <1>2, <2>1, <2>2, <2>3 DEF MailInv
<1>8. CASE Compensate
  <2>1. PICK r \in MailRollback(Action, world, meta) :
          step # "fresh" /\ world' = r.world /\ UNCHANGED <<meta, step>>
    BY <1>8, CallsAlone DEF RollbackResults
  <2>2. /\ MailFits(Action, r.world, meta, step, before)
        /\ ~MailGaps(Action, world) => r.world.drafts = before
        /\ MailGaps(Action, world) <=> MailGaps(Action, r.world)
    BY <1>2, <2>1, MailUndone
  <2> QED
    BY <1>1, <2>1, <2>2 DEF MailInv
<1>9. CASE Meddle
  BY <1>9 DEF Meddle, ServiceInv, ProgressInv
<1>10. CASE Forget
  BY <1>10 DEF Forget
<1> QED
  BY <1>3, <1>4, <1>5, <1>6, <1>7, <1>8, <1>9, <1>10 DEF Next

------------------------------------------------------------------------------
(* SQL *)

SqlBase == {<<1, "them">>}

SqlMeta == [ddl : BOOLEAN, reversal : Nat, schema : {"none", "old", "new"}, planned : BOOLEAN]

\* The statement and the plan of a contract.
SqlShape(w) ==
  /\ w.stmt \in {"insert", "insertMany", "update", "table", "index"}
  /\ w.plan \in {"none", "placeholder", "explicit", "beside"}
  /\ w.n \in Int
  /\ w = [rows |-> w.rows, n |-> w.n, schema |-> w.schema, others |-> w.others,
          stmt |-> w.stmt, plan |-> w.plan]

\* What an executed statement of each kind leaves behind, after k attempts to
\* undo it.
SqlDone(w, m, k) ==
  /\ w.stmt = "insert" =>
       /\ w.rows \in {SqlBase, SqlBase \cup {<<2, "us">>}} /\ w.n = 0
       /\ w.schema = "old" /\ w.others = "old" /\ ~m.ddl /\ m.reversal = 2
  /\ w.stmt = "insertMany" =>
       /\ w.plan # "placeholder" =>
            w.rows \in {SqlBase, SqlBase \cup {<<2, "us">>, <<3, "us">>}}
       /\ w.n = 0 /\ w.schema = "old" /\ w.others = "old" /\ ~m.ddl
  /\ w.stmt = "update" =>
       /\ w.rows = SqlBase /\ w.schema = "old" /\ w.others = "old" /\ ~m.ddl /\ m.reversal = 0
       /\ k = 0 => w.n = 1
  /\ w.stmt = "table" => m.ddl /\ m.schema = "old" /\ w.schema = "new"
  /\ w.stmt = "index" => /\ m.ddl /\ m.schema = "old" /\ w.schema = "old"
                         /\ w.rows = SqlBase /\ w.n = 0

SqlIs(w, b) == w.rows = b[1] /\ w.n = b[2] /\ w.schema = b[3] /\ w.others = b[4]

SqlFits(w, m, s, b, k) ==
  /\ SqlShape(w)
  /\ b = <<SqlBase, 0, "old", "old">>
  /\ s # "fresh" => m \in SqlMeta
  /\ (s \in {"fresh", "prepared"} \/ (s = "ambiguous" /\ w.stmt # "update")) => SqlIs(w, b)
  /\ s = "ambiguous" /\ w.stmt = "update" =>
       w.rows = SqlBase /\ w.schema = "old" /\ w.others = "old"
  /\ s \in {"prepared", "ambiguous"} => ~m.ddl /\ m.reversal = 0
  /\ s \in {"executed", "verified"} => SqlDone(w, m, k)

\* What SqlGap says, of a given database.
SqlGaps(w, s, k) ==
  \/ w.plan = "beside"
  \/ w.stmt = "index" /\ w.plan # "explicit"
  \/ w.stmt = "insertMany" /\ w.plan = "placeholder"
  \/ w.stmt = "update" /\ (k > 1 \/ s = "ambiguous")

SqlInv ==
  Key = "sqlite" /\ meddled = 0 =>
    /\ SqlFits(world, meta, step, before, attempts)
    /\ last = "recovered" /\ ~SqlGaps(world, step, attempts) => SqlIs(world, before)

\* The next rowid of the table before the statement.
LEMMA NextRowidIs ==
  ASSUME NEW w, w.rows = SqlBase
  PROVE  NextRowid(w) = 2 /\ LastInsertRowid(w, 1) = 2 /\ LastInsertRowid(w, 2) = 3
<1>1. {r[1] : r \in w.rows} = {1}
  BY DEF SqlBase
<1> DEFINE P(i) == \A r \in w.rows : r[1] <= i
           c == CHOOSE i \in {r[1] : r \in w.rows} \cup {0} : P(i)
<1>2. \A i \in {0, 1} : P(i) <=> i = 1
  BY DEF SqlBase
<1>3. {r[1] : r \in w.rows} \cup {0} = {0, 1}
  BY <1>1
<1> HIDE DEF P
<1>4. c = 1
  BY <1>2, <1>3
<1>5. NextRowid(w) = 1 + c
  BY DEF NextRowid, P
<1> HIDE DEF c
<1>6. NextRowid(w) = 2
  BY <1>4, <1>5
<1> QED
  BY <1>6 DEF LastInsertRowid

\* A change of the rows alone.
LEMMA SqlRowsSet ==
  ASSUME NEW w, SqlShape(w), NEW R
  PROVE  LET v == [w EXCEPT !.rows = R]
         IN  SqlShape(v) /\ v.rows = R /\ v.n = w.n /\ v.schema = w.schema /\ v.stmt = w.stmt
             /\ v.plan = w.plan /\ v.others = w.others
BY DEF SqlShape

\* Whatever was done, execute leaves what SqlDone says.
LEMMA SqlExecuted ==
  ASSUME NEW w, NEW m, NEW b, NEW k, k = 0, NEW r \in SqlExecute(w, m), SqlFits(w, m, "prepared", b, k)
  PROVE  /\ r.answer = "ok" => SqlFits(r.world, r.meta, "executed", b, k)
         /\ r.answer # "ok" => SqlFits(r.world, m, "ambiguous", b, k)
<1>1. /\ SqlShape(w) /\ b = <<SqlBase, 0, "old", "old">> /\ m \in SqlMeta /\ ~m.ddl /\ m.reversal = 0
      /\ w.rows = SqlBase /\ w.n = 0 /\ w.schema = "old" /\ w.others = "old"
  BY DEF SqlFits, SqlIs
<1>2. CASE r.answer # "ok"
  <2>1. r.world = w
    BY <1>2 DEF SqlExecute, Ok, Err
  <2> QED
    BY <1>1, <1>2, <2>1 DEF SqlFits, SqlIs
<1>3. CASE r.answer = "ok"
  <2>1. NextRowid(w) = 2 /\ LastInsertRowid(w, 1) = 2 /\ LastInsertRowid(w, 2) = 3
    BY <1>1, NextRowidIs
  <2>2. r # Err(w)
    BY <1>3 DEF Err
  <2>3. CASE w.stmt = "insert"
    <3> DEFINE v == [w EXCEPT !.rows = SqlBase \cup {<<2, "us">>}]
               q == [m EXCEPT !.reversal = 2]
    <3>1. r = Ok(v, q)
      BY <1>1, <2>1, <2>2, <2>3 DEF SqlExecute
    <3>2. /\ SqlShape(v) /\ v.rows = SqlBase \cup {<<2, "us">>} /\ v.n = 0 /\ v.schema = "old"
          /\ v.stmt = "insert" /\ v.others = "old"
      BY <1>1, <2>3, SqlRowsSet
    <3>3. q \in SqlMeta /\ ~q.ddl /\ q.reversal = 2
      BY <1>1 DEF SqlMeta
    <3> HIDE DEF v, q
    <3> QED
      BY <1>1, <3>1, <3>2, <3>3 DEF Ok, SqlFits, SqlDone
  <2>4. CASE w.stmt = "insertMany"
    <3> DEFINE v == [w EXCEPT !.rows = SqlBase \cup {<<2, "us">>, <<3, "us">>}]
               q == [m EXCEPT !.reversal = 3]
    <3>1. r = Ok(v, q)
      BY <1>1, <2>1, <2>2, <2>4 DEF SqlExecute
    <3>2. /\ SqlShape(v) /\ v.rows = SqlBase \cup {<<2, "us">>, <<3, "us">>} /\ v.n = 0
          /\ v.schema = "old" /\ v.stmt = "insertMany" /\ v.others = "old"
      BY <1>1, <2>4, SqlRowsSet
    <3>3. q \in SqlMeta /\ ~q.ddl
      BY <1>1 DEF SqlMeta
    <3> HIDE DEF v, q
    <3> QED
      BY <1>1, <3>1, <3>2, <3>3 DEF Ok, SqlFits, SqlDone
  <2>5. CASE w.stmt = "update"
    <3> DEFINE v == [w EXCEPT !.n = 1]
               q == [m EXCEPT !.reversal = 0]
    <3>1. r = Ok(v, q)
      BY <1>1, <2>1, <2>2, <2>5 DEF SqlExecute
    <3>2. /\ SqlShape(v) /\ v.rows = SqlBase /\ v.n = 1 /\ v.schema = "old" /\ v.stmt = "update"
          /\ v.others = "old"
      BY <1>1, <2>5 DEF SqlShape
    <3>3. q \in SqlMeta /\ ~q.ddl /\ q.reversal = 0
      BY <1>1 DEF SqlMeta
    <3> HIDE DEF v, q
    <3> QED
      BY <1>1, <3>1, <3>2, <3>3 DEF Ok, SqlFits, SqlDone
  <2>6. CASE w.stmt = "table"
    <3> DEFINE v == [w EXCEPT !.schema = "new"]
               q == [m EXCEPT !.ddl = TRUE, !.schema = "old"]
    <3>1. r = Ok(v, q)
      BY <1>1, <2>2, <2>6 DEF SqlExecute
    <3>2. SqlShape(v) /\ v.schema = "new" /\ v.stmt = "table"
      BY <1>1, <2>6 DEF SqlShape
    <3>3. q \in SqlMeta /\ q.ddl /\ q.schema = "old"
      BY <1>1 DEF SqlMeta
    <3> HIDE DEF v, q
    <3> QED
      BY <1>1, <3>1, <3>2, <3>3 DEF Ok, SqlFits, SqlDone
  <2>7. CASE w.stmt = "index"
    <3> DEFINE v == [w EXCEPT !.others = "new"]
               q == [m EXCEPT !.ddl = TRUE, !.schema = "old"]
    <3>1. r = Ok(v, q)
      BY <1>1, <2>2, <2>7 DEF SqlExecute
    <3>2. SqlShape(v) /\ v.schema = "old" /\ v.stmt = "index" /\ v.rows = SqlBase /\ v.n = 0
      BY <1>1, <2>7 DEF SqlShape
    <3>3. q \in SqlMeta /\ q.ddl /\ q.schema = "old"
      BY <1>1 DEF SqlMeta
    <3> HIDE DEF v, q
    <3> QED
      BY <1>1, <3>1, <3>2, <3>3 DEF Ok, SqlFits, SqlDone
  <2> QED
    BY <1>1, <2>3, <2>4, <2>5, <2>6, <2>7 DEF SqlShape
<1> QED
  BY <1>2, <1>3

\* Taking our rows out, by rowid or by the caller's inverse.
LEMMA RowsAre ==
  ASSUME NEW R, R \in {SqlBase, SqlBase \cup {<<2, "us">>}, SqlBase \cup {<<2, "us">>, <<3, "us">>}}
  PROVE  /\ {x \in R : x[2] # "us"} = SqlBase
         /\ R \in {SqlBase, SqlBase \cup {<<2, "us">>}} => {x \in R : x[1] # 2} = SqlBase
BY DEF SqlBase

\* What an attempt to undo leaves behind.
LEMMA SqlUndone ==
  ASSUME NEW w, NEW m, NEW b, NEW s \in {"executed", "ambiguous"}, NEW k \in Nat, NEW j, j = k + 1,
         NEW r \in SqlRollback(w, m), SqlFits(w, m, s, b, k)
  PROVE  /\ SqlFits(r.world, m, s, b, j)
         /\ r.answer = "recovered" /\ ~SqlGaps(r.world, s, j) => SqlIs(r.world, b)
<1>1. /\ SqlShape(w) /\ b = <<SqlBase, 0, "old", "old">> /\ m \in SqlMeta /\ m.ddl \in BOOLEAN
      /\ b[1] = SqlBase /\ b[2] = 0 /\ b[3] = "old" /\ b[4] = "old"
  BY DEF SqlFits, SqlMeta
<1>2. SqlFits(w, m, s, b, j)
  BY DEF SqlFits, SqlDone
<1>3. CASE r.answer # "recovered"
  <2>1. r.world = w
    BY <1>3 DEF SqlRollback, SqlRollbackDdl, SqlRollbackDml, CallersInverse, Recovered, Err
  <2> QED
    BY <1>2, <1>3, <2>1
<1>7. CASE w.plan = "beside"
  <2>1. r.world = w
    BY <1>7 DEF SqlRollback, SqlRollbackDdl, SqlRollbackDml, Recovered, Err
  <2> QED
    BY <1>2, <1>7, <2>1 DEF SqlGaps
<1>8. CASE r.answer = "recovered" /\ w.plan # "beside" /\ w.stmt = "index"
  <2>1. s = "executed"
    <3>1. s = "ambiguous" => ~m.ddl /\ m.reversal = 0 /\ w.others = "old"
      BY <1>1, <1>8 DEF SqlFits, SqlIs
    <3>2. s = "ambiguous" => r = Err(w)
      BY <1>8, <3>1 DEF SqlRollback, SqlRollbackDml, CallersInverse
    <3> QED
      BY <1>8, <3>2 DEF Err
  <2>2. m.ddl /\ w.schema = m.schema /\ w.schema = "old" /\ w.rows = SqlBase /\ w.n = 0
    BY <1>8, <2>1 DEF SqlFits, SqlDone
  <2>3. CASE w.plan # "explicit"
    <3>1. r.world = w
      BY <2>2, <2>3 DEF SqlRollback, SqlRollbackDdl, Recovered, Err
    <3> QED
      BY <1>2, <1>8, <2>3, <3>1 DEF SqlGaps
  <2>4. CASE w.plan = "explicit"
    <3> DEFINE v == [w EXCEPT !.others = "old"]
    <3>1. r \in CallersInverse(w) /\ r # Err(w)
      BY <1>8, <2>2, <2>4 DEF SqlRollback, SqlRollbackDdl, Err
    <3>2. r = Recovered(v)
      BY <1>8, <3>1 DEF CallersInverse
    <3>3. /\ SqlShape(v) /\ v.rows = w.rows /\ v.n = w.n /\ v.schema = w.schema /\ v.others = "old"
          /\ v.stmt = w.stmt
      BY <1>1 DEF SqlShape
    <3> HIDE DEF v
    <3>4. r.world = v
      BY <3>2 DEF Recovered
    <3>5. SqlIs(v, b)
      BY <1>1, <2>2, <3>3 DEF SqlIs
    <3>6. SqlFits(v, m, s, b, j)
      BY <1>1, <1>8, <2>1, <2>2, <3>3 DEF SqlFits, SqlDone
    <3> QED
      BY <3>4, <3>5, <3>6
  <2> QED
    BY <2>3, <2>4
<1>4. CASE r.answer = "recovered" /\ w.plan # "beside" /\ w.stmt = "table"
  <2>1. s = "executed" => m.ddl /\ w.schema # m.schema
    BY <1>4 DEF SqlFits, SqlDone
  <2>2. s = "ambiguous" => ~m.ddl /\ m.reversal = 0 /\ w.schema = "old"
    BY <1>1, <1>4 DEF SqlFits, SqlIs
  <2>3. r = Err(w)
    BY <1>4, <2>1, <2>2 DEF SqlRollback, SqlRollbackDdl, SqlRollbackDml, CallersInverse
  <2> QED
    BY <1>4, <2>3 DEF Err
<1>5. CASE r.answer = "recovered" /\ w.plan # "beside" /\ w.stmt = "update"
  <2>1. ~m.ddl /\ m.reversal = 0 /\ w.rows = SqlBase /\ w.schema = "old" /\ w.others = "old"
    BY <1>5 DEF SqlFits, SqlDone
  <2>2. r \in SqlRollbackDml(w, m) /\ r # Err(w)
    BY <1>5, <2>1 DEF SqlRollback, Err
  <2>3. r \in CallersInverse(w)
    BY <1>5, <2>1, <2>2 DEF SqlRollbackDml
  <2> DEFINE v == [w EXCEPT !.n = w.n - 1]
  <2>4. r = Recovered(v)
    BY <1>5, <2>2, <2>3 DEF CallersInverse
  <2>5. w.n - 1 \in Int /\ (k = 0 /\ s = "executed" => w.n - 1 = 0)
    BY <1>1, <1>5 DEF SqlShape, SqlFits, SqlDone
  <2>6. /\ SqlShape(v) /\ v.rows = SqlBase /\ v.n = w.n - 1 /\ v.schema = "old" /\ v.stmt = "update"
        /\ v.others = "old"
    BY <1>1, <1>5, <2>1, <2>5 DEF SqlShape
  <2> HIDE DEF v
  <2>7. r.world = v
    BY <2>4 DEF Recovered
  <2>8. SqlFits(v, m, s, b, j)
    BY <1>1, <2>1, <2>6 DEF SqlFits, SqlDone
  <2>9. ~SqlGaps(v, s, j) => SqlIs(v, b)
    <3>1. ~SqlGaps(v, s, j) => k = 0 /\ s = "executed"
      BY <2>6 DEF SqlGaps
    <3> QED
      BY <1>1, <2>5, <2>6, <3>1 DEF SqlIs
  <2> QED
    BY <2>7, <2>8, <2>9
<1>6. CASE r.answer = "recovered" /\ w.plan # "beside" /\ w.stmt \in {"insert", "insertMany"}
  <2>1. ~m.ddl /\ w.n = 0 /\ w.schema = "old" /\ w.others = "old"
    BY <1>1, <1>6 DEF SqlFits, SqlDone, SqlIs
  <2>2. r \in SqlRollbackDml(w, m) /\ r # Err(w)
    BY <1>6, <2>1 DEF SqlRollback, Err
  <2>3. CASE w.plan = "placeholder" /\ w.stmt = "insertMany"
    <3> DEFINE R == {x \in w.rows : x[1] # m.reversal}
               v == [w EXCEPT !.rows = R]
    <3>1. r = Recovered(v) /\ m.reversal # 0
      BY <2>2, <2>3 DEF SqlRollbackDml
    <3>2. s = "executed"
      BY <3>1 DEF SqlFits
    <3> HIDE DEF R
    <3>3. /\ SqlShape(v) /\ v.n = w.n /\ v.schema = w.schema /\ v.stmt = w.stmt /\ v.plan = w.plan
          /\ v.others = w.others
      <4>1. SqlShape(w)
        BY <1>1
      <4> QED
        BY <4>1, SqlRowsSet, Zenon
    <3> HIDE DEF v
    <3>4. r.world = v
      BY <3>1 DEF Recovered
    <3>5. SqlDone(v, m, j)
      BY <2>1, <2>3, <3>3 DEF SqlDone
    <3>6. SqlFits(v, m, s, b, j)
      BY <1>1, <3>2, <3>3, <3>5 DEF SqlFits
    <3>7. SqlGaps(v, s, j)
      BY <2>3, <3>3 DEF SqlGaps
    <3> QED
      BY <3>4, <3>6, <3>7
  <2>4. CASE ~(w.plan = "placeholder" /\ w.stmt = "insertMany")
    <3>1. w.rows \in {SqlBase, SqlBase \cup {<<2, "us">>}, SqlBase \cup {<<2, "us">>, <<3, "us">>}}
      BY <1>1, <1>6, <2>4 DEF SqlFits, SqlDone, SqlIs
    <3> DEFINE v == [w EXCEPT !.rows = SqlBase]
    <3>2. r = Recovered(v)
      <4>1. CASE w.plan = "explicit"
        <5>1. r = Recovered([w EXCEPT !.rows = {x \in w.rows : x[2] # "us"}])
          BY <1>6, <2>2, <4>1 DEF SqlRollbackDml, CallersInverse
        <5> QED
          BY <3>1, <5>1, RowsAre
      <4>2. CASE w.plan = "placeholder"
        <5>1. m.reversal # 0 /\ r = Recovered([w EXCEPT !.rows = {x \in w.rows : x[1] # m.reversal}])
          BY <2>2, <4>2 DEF SqlRollbackDml
        <5>2. /\ m.reversal = 2 /\ w.stmt = "insert"
              /\ w.rows \in {SqlBase, SqlBase \cup {<<2, "us">>}}
          BY <1>6, <2>4, <4>2, <5>1 DEF SqlFits, SqlDone
        <5>3. {x \in w.rows : x[1] # m.reversal} = SqlBase
          BY <3>1, <5>2, RowsAre
        <5> QED
          BY <5>1, <5>3
      <4>3. w.plan \in {"explicit", "placeholder"}
        BY <1>1, <1>6, <2>2 DEF SqlRollbackDml, SqlShape
      <4> QED
        BY <4>1, <4>2, <4>3
    <3>3. /\ SqlShape(v) /\ v.rows = SqlBase /\ v.n = w.n /\ v.schema = w.schema /\ v.stmt = w.stmt
          /\ v.plan = w.plan /\ v.others = w.others
      <4>1. SqlShape(w)
        BY <1>1
      <4>2. \A R : LET u == [w EXCEPT !.rows = R]
                   IN  SqlShape(u) /\ u.rows = R /\ u.n = w.n /\ u.schema = w.schema
                       /\ u.stmt = w.stmt /\ u.plan = w.plan /\ u.others = w.others
        BY <4>1, SqlRowsSet
      <4> QED
        BY <4>2, Zenon
    <3> HIDE DEF v
    <3>4. r.world = v
      BY <3>2 DEF Recovered
    <3>5. SqlIs(v, b)
      BY <1>1, <2>1, <3>3 DEF SqlIs
    <3>6. SqlFits(v, m, s, b, j)
      BY <1>1, <1>6, <2>1, <3>3, <3>5 DEF SqlFits, SqlDone
    <3> QED
      BY <3>4, <3>5, <3>6
  <2> QED
    BY <2>3, <2>4
<1> QED
  BY <1>1, <1>3, <1>4, <1>5, <1>6, <1>7, <1>8 DEF SqlShape

\* The database as the contract finds it.
LEMMA SqlInit == Init => SqlInv
<1> SUFFICES ASSUME Init, Key = "sqlite" PROVE SqlInv
  BY DEF SqlInv
<1>1. /\ world \in Worlds(Key, Action) /\ before = Visible(Key, world)
      /\ last = "none" /\ step = "fresh"
  BY DEF Init, Key, Action
<1>2. world \in SqlWorlds /\ before = <<world.rows, world.n, world.schema, world.others>>
  BY <1>1 DEF Worlds, Visible, SqlVisible
<1>3. SqlShape(world) /\ world.rows = SqlBase /\ world.n = 0 /\ world.schema = "old" /\ world.others = "old"
  BY <1>2 DEF SqlWorlds, SqlShape, SqlBase
<1>4. before = <<SqlBase, 0, "old", "old">> /\ SqlIs(world, before)
  BY <1>2, <1>3 DEF SqlIs
<1> QED
  BY <1>1, <1>3, <1>4 DEF SqlInv, SqlFits

\* Every step that the SQLite adapter takes part in.
LEMMA SqlStep ==
  ASSUME ServiceInv, SqlInv, [Next]_vars
  PROVE  SqlInv'
<1>1. Key' = Key /\ Action' = Action /\ before' = before /\ (meddled' = 0 => meddled = 0)
  BY ServiceStep
<1> SUFFICES ASSUME Key = "sqlite", meddled' = 0, meddled = 0 PROVE SqlInv'
  BY <1>1 DEF SqlInv
<1>2. /\ SqlFits(world, meta, step, before, attempts) /\ attempts \in Nat
      /\ last = "recovered" /\ ~SqlGaps(world, step, attempts) => SqlIs(world, before)
  BY DEF SqlInv, ServiceInv, ProgressInv
<1>3. CASE UNCHANGED vars
  BY <1>1, <1>2, <1>3 DEF SqlInv, vars
<1>4. CASE Prepare
  <2>1. PICK p \in BOOLEAN, r \in SqlPrepare(world) :
          /\ step = "fresh" /\ world' = r.world /\ last' = last /\ attempts' = attempts
          /\ \/ step' = step /\ meta' = meta
             \/ r.answer = "ok" /\ step' = "prepared" /\ meta' = [r.meta EXCEPT !.planned = p]
    BY <1>4 DEF Prepare, PrepareResults
  <2>2. r.world = world /\ (r.answer = "ok" => r.meta = SqlNoMeta)
    BY DEF SqlPrepare, Ok, Err
  <2>3. last # "recovered"
    BY <2>1 DEF ServiceInv, ProgressInv
  <2>4. LET q == [SqlNoMeta EXCEPT !.planned = p]
        IN  q \in SqlMeta /\ ~q.ddl /\ q.reversal = 0
    BY DEF SqlNoMeta, SqlMeta
  <2>5. SqlFits(world, meta', step', before, attempts)
    BY <1>2, <2>1, <2>2, <2>4 DEF SqlFits
  <2> QED
    BY <1>1, <2>1, <2>2, <2>3, <2>5 DEF SqlInv
<1>5. CASE LatePrepare
  <2>1. PICK r \in SqlPrepare(world) :
          world' = r.world /\ UNCHANGED <<meta, step, last, attempts>>
    BY <1>5 DEF LatePrepare, PrepareResults
  <2>2. r.world = world
    BY DEF SqlPrepare, Ok, Err
  <2> QED
    BY <1>1, <1>2, <2>1, <2>2 DEF SqlInv
<1>6. CASE Execute
  <2>1. PICK r \in SqlExecute(world, meta) :
          /\ step = "prepared" /\ world' = r.world /\ last' = last /\ attempts' = attempts
          /\ IF r.answer = "ok" THEN step' = "executed" /\ meta' = r.meta
                                ELSE step' = "ambiguous" /\ meta' = meta
    <3>1. attempts' = attempts
      BY <1>6 DEF Execute
    <3> QED
      BY <1>6, <3>1, CallsAlone DEF ExecuteResults
  <2>2. last # "recovered" /\ attempts = 0
    BY <2>1 DEF ServiceInv, ProgressInv
  <2>3. SqlFits(world, meta, "prepared", before, attempts)
    BY <1>2, <2>1
  <2>4. /\ r.answer = "ok" => SqlFits(r.world, r.meta, "executed", before, attempts)
        /\ r.answer # "ok" => SqlFits(r.world, meta, "ambiguous", before, attempts)
    BY <2>2, <2>3, SqlExecuted
  <2> QED
    BY <1>1, <2>1, <2>2, <2>4 DEF SqlInv
<1>7. CASE Verify
  <2>1. PICK r \in SqlVerify(world, meta) :
          /\ step = "executed" /\ step' \in {"executed", "verified"}
          /\ world' = r.world /\ UNCHANGED <<meta, last, attempts>>
    BY <1>7 DEF Verify, VerifyResults
  <2>2. r.world = world
    BY DEF SqlVerify, Verified, Unverified
  <2>3. SqlFits(world, meta, step', before, attempts)
    BY <1>2, <2>1 DEF SqlFits
  <2>4. SqlGaps(world, step, attempts) => SqlGaps(world, step', attempts)
    BY <2>1 DEF SqlGaps
  <2> QED
    BY <1>1, <1>2, <2>1, <2>2, <2>3, <2>4 DEF SqlInv
<1>8. CASE Compensate
  <2>1. PICK r \in SqlRollback(world, meta) :
          /\ step \in {"executed", "ambiguous"} /\ attempts' = attempts + 1
          /\ world' = r.world /\ last' = r.answer /\ UNCHANGED <<meta, step>>
    BY <1>8, CallsAlone DEF RollbackResults
  <2>2. /\ SqlFits(r.world, meta, step, before, attempts')
        /\ r.answer = "recovered" /\ ~SqlGaps(r.world, step, attempts') => SqlIs(r.world, before)
    BY <1>2, <2>1, SqlUndone
  <2> QED
    BY <1>1, <2>1, <2>2 DEF SqlInv
<1>9. CASE Meddle
  BY <1>9 DEF Meddle, ServiceInv, ProgressInv
<1>10. CASE Forget
  BY <1>10 DEF Forget
<1> QED
  BY <1>3, <1>4, <1>5, <1>6, <1>7, <1>8, <1>9, <1>10 DEF Next

------------------------------------------------------------------------------
(* S3 *)

Version == Nat \X {"a", "b", "new", "gone"}

S3World ==
  [key : Seq(Version), dest : Seq(Version), next : Nat, live : BOOLEAN,
   versioned : BOOLEAN, required : BOOLEAN]

S3Meta == [after : {0, 3}, planned : BOOLEAN]

\* The versions that were there before the contract.
Elder(k, c) == k \in Seq(Version) /\ Current(k) = c /\ \A i \in 1..Len(k) : k[i][1] < 3

\* They are all there is, or the contract's own version is on top of them.
OursOnTop(versions, c) ==
  \E k \in Seq(Version) :
    /\ Elder(k, c)
    /\ versions = k \/ \E v \in Version : v[1] = 3 /\ versions = Append(k, v)

S3Fits(a, w, m, s, b) ==
  /\ w \in S3World
  /\ b = <<b[1], b[2]>> /\ Current(w.dest) = b[2]
  /\ s # "fresh" => m \in S3Meta
  /\ s \in {"fresh", "prepared"} => Elder(w.key, b[1]) /\ w.next = 3
  /\ s = "prepared" => m.after = 0
  /\ a = "S3GetObject" => Current(w.key) = b[1]
  /\ s # "fresh" /\ m.after # 0 => OursOnTop(w.key, b[1])
  /\ s = "executed" /\ w.live /\ w.versioned /\ a \in {"S3PutObject", "S3DeleteObject"} =>
       m.after = 3

\* A copy is undone under the source's key and has no such invariant.
S3Inv ==
  Key = "s3" /\ meddled = 0 /\ Action # "S3CopyObject" =>
    /\ S3Fits(Action, world, meta, step, before)
    /\ last = "recovered" => Current(world.key) = before[1]

\* A version that is not there cannot be taken out, and one that is on top
\* leaves the elder ones.
LEMMA WithoutOurs ==
  ASSUME NEW k \in Seq(Version), NEW v \in Version, v[1] = 3,
         \A i \in 1..Len(k) : k[i][1] < 3
  PROVE  Without(k, 3) = k /\ Without(Append(k, v), 3) = k
<1>1. \A i \in 1..Len(k) : k[i] \in Version /\ k[i][1] \in Nat
  BY DEF Version
<1>2. Without(k, 3) = k
  <2>1. DOMAIN k = 1..Len(k)
    OBVIOUS
  <2>2. ~ \E i \in DOMAIN k : k[i][1] = 3
    BY <1>1, <2>1
  <2> QED
    BY <2>2 DEF Without
<1>3. Without(Append(k, v), 3) = k
  <2> DEFINE l == Append(k, v)
             n == Len(k)
  <2>1. l \in Seq(Version) /\ Len(l) = n + 1 /\ n \in Nat /\ l[n + 1] = v /\ DOMAIN l = 1..(n + 1)
    OBVIOUS
  <2>2. \A i \in 1..n : l[i] = k[i]
    OBVIOUS
  <2> HIDE DEF l, n
  <2>3. \A i \in DOMAIN l : l[i][1] = 3 <=> i = n + 1
    <3>1. \A i \in 1..n : l[i][1] # 3
      BY <1>1, <2>2 DEF n
    <3> QED
      BY <2>1, <3>1
  <2> DEFINE P(i) == l[i][1] = 3
             c == CHOOSE j \in DOMAIN l : P(j)
  <2>4. n + 1 \in DOMAIN l
    BY <2>1
  <2>5. c = n + 1
    <3>1. \A i \in DOMAIN l : P(i) <=> i = n + 1
      BY <2>3
    <3> HIDE DEF P
    <3> QED
      BY <2>4, <3>1
  <2>6. Without(l, 3) = SubSeq(l, 1, c - 1) \o SubSeq(l, c + 1, Len(l))
    BY <2>3, <2>4 DEF Without
  <2> HIDE DEF c
  <2>7. c - 1 = n /\ c + 1 = n + 2 /\ Len(l) = n + 1
    BY <2>1, <2>5
  <2>8. Without(l, 3) = SubSeq(l, 1, n) \o SubSeq(l, n + 2, n + 1)
    BY <2>6, <2>7
  <2> DEFINE x == SubSeq(l, 1, n)
             y == SubSeq(l, n + 2, n + 1)
  <2>9. x \in Seq(Version) /\ Len(x) = n /\ \A i \in 1..n : x[i] = l[i]
    BY <2>1
  <2>10. y \in Seq(Version) /\ Len(y) = 0
    BY <2>1
  <2> HIDE DEF x, y
  <2>11. Len(x \o y) = n /\ x \o y \in Seq(Version) /\ \A i \in 1..n : (x \o y)[i] = x[i]
    BY <2>1, <2>9, <2>10
  <2>12. x \o y = k
    BY <2>2, <2>9, <2>11 DEF n
  <2> QED
    BY <2>8, <2>12 DEF l, x, y
<1> QED
  BY <1>2, <1>3

\* Taking the contract's version out brings the elder content back.
LEMMA OursTakenOut ==
  ASSUME NEW versions, NEW c, OursOnTop(versions, c)
  PROVE  /\ Without(versions, 3) \in Seq(Version) /\ Elder(Without(versions, 3), c)
         /\ OursOnTop(Without(versions, 3), c)
<1>1. PICK k \in Seq(Version) :
        /\ Elder(k, c)
        /\ versions = k \/ \E v \in Version : v[1] = 3 /\ versions = Append(k, v)
  BY DEF OursOnTop
<1>2. \A i \in 1..Len(k) : k[i][1] < 3
  BY <1>1 DEF Elder
<1>3. Without(versions, 3) = k
  <2>1. CASE versions = k
    <3>1. <<3, "new">> \in Version /\ <<3, "new">>[1] = 3
      BY DEF Version
    <3> QED
      BY <1>2, <2>1, <3>1, WithoutOurs
  <2>2. ASSUME NEW v \in Version, v[1] = 3, versions = Append(k, v) PROVE Without(versions, 3) = k
    BY <1>2, <2>2, WithoutOurs
  <2> QED
    BY <1>1, <2>1, <2>2
<1> QED
  BY <1>1, <1>3 DEF OursOnTop

\* What a write or a delete stores.
LEMMA StoredIs ==
  ASSUME NEW w \in S3World, NEW c \in {"new", "gone"}, w.next = 3
  PROVE  LET v == Stored(w, "key", c)
         IN  /\ v \in S3World /\ v.dest = w.dest /\ v.live = w.live /\ v.versioned = w.versioned
             /\ w.versioned => v.key = Append(w.key, <<3, c>>)
<1>1. w.key \in Seq(Version) /\ <<3, c>> \in Version /\ <<0, c>> \in Version
  BY DEF S3World, Version
<1>2. Append(w.key, <<3, c>>) \in Seq(Version) /\ <<>> \in Seq(Version) /\ <<<<0, c>>>> \in Seq(Version)
  <2>1. Append(w.key, <<3, c>>) \in Seq(Version)
    BY <1>1
  <2>2. \A x \in Version : <<x>> \in Seq(Version)
    OBVIOUS
  <2>3. <<>> \in Seq(Version)
    OBVIOUS
  <2>4. <<<<0, c>>>> \in Seq(Version)
    BY <1>1, <2>2, Zenon
  <2> QED
    BY <2>1, <2>3, <2>4
<1>3. CASE w.versioned
  <2> DEFINE k == Append(w.key, <<w.next, c>>)
             n == w.next + 1
  <2>1. Stored(w, "key", c) = [w EXCEPT !.key = k, !.next = n]
    BY <1>3 DEF Stored
  <2>2. k \in Seq(Version) /\ n \in Nat /\ k = Append(w.key, <<3, c>>)
    BY <1>2
  <2> HIDE DEF k, n
  <2>3. LET v == [w EXCEPT !.key = k, !.next = n]
        IN  v \in S3World /\ v.dest = w.dest /\ v.live = w.live /\ v.versioned = w.versioned /\ v.key = k
    BY <2>2 DEF S3World
  <2> QED
    BY <2>1, <2>2, <2>3
<1>4. CASE ~w.versioned
  <2> DEFINE k == IF c = "gone" THEN <<>> ELSE <<<<0, c>>>>
  <2>1. Stored(w, "key", c) = [w EXCEPT !.key = k]
    BY <1>4 DEF Stored
  <2>2. k \in Seq(Version)
    BY <1>2, Zenon
  <2> HIDE DEF k
  <2>3. LET v == [w EXCEPT !.key = k]
        IN  v \in S3World /\ v.dest = w.dest /\ v.live = w.live /\ v.versioned = w.versioned
    BY <2>2 DEF S3World
  <2> QED
    BY <1>4, <2>1, <2>3
<1> QED
  BY <1>3, <1>4

\* What execute leaves behind.
LEMMA S3Executed ==
  ASSUME NEW a \in S3Actions, a # "S3CopyObject", NEW w, NEW m, NEW b, NEW r \in S3Execute(a, w, m),
         S3Fits(a, w, m, "prepared", b)
  PROVE  /\ r.answer = "ok" => S3Fits(a, r.world, r.meta, "executed", b)
         /\ r.answer # "ok" => S3Fits(a, r.world, m, "ambiguous", b)
<1>1. /\ w \in S3World /\ m \in S3Meta /\ m.after = 0 /\ Elder(w.key, b[1]) /\ w.next = 3
      /\ b = <<b[1], b[2]>> /\ Current(w.dest) = b[2] /\ w.key \in Seq(Version)
  BY DEF S3Fits, S3World
<1>2. CASE r.world = w /\ (r.answer = "ok" => r.meta = m /\ (~w.live \/ a = "S3GetObject"))
  BY <1>1, <1>2 DEF S3Fits
<1>3. ASSUME NEW c \in {"new", "gone"}, a # "S3GetObject",
             LET done == Stored(w, "key", c) IN r \in {Ok(done, Told(w, m)), Err(done), Err(w)}
      PROVE  /\ r.answer = "ok" => S3Fits(a, r.world, r.meta, "executed", b)
             /\ r.answer # "ok" => S3Fits(a, r.world, m, "ambiguous", b)
  <2> DEFINE v == Stored(w, "key", c)
             q == Told(w, m)
  <2>1. /\ v \in S3World /\ v.dest = w.dest /\ v.live = w.live /\ v.versioned = w.versioned
        /\ w.versioned => v.key = Append(w.key, <<3, c>>)
    BY <1>1, <1>3, StoredIs
  <2>2. r \in {Ok(v, q), Err(v), Err(w)}
    BY <1>3
  <2> HIDE DEF v
  <2>3. q \in S3Meta /\ (w.versioned => q.after = 3) /\ (~w.versioned => q.after = 0)
    BY <1>1 DEF Told, S3Meta
  <2> HIDE DEF q
  <2>4. w.versioned => OursOnTop(v.key, b[1])
    <3>1. <<3, c>> \in Version /\ <<3, c>>[1] = 3
      BY <1>3 DEF Version
    <3> QED
      BY <1>1, <2>1, <3>1 DEF OursOnTop
  <2>5. \/ r.answer = "ok" /\ r.world = v /\ r.meta = q
        \/ r.answer # "ok" /\ r.world \in {v, w}
    BY <2>2 DEF Ok, Err
  <2>6. S3Fits(a, v, q, "executed", b)
    BY <1>1, <1>3, <2>1, <2>3, <2>4 DEF S3Fits
  <2>7. S3Fits(a, v, m, "ambiguous", b) /\ S3Fits(a, w, m, "ambiguous", b)
    BY <1>1, <1>3, <2>1 DEF S3Fits
  <2> QED
    BY <2>5, <2>6, <2>7
<1>4. CASE ~w.live
  <2>1. r \in {Ok(w, m), Err(w)}
    BY <1>4 DEF S3Execute
  <2> QED
    BY <1>2, <1>4, <2>1 DEF Ok, Err
<1>5. CASE w.live /\ a = "S3PutObject"
  <2>1. r \in S3ExecutePut(w, m)
    BY <1>5 DEF S3Execute
  <2> QED
    BY <1>3, <1>5, <2>1 DEF S3ExecutePut
<1>6. CASE w.live /\ a = "S3DeleteObject"
  <2>1. r \in S3ExecuteDelete(w, m)
    BY <1>6 DEF S3Execute
  <2> QED
    BY <1>3, <1>6, <2>1 DEF S3ExecuteDelete
<1>7. CASE w.live /\ a = "S3GetObject"
  <2>1. r \in S3ExecuteGet(w, m)
    BY <1>7 DEF S3Execute
  <2> QED
    BY <1>2, <1>7, <2>1 DEF S3ExecuteGet, Ok, Err
<1> QED
  BY <1>4, <1>5, <1>6, <1>7 DEF S3Actions

\* What an attempt to undo leaves behind.
LEMMA S3Undone ==
  ASSUME NEW a \in S3Actions, a # "S3CopyObject", NEW w, NEW m, NEW b,
         NEW s \in {"executed", "ambiguous"}, NEW r \in S3Rollback(a, w, m), S3Fits(a, w, m, s, b)
  PROVE  S3Fits(a, r.world, m, s, b) /\ (r.answer = "recovered" => Current(r.world.key) = b[1])
<1>1. w \in S3World /\ m \in S3Meta /\ m.after \in {0, 3} /\ VersionToDelete(w, m) = m.after
  BY DEF S3Fits, S3Meta, VersionToDelete
<1>2. CASE a = "S3GetObject"
  <2>1. r = Recovered(w)
    BY <1>2 DEF S3Rollback
  <2> QED
    BY <1>2, <2>1 DEF Recovered, S3Fits
<1>3. CASE a # "S3GetObject" /\ (~w.live \/ m.after = 0)
  <2>1. r = Incomplete(w)
    BY <1>1, <1>3 DEF S3Rollback
  <2> QED
    BY <2>1 DEF Incomplete
<1>4. CASE a # "S3GetObject" /\ w.live /\ m.after = 3
  <2> DEFINE k == Without(w.key, 3)
             v == [w EXCEPT !.key = k]
  <2>1. r \in {Recovered(v), Incomplete(v), Incomplete(w)}
    BY <1>1, <1>4 DEF S3Rollback
  <2>2. OursOnTop(w.key, b[1])
    BY <1>4 DEF S3Fits
  <2>3. k \in Seq(Version) /\ Elder(k, b[1]) /\ OursOnTop(k, b[1])
    BY <2>2, OursTakenOut
  <2> HIDE DEF k
  <2>4. /\ v \in S3World /\ v.key = k /\ v.dest = w.dest /\ v.live = w.live
        /\ v.versioned = w.versioned
    BY <1>1, <2>3 DEF S3World
  <2> HIDE DEF v
  <2>5. S3Fits(a, v, m, s, b) /\ Current(v.key) = b[1]
    BY <1>4, <2>3, <2>4 DEF S3Fits, Elder
  <2> QED
    BY <2>1, <2>5 DEF Recovered, Incomplete
<1> QED
  BY <1>1, <1>2, <1>3, <1>4

\* The bucket as the contract finds it.
LEMMA S3Init == Init => S3Inv
<1> SUFFICES ASSUME Init, Key = "s3", Action # "S3CopyObject" PROVE S3Inv
  BY DEF S3Inv
<1>1. /\ world \in Worlds(Key, Action) /\ before = Visible(Key, world)
      /\ last = "none" /\ step = "fresh"
  BY DEF Init, Key, Action
<1>2. world \in S3Worlds(Action) /\ before = <<Current(world.key), Current(world.dest)>>
  BY <1>1 DEF Worlds, Visible, S3Visible
<1> DEFINE e == <<>>
           k1 == <<<<1, "a">>>>
           k0 == <<<<0, "a">>>>
<1>3. /\ world \in [key : {e, k1, k0}, dest : {e}, next : {3}, live : BOOLEAN,
                   versioned : BOOLEAN, required : BOOLEAN]
  BY <1>2 DEF S3Worlds
<1>4. e \in Seq(Version) /\ Len(e) = 0
  OBVIOUS
<1>5. k1 \in Seq(Version) /\ Len(k1) = 1 /\ k1[1][1] = 1 /\ k0 \in Seq(Version) /\ Len(k0) = 1 /\ k0[1][1] = 0
  <2>1. <<1, "a">> \in Version /\ <<0, "a">> \in Version
    BY DEF Version
  <2>2. \A x \in Version : <<x>> \in Seq(Version) /\ Len(<<x>>) = 1 /\ <<x>>[1] = x
    OBVIOUS
  <2> QED
    BY <2>1, <2>2
<1> HIDE DEF e, k1, k0
<1> DEFINE K == {e, k1, k0}
           D == {e}
<1>6. /\ K \subseteq Seq(Version) /\ D \subseteq Seq(Version)
      /\ \A k \in K : \A i \in 1..Len(k) : k[i][1] < 3
  <2>1. \A i \in 1..Len(e) : e[i][1] < 3
    BY <1>4
  <2>2. \A i \in 1..Len(k1) : i = 1
    BY <1>5
  <2>3. \A i \in 1..Len(k0) : i = 1
    BY <1>5
  <2>4. (\A i \in 1..Len(k1) : k1[i][1] < 3) /\ (\A i \in 1..Len(k0) : k0[i][1] < 3)
    BY <1>5, <2>2, <2>3
  <2> QED
    BY <1>4, <1>5, <2>1, <2>4, Zenon
<1>7. world \in S3World /\ world.key \in K /\ world.next = 3
  <2>1. world \in [key : K, dest : D, next : {3}, live : BOOLEAN, versioned : BOOLEAN,
                  required : BOOLEAN]
    BY <1>3
  <2> HIDE DEF K, D
  <2> QED
    BY <1>6, <2>1 DEF S3World
<1>8. world.key \in Seq(Version) /\ \A i \in 1..Len(world.key) : world.key[i][1] < 3
  <2> HIDE DEF K
  <2> QED
    BY <1>6, <1>7
<1> QED
  BY <1>1, <1>2, <1>7, <1>8 DEF S3Inv, S3Fits, Elder

\* Every step that the S3 adapter takes part in.
LEMMA S3Step ==
  ASSUME ServiceInv, S3Inv, [Next]_vars
  PROVE  S3Inv'
<1>1. Key' = Key /\ Action' = Action /\ before' = before /\ (meddled' = 0 => meddled = 0)
  BY ServiceStep
<1> SUFFICES ASSUME Key = "s3", Action # "S3CopyObject", meddled' = 0, meddled = 0 PROVE S3Inv'
  BY <1>1 DEF S3Inv
<1>2. /\ S3Fits(Action, world, meta, step, before) /\ Action \in S3Actions
      /\ last = "recovered" => Current(world.key) = before[1]
  BY DEF S3Inv, ServiceInv, ContractInv
<1>3. CASE UNCHANGED vars
  BY <1>1, <1>2, <1>3 DEF S3Inv, vars
<1>4. CASE Prepare
  <2>1. PICK p \in BOOLEAN, r \in S3Prepare(world) :
          /\ step = "fresh" /\ world' = r.world /\ last' = last
          /\ \/ step' = step /\ meta' = meta
             \/ r.answer = "ok" /\ step' = "prepared" /\ meta' = [r.meta EXCEPT !.planned = p]
    BY <1>4 DEF Prepare, PrepareResults
  <2>2. r.world = world /\ (r.answer = "ok" => r.meta = S3NoMeta)
    BY DEF S3Prepare, Ok, Err
  <2>3. LET q == [S3NoMeta EXCEPT !.planned = p] IN q \in S3Meta /\ q.after = 0
    BY DEF S3NoMeta, S3Meta
  <2>4. S3Fits(Action, world, meta', step', before)
    BY <1>2, <2>1, <2>2, <2>3 DEF S3Fits
  <2> QED
    BY <1>1, <1>2, <2>1, <2>2, <2>4 DEF S3Inv
<1>5. CASE LatePrepare
  <2>1. PICK r \in S3Prepare(world) : world' = r.world /\ UNCHANGED <<meta, step, last>>
    BY <1>5 DEF LatePrepare, PrepareResults
  <2>2. r.world = world
    BY DEF S3Prepare, Ok, Err
  <2> QED
    BY <1>1, <1>2, <2>1, <2>2 DEF S3Inv
<1>6. CASE Execute
  <2>1. PICK r \in S3Execute(Action, world, meta) :
          /\ step = "prepared" /\ world' = r.world /\ last' = last
          /\ IF r.answer = "ok" THEN step' = "executed" /\ meta' = r.meta
                                ELSE step' = "ambiguous" /\ meta' = meta
    BY <1>6, CallsAlone DEF ExecuteResults
  <2>2. last # "recovered"
    BY <2>1 DEF ServiceInv, ProgressInv
  <2>3. S3Fits(Action, world, meta, "prepared", before)
    BY <1>2, <2>1
  <2>4. /\ r.answer = "ok" => S3Fits(Action, r.world, r.meta, "executed", before)
        /\ r.answer # "ok" => S3Fits(Action, r.world, meta, "ambiguous", before)
    BY <1>2, <2>3, S3Executed
  <2> QED
    BY <1>1, <2>1, <2>2, <2>4 DEF S3Inv
<1>7. CASE Verify
  <2>1. PICK r \in S3Verify(world, meta) :
          /\ step = "executed" /\ step' \in {"executed", "verified"}
          /\ world' = r.world /\ UNCHANGED <<meta, last>>
    BY <1>7 DEF Verify, VerifyResults
  <2>2. r.world = world
    BY DEF S3Verify, Verified, Err
  <2>3. S3Fits(Action, world, meta, step', before)
    BY <1>2, <2>1 DEF S3Fits
  <2> QED
    BY <1>1, <1>2, <2>1, <2>2, <2>3 DEF S3Inv
<1>8. CASE Compensate
  <2>1. PICK r \in S3Rollback(Action, world, meta) :
          /\ step \in {"executed", "ambiguous"}
          /\ world' = r.world /\ last' = r.answer /\ UNCHANGED <<meta, step>>
    BY <1>8, CallsAlone DEF RollbackResults
  <2>2. /\ S3Fits(Action, r.world, meta, step, before)
        /\ r.answer = "recovered" => Current(r.world.key) = before[1]
    BY <1>2, <2>1, S3Undone
  <2> QED
    BY <1>1, <2>1, <2>2 DEF S3Inv
<1>9. CASE Meddle
  BY <1>9 DEF Meddle, ServiceInv, ProgressInv
<1>10. CASE Forget
  BY <1>10 DEF Forget
<1> QED
  BY <1>3, <1>4, <1>5, <1>6, <1>7, <1>8, <1>9, <1>10 DEF Next

------------------------------------------------------------------------------
(* Git *)

GitWorld ==
  [main : Nat, branch : Nat, on : {"main", "branch", "detached"}, dirty : BOOLEAN, tag : Nat,
   remote : Nat, tracking : Nat, given : Nat, after : Nat, asked : Nat]

GitMeta ==
  [base : Nat, branch : Nat, tag : Nat, head : Nat, pushed : Nat, remote : Nat,
   named : BOOLEAN, planned : BOOLEAN]

GitIs(w, b) == w.main = b[1] /\ w.branch = b[2] /\ w.tag = b[3] /\ w.remote = b[4]

\* Where HEAD was at first.
HeadThen(w, b) == IF w.on = "branch" THEN b[2] ELSE b[1]

\* What an action leaves alone, and what prepare noted for its reversal.
GitDone(a, w, m, b) ==
  /\ a = "GitBranchCreate" \/ (a = "GitCommitBranch" /\ m.named) =>
       w.main = b[1] /\ w.tag = b[3] /\ w.remote = b[4] /\ b[2] = 0
  /\ a = "GitCommit" /\ w.given = HeadThen(w, b) => GitIs(w, b)
  /\ a = "GitTagCreate" => w.main = b[1] /\ w.branch = b[2] /\ w.remote = b[4] /\ b[3] = 0
  /\ a = "GitTagDelete" =>
       w.main = b[1] /\ w.branch = b[2] /\ w.remote = b[4] /\ m.tag = b[3] /\ w.tag \in {0, b[3]}
  /\ a = "GitBranchDelete" =>
       w.main = b[1] /\ w.tag = b[3] /\ w.remote = b[4] /\ m.branch = b[2] /\ w.branch \in {0, b[2]}
  /\ a = "GitPush" => w.main = b[1] /\ w.branch = b[2] /\ w.tag = b[3]
  /\ a = "GitPull" =>
       /\ w.tag = b[3] /\ w.remote = b[4]
       /\ IF w.on = "branch" THEN w.main = b[1] /\ m.head = b[2]
                             ELSE w.branch = b[2] /\ m.head = b[1]
  /\ a = "GitFetch" => GitIs(w, b) /\ m.branch = b[2]

GitFits(a, w, m, s, b) ==
  /\ b = <<b[1], b[2], b[3], b[4]>>
  /\ s \in {"fresh", "prepared"} => GitIs(w, b)
  /\ s # "fresh" => GitDone(a, w, m, b)

\* What GitGap says, of given refs.
GitGaps(a, w, m, b) ==
  \/ a = "GitPush" /\ b[4] # 0
  \/ a = "GitCommitBranch" /\ ~m.named
  \/ a = "GitCommit" /\ w.given # HeadThen(w, b)

GitInv ==
  Key = "git" /\ meddled = 0 =>
    /\ world \in GitWorld
    /\ step # "fresh" => meta \in GitMeta
    /\ GitFits(Action, world, meta, step, before)
    /\ last = "recovered" /\ ~GitGaps(Action, world, meta, before) => GitIs(world, before)

\* The worlds that differ from w in what git branch, git tag or git push set.
GitSet(v, w, branch, tag, remote, tracking) ==
  /\ v \in GitWorld /\ v.main = w.main /\ v.on = w.on /\ v.dirty = w.dirty /\ v.given = w.given
  /\ v.branch = branch /\ v.tag = tag /\ v.remote = remote /\ v.tracking = tracking

\* Setting one ref, or the remote and its tracking ref.
LEMMA GitSetIs ==
  ASSUME NEW w \in GitWorld, NEW c \in Nat
  PROVE  /\ GitSet([w EXCEPT !.branch = c], w, c, w.tag, w.remote, w.tracking)
         /\ GitSet([w EXCEPT !.tag = c], w, w.branch, c, w.remote, w.tracking)
         /\ GitSet([w EXCEPT !.tracking = c], w, w.branch, w.tag, w.remote, c)
         /\ GitSet([w EXCEPT !.remote = c, !.tracking = c], w, w.branch, w.tag, c, c)
<1>1. GitSet([w EXCEPT !.branch = c], w, c, w.tag, w.remote, w.tracking)
  BY DEF GitSet, GitWorld
<1>2. GitSet([w EXCEPT !.tag = c], w, w.branch, c, w.remote, w.tracking)
  BY DEF GitSet, GitWorld
<1>3. GitSet([w EXCEPT !.tracking = c], w, w.branch, w.tag, w.remote, c)
  BY DEF GitSet, GitWorld
<1>4. GitSet([w EXCEPT !.remote = c, !.tracking = c], w, w.branch, w.tag, c, c)
  BY DEF GitSet, GitWorld
<1> QED
  BY <1>1, <1>2, <1>3, <1>4

\* A reset moves what is checked out.
LEMMA ResetHardIs ==
  ASSUME NEW w \in GitWorld, NEW c \in Nat
  PROVE  LET v == ResetHard(w, c)
         IN  /\ v \in GitWorld /\ v.on = w.on /\ v.tag = w.tag /\ v.remote = w.remote
             /\ v.given = w.given
             /\ w.on = "branch" => v.branch = c /\ v.main = w.main
             /\ w.on # "branch" => v.main = c /\ v.branch = w.branch
<1>1. LET v == [w EXCEPT !.branch = c, !.dirty = FALSE]
      IN  /\ v \in GitWorld /\ v.on = w.on /\ v.tag = w.tag /\ v.remote = w.remote
          /\ v.given = w.given /\ v.branch = c /\ v.main = w.main
  BY DEF GitWorld
<1>2. LET v == [w EXCEPT !.main = c, !.dirty = FALSE]
      IN  /\ v \in GitWorld /\ v.on = w.on /\ v.tag = w.tag /\ v.remote = w.remote
          /\ v.given = w.given /\ v.main = c /\ v.branch = w.branch
  BY DEF GitWorld
<1> QED
  BY <1>1, <1>2 DEF ResetHard

\* HEAD is a commit.
LEMMA HeadOfIs ==
  ASSUME NEW w \in GitWorld
  PROVE  HeadOf(w) \in Nat /\ w.branch \in Nat /\ w.main \in Nat /\ w.tag \in Nat
         /\ w.remote \in Nat /\ w.tracking \in Nat /\ w.given \in Nat /\ w.asked \in Nat
         /\ w.dirty \in BOOLEAN
BY DEF HeadOf, GitWorld

\* What prepare notes, b being what is visible.
LEMMA GitPrepared ==
  ASSUME NEW a \in GitActions, NEW w \in GitWorld, NEW r \in GitPrepare(a, w), NEW p \in BOOLEAN
  PROVE  /\ r.world = w
         /\ r.answer = "ok" =>
              /\ [r.meta EXCEPT !.planned = p] \in GitMeta
              /\ \A b : GitIs(w, b) => GitDone(a, w, [r.meta EXCEPT !.planned = p], b)
<1>1. /\ HeadOf(w) \in Nat /\ w.branch \in Nat /\ w.main \in Nat /\ w.tag \in Nat
      /\ w.tracking \in Nat /\ w.asked \in Nat
  BY HeadOfIs
<1> DEFINE Fits(m) ==
             /\ [m EXCEPT !.planned = p] \in GitMeta
             /\ \A b : GitIs(w, b) => GitDone(a, w, [m EXCEPT !.planned = p], b)
           N == GitNoMeta
<1>2. N \in GitMeta /\ ~N.named
  BY DEF GitNoMeta, GitMeta
<1> HIDE DEF N
<1>3. CASE r = Err(w)
  BY <1>3 DEF Err
<1>4. ASSUME NEW m \in GitMeta, r = Ok(w, m),
             /\ a \in {"GitCommit", "GitCommitBranch"} => ~m.named
             /\ a = "GitBranchCreate" => w.branch = 0
             /\ a = "GitTagCreate" => w.tag = 0
             /\ a = "GitTagDelete" => m.tag = w.tag
             /\ a = "GitBranchDelete" => m.branch = w.branch
             /\ a = "GitPull" => m.head = HeadOf(w)
             /\ a = "GitFetch" => m.branch = w.branch
      PROVE  r.world = w /\ Fits(r.meta)
  <2> DEFINE q == [m EXCEPT !.planned = p]
  <2>1. /\ q \in GitMeta /\ q.named = m.named /\ q.tag = m.tag /\ q.branch = m.branch
        /\ q.head = m.head
    BY <1>4 DEF GitMeta
  <2> HIDE DEF q
  <2>2. \A b : GitIs(w, b) => GitDone(a, w, q, b)
    BY <1>4, <2>1 DEF GitIs, GitDone, HeadOf
  <2> QED
    BY <1>4, <2>1, <2>2 DEF Ok, q
<1>5. CASE a = "GitBranchCreate" /\ r # Err(w)
  <2> DEFINE c == IF w.asked # 0 THEN w.asked ELSE HeadOf(w)
             m == [N EXCEPT !.base = c, !.named = TRUE]
  <2>1. r = Ok(w, m) /\ w.branch = 0
    BY <1>5 DEF GitPrepare, GitPrepareBranchCreate, N
  <2>2. c \in Nat
    BY <1>1
  <2> HIDE DEF c
  <2>3. m \in GitMeta
    BY <1>2, <2>2 DEF GitMeta
  <2> HIDE DEF m
  <2>4. r.world = w /\ Fits(r.meta)
    BY <1>4, <1>5, <2>1, <2>3
  <2> QED
    BY <2>4
<1>6. CASE a = "GitTagCreate" /\ r # Err(w)
  <2>1. r = Ok(w, N) /\ w.tag = 0
    BY <1>6 DEF GitPrepare, GitPrepareTagCreate, N
  <2>2. r.world = w /\ Fits(r.meta)
    BY <1>2, <1>4, <1>6, <2>1
  <2> QED
    BY <2>2
<1>7. CASE a = "GitTagDelete" /\ r # Err(w)
  <2> DEFINE m == [N EXCEPT !.tag = w.tag]
  <2>1. r = Ok(w, m)
    BY <1>7 DEF GitPrepare, GitPrepareTagDelete, N
  <2>2. m \in GitMeta /\ m.tag = w.tag
    BY <1>1, <1>2 DEF GitMeta
  <2> HIDE DEF m
  <2>3. r.world = w /\ Fits(r.meta)
    BY <1>4, <1>7, <2>1, <2>2
  <2> QED
    BY <2>3
<1>8. CASE a = "GitBranchDelete" /\ r # Err(w)
  <2> DEFINE m == [N EXCEPT !.branch = w.branch]
  <2>1. r = Ok(w, m)
    BY <1>8 DEF GitPrepare, GitPrepareBranchDelete, N
  <2>2. m \in GitMeta /\ m.branch = w.branch
    BY <1>1, <1>2 DEF GitMeta
  <2> HIDE DEF m
  <2>3. r.world = w /\ Fits(r.meta)
    BY <1>4, <1>8, <2>1, <2>2
  <2> QED
    BY <2>3
<1>9. CASE a = "GitPush" /\ r # Err(w)
  <2> DEFINE m == [N EXCEPT !.branch = w.branch, !.remote = w.tracking, !.named = TRUE]
  <2>1. r = Ok(w, m)
    BY <1>9 DEF GitPrepare, GitPreparePush, N
  <2>2. m \in GitMeta
    BY <1>1, <1>2 DEF GitMeta
  <2> HIDE DEF m
  <2>3. r.world = w /\ Fits(r.meta)
    BY <1>4, <1>9, <2>1, <2>2
  <2> QED
    BY <2>3
<1>10. CASE a = "GitPull" /\ r # Err(w)
  <2> DEFINE c == HeadOf(w)
             m == [N EXCEPT !.head = c, !.remote = w.tracking, !.named = TRUE]
  <2>1. r = Ok(w, m)
    BY <1>10 DEF GitPrepare, GitPreparePull, N
  <2>2. c \in Nat
    BY <1>1
  <2> HIDE DEF c
  <2>3. m \in GitMeta /\ m.head = c
    BY <1>1, <1>2, <2>2 DEF GitMeta
  <2> HIDE DEF m
  <2>4. r.world = w /\ Fits(r.meta)
    BY <1>4, <1>10, <2>1, <2>3 DEF c
  <2> QED
    BY <2>4
<1>11. CASE a = "GitFetch" /\ r # Err(w)
  <2> DEFINE m == [N EXCEPT !.branch = w.branch, !.named = TRUE]
  <2>1. r = Ok(w, m)
    BY <1>11 DEF GitPrepare, GitPrepareFetch, N
  <2>2. m \in GitMeta /\ m.branch = w.branch
    BY <1>1, <1>2 DEF GitMeta
  <2> HIDE DEF m
  <2>3. r.world = w /\ Fits(r.meta)
    BY <1>4, <1>11, <2>1, <2>2
  <2> QED
    BY <2>3
<1>12. CASE a \in {"GitCommit", "GitCommitBranch"} /\ r # Err(w)
  <2>1. r = Ok(w, N)
    BY <1>12 DEF GitPrepare, N
  <2>2. r.world = w /\ Fits(r.meta)
    BY <1>2, <1>4, <1>12, <2>1
  <2> QED
    BY <2>2
<1> QED
  BY <1>3, <1>5, <1>6, <1>7, <1>8, <1>9, <1>10, <1>11, <1>12 DEF GitActions

\* What execute leaves behind, whether it reports so or not.
GitExecutedAs(a, w, m, r) ==
  LET q == IF r.answer = "ok" THEN r.meta ELSE m
  IN  /\ r.world \in GitWorld /\ q \in GitMeta
      /\ a = "GitCommit" => r.world = w
      /\ \A b : GitIs(w, b) /\ GitDone(a, w, m, b) => GitDone(a, r.world, q, b)

\* Execution, one action at a time.
LEMMA GitExecuted ==
  ASSUME NEW a \in GitActions, NEW w \in GitWorld, NEW m \in GitMeta, NEW r \in GitExecute(a, w, m)
  PROVE  GitExecutedAs(a, w, m, r)
<1>1. /\ HeadOf(w) \in Nat /\ w.branch \in Nat /\ w.main \in Nat /\ w.tag \in Nat
      /\ w.remote \in Nat /\ w.tracking \in Nat /\ 0 \in Nat
  BY HeadOfIs
<1>2. ASSUME NEW v \in GitWorld, r.world = v, r.answer = "ok" => r.meta = m,
             a = "GitCommit" => v = w,
             \A b : GitIs(w, b) /\ GitDone(a, w, m, b) => GitDone(a, v, m, b)
      PROVE  GitExecutedAs(a, w, m, r)
  BY <1>2 DEF GitExecutedAs
<1>3. CASE r = Err(w) \/ r = Ok(w, m)
  <2>1. r.world = w /\ (r.answer = "ok" => r.meta = m)
    BY <1>3 DEF Err, Ok
  <2> QED
    BY <1>2, <2>1
<1>4. CASE a \in {"GitBranchCreate", "GitCommitBranch"}
  <2> DEFINE c == IF m.base # 0 THEN m.base ELSE HeadOf(w)
             v == [w EXCEPT !.branch = c]
             q == [m EXCEPT !.base = c, !.named = TRUE]
  <2>1. r = Err(w) \/ (w.branch = 0 /\ (r = Ok(v, q) \/ r = Err(v)))
    BY <1>4 DEF GitExecute, GitExecuteBranchCreate
  <2>2. c \in Nat
    BY <1>1 DEF GitMeta
  <2> HIDE DEF c
  <2>3. GitSet(v, w, c, w.tag, w.remote, w.tracking)
    BY <2>2, GitSetIs
  <2>4. q \in GitMeta /\ q.named
    BY <2>2 DEF GitMeta
  <2> HIDE DEF v, q
  <2>5. CASE w.branch = 0 /\ r = Ok(v, q)
    <3>1. r.world = v /\ r.answer = "ok" /\ r.meta = q
      BY <2>5 DEF Ok
    <3>2. \A b : GitIs(w, b) /\ GitDone(a, w, m, b) => GitDone(a, v, q, b)
      BY <1>4, <2>3, <2>4, <2>5 DEF GitIs, GitDone, GitSet
    <3> QED
      BY <1>4, <2>3, <2>4, <3>1, <3>2 DEF GitExecutedAs, GitSet
  <2>6. CASE w.branch = 0 /\ r = Err(v)
    <3>1. r.world = v /\ r.answer # "ok"
      BY <2>6 DEF Err
    <3>2. \A b : GitIs(w, b) /\ GitDone(a, w, m, b) => GitDone(a, v, m, b)
      BY <1>4, <2>3, <2>6 DEF GitIs, GitDone, GitSet
    <3> QED
      BY <1>2, <1>4, <2>3, <3>1, <3>2 DEF GitSet
  <2> QED
    BY <1>3, <2>1, <2>5, <2>6
<1>5. CASE a = "GitTagCreate"
  <2> DEFINE c == HeadOf(w)
             v == [w EXCEPT !.tag = c]
  <2>1. r = Err(w) \/ r = Ok(v, m) \/ r = Err(v)
    BY <1>5 DEF GitExecute, GitExecuteTagCreate
  <2>2. c \in Nat
    BY <1>1
  <2> HIDE DEF c
  <2>3. GitSet(v, w, w.branch, c, w.remote, w.tracking)
    BY <2>2, GitSetIs
  <2> HIDE DEF v
  <2>4. CASE r = Ok(v, m) \/ r = Err(v)
    <3>1. r.world = v /\ (r.answer = "ok" => r.meta = m)
      BY <2>4 DEF Ok, Err
    <3>2. \A b : GitIs(w, b) /\ GitDone(a, w, m, b) => GitDone(a, v, m, b)
      BY <1>5, <2>3 DEF GitIs, GitDone, GitSet
    <3> QED
      BY <1>2, <1>5, <2>3, <3>1, <3>2 DEF GitSet
  <2> QED
    BY <1>3, <2>1, <2>4
<1>6. CASE a = "GitTagDelete"
  <2> DEFINE v == [w EXCEPT !.tag = 0]
  <2>1. r = Err(w) \/ r = Ok(v, m) \/ r = Err(v)
    BY <1>6 DEF GitExecute, GitExecuteTagDelete
  <2>2. GitSet(v, w, w.branch, 0, w.remote, w.tracking)
    BY <1>1, GitSetIs
  <2> HIDE DEF v
  <2>3. CASE r = Ok(v, m) \/ r = Err(v)
    <3>1. r.world = v /\ (r.answer = "ok" => r.meta = m)
      BY <2>3 DEF Ok, Err
    <3>2. \A b : GitIs(w, b) /\ GitDone(a, w, m, b) => GitDone(a, v, m, b)
      BY <1>6, <2>2 DEF GitIs, GitDone, GitSet
    <3> QED
      BY <1>2, <1>6, <2>2, <3>1, <3>2 DEF GitSet
  <2> QED
    BY <1>3, <2>1, <2>3
<1>7. CASE a = "GitBranchDelete"
  <2> DEFINE v == [w EXCEPT !.branch = 0]
  <2>1. r = Err(w) \/ r = Ok(v, m) \/ r = Err(v)
    BY <1>7 DEF GitExecute, GitExecuteBranchDelete
  <2>2. GitSet(v, w, 0, w.tag, w.remote, w.tracking)
    BY <1>1, GitSetIs
  <2> HIDE DEF v
  <2>3. CASE r = Ok(v, m) \/ r = Err(v)
    <3>1. r.world = v /\ (r.answer = "ok" => r.meta = m)
      BY <2>3 DEF Ok, Err
    <3>2. \A b : GitIs(w, b) /\ GitDone(a, w, m, b) => GitDone(a, v, m, b)
      BY <1>7, <2>2 DEF GitIs, GitDone, GitSet
    <3> QED
      BY <1>2, <1>7, <2>2, <3>1, <3>2 DEF GitSet
  <2> QED
    BY <1>3, <2>1, <2>3
<1>8. CASE a = "GitPush"
  <2> DEFINE c == w.branch
             v == [w EXCEPT !.remote = c, !.tracking = c]
             q == [m EXCEPT !.pushed = c]
  <2>1. r = Err(w) \/ r = Ok(v, q) \/ r = Err(v)
    BY <1>8 DEF GitExecute, GitExecutePush
  <2>2. c \in Nat
    BY <1>1
  <2>3. GitSet(v, w, w.branch, w.tag, c, c)
    <3> HIDE DEF c
    <3> QED
      BY <2>2, GitSetIs
  <2>4. q \in GitMeta
    BY <2>2 DEF GitMeta
  <2> HIDE DEF v, q
  <2>5. CASE r = Ok(v, q) \/ r = Err(v)
    <3>1. /\ r.world = v
          /\ (r.answer = "ok" /\ r.meta = q) \/ r.answer # "ok"
      BY <2>5 DEF Ok, Err
    <3>2. \A b, n : GitIs(w, b) => GitDone(a, v, n, b)
      BY <1>8, <2>3 DEF GitIs, GitDone, GitSet
    <3> QED
      BY <1>8, <2>3, <2>4, <3>1, <3>2 DEF GitSet, GitExecutedAs
  <2> QED
    BY <1>3, <2>1, <2>5
<1>9. CASE a = "GitPull"
  <2> DEFINE v == IF w.remote > HeadOf(w) THEN ResetHard(w, w.remote) ELSE w
             u == [w EXCEPT !.dirty = TRUE]
  <2>1. r = Err(w) \/ r = Ok(v, m) \/ r = Err(v) \/ r = Err(u)
    BY <1>9 DEF GitExecute, GitExecutePull
  <2>2. v = w \/ v = ResetHard(w, w.remote)
    OBVIOUS
  <2> HIDE DEF v
  <2>3. /\ v \in GitWorld /\ v.on = w.on /\ v.tag = w.tag /\ v.remote = w.remote
        /\ w.on = "branch" => v.main = w.main
        /\ w.on # "branch" => v.branch = w.branch
    <3> DEFINE z == ResetHard(w, w.remote)
    <3>1. /\ z \in GitWorld /\ z.on = w.on /\ z.tag = w.tag /\ z.remote = w.remote
          /\ w.on = "branch" => z.main = w.main
          /\ w.on # "branch" => z.branch = w.branch
      BY <1>1, ResetHardIs
    <3>2. v = w \/ v = z
      BY <2>2
    <3> HIDE DEF z
    <3> QED
      BY <3>1, <3>2
  <2>4. /\ u \in GitWorld /\ u.on = w.on /\ u.tag = w.tag /\ u.remote = w.remote
        /\ u.main = w.main /\ u.branch = w.branch
    BY DEF GitWorld
  <2> HIDE DEF u
  <2>5. CASE r = Ok(v, m) \/ r = Err(v)
    <3>1. r.world = v /\ (r.answer = "ok" => r.meta = m)
      BY <2>5 DEF Ok, Err
    <3>2. \A b : GitIs(w, b) /\ GitDone(a, w, m, b) => GitDone(a, v, m, b)
      BY <1>9, <2>3 DEF GitIs, GitDone
    <3> QED
      BY <1>2, <1>9, <2>3, <3>1, <3>2
  <2>6. CASE r = Err(u)
    <3>1. r.world = u /\ r.answer # "ok"
      BY <2>6 DEF Err
    <3>2. \A b : GitIs(w, b) /\ GitDone(a, w, m, b) => GitDone(a, u, m, b)
      BY <1>9, <2>4 DEF GitIs, GitDone
    <3> QED
      BY <1>2, <1>9, <2>4, <3>1, <3>2
  <2> QED
    BY <1>3, <2>1, <2>5, <2>6
<1>10. CASE a = "GitFetch"
  <2> DEFINE v == [w EXCEPT !.tracking = w.remote]
  <2>1. r = Err(w) \/ r = Ok(v, m)
    BY <1>10 DEF GitExecute, GitExecuteFetch
  <2>2. GitSet(v, w, w.branch, w.tag, w.remote, w.remote)
    BY <1>1, GitSetIs
  <2> HIDE DEF v
  <2>3. CASE r = Ok(v, m)
    <3>1. r.world = v /\ (r.answer = "ok" => r.meta = m)
      BY <2>3 DEF Ok
    <3>2. \A b : GitIs(w, b) /\ GitDone(a, w, m, b) => GitDone(a, v, m, b)
      BY <1>10, <2>2 DEF GitIs, GitDone, GitSet
    <3> QED
      BY <1>2, <1>10, <2>2, <3>1, <3>2 DEF GitSet
  <2> QED
    BY <1>3, <2>1, <2>3
<1>11. CASE a = "GitCommit"
  <2>1. r = Err(w) \/ r = Ok(w, m)
    BY <1>11 DEF GitExecute
  <2> QED
    BY <1>3, <2>1
<1> QED
  BY <1>4, <1>5, <1>6, <1>7, <1>8, <1>9, <1>10, <1>11 DEF GitActions

\* What an attempt to undo leaves behind.
GitUndoneAs(a, w, m, r) ==
  /\ r.world \in GitWorld
  /\ a = "GitCommit" => r.world.on = w.on /\ r.world.given = w.given
  /\ \A b : GitDone(a, w, m, b) =>
       /\ GitDone(a, r.world, m, b)
       /\ r.answer = "recovered" /\ ~GitGaps(a, w, m, b) => GitIs(r.world, b)

\* A reset to a commit, of a clean worktree.
LEMMA GitResetUndoes ==
  ASSUME NEW a \in {"GitPull", "GitCommit", "GitCommitBranch"}, NEW w \in GitWorld,
         NEW m \in GitMeta, NEW c \in Nat, NEW r \in GitRollbackReset(w, w, c),
         a = "GitPull" => c = m.head,
         a = "GitCommit" => c = w.given,
         a = "GitCommitBranch" => ~m.named
  PROVE  GitUndoneAs(a, w, m, r)
<1> DEFINE v == ResetHard(w, c)
<1>1. /\ v \in GitWorld /\ v.on = w.on /\ v.tag = w.tag /\ v.remote = w.remote
      /\ v.given = w.given
      /\ w.on = "branch" => v.branch = c /\ v.main = w.main
      /\ w.on # "branch" => v.main = c /\ v.branch = w.branch
  BY ResetHardIs
<1>2. \/ r = Err(w)
      \/ c # 0 /\ ~w.dirty /\ HeadOf(w) = c /\ r = Recovered(w)
      \/ c # 0 /\ ~w.dirty /\ HeadOf(w) # c /\ (r = Recovered(v) \/ r = Err(v))
  BY DEF GitRollbackReset
<1> HIDE DEF v
<1>3. CASE r = Err(w)
  <2>1. r.world = w /\ r.answer # "recovered"
    BY <1>3 DEF Err
  <2> QED
    BY <2>1 DEF GitUndoneAs
<1>4. CASE c # 0 /\ ~w.dirty /\ HeadOf(w) = c /\ r = Recovered(w)
  <2>1. r.world = w
    BY <1>4 DEF Recovered
  <2>2. \A b : GitDone(a, w, m, b) /\ ~GitGaps(a, w, m, b) => GitIs(w, b)
    BY <1>4 DEF GitDone, GitIs, GitGaps, HeadOf
  <2> QED
    BY <1>4, <2>1, <2>2 DEF GitUndoneAs
<1>5. CASE c # 0 /\ ~w.dirty /\ HeadOf(w) # c /\ (r = Recovered(v) \/ r = Err(v))
  <2>1. r.world = v
    BY <1>5 DEF Recovered, Err
  <2>2. \A b : a = "GitCommit" /\ GitDone(a, w, m, b) => w.given # HeadThen(w, b)
    BY <1>5 DEF GitDone, GitIs, HeadOf, HeadThen
  <2>3. \A b : GitDone(a, w, m, b) => GitDone(a, v, m, b)
    BY <1>1, <2>2 DEF GitDone, HeadThen
  <2>4. \A b : GitDone(a, w, m, b) /\ ~GitGaps(a, w, m, b) => GitIs(v, b)
    BY <1>1, <2>2 DEF GitDone, GitIs, GitGaps
  <2> QED
    BY <1>1, <1>5, <2>1, <2>2, <2>3, <2>4 DEF GitUndoneAs
<1> QED
  BY <1>2, <1>3, <1>4, <1>5

\* Undoing, one action at a time.
LEMMA GitUndone ==
  ASSUME NEW a \in GitActions, NEW w \in GitWorld, NEW m \in GitMeta, NEW r \in GitRollback(a, w, w, m)
  PROVE  GitUndoneAs(a, w, m, r)
<1>1. /\ HeadOf(w) \in Nat /\ w.branch \in Nat /\ w.main \in Nat /\ w.tag \in Nat /\ 0 \in Nat
      /\ w.given \in Nat
  BY HeadOfIs
<1>2. m.head \in Nat /\ m.branch \in Nat /\ m.tag \in Nat
  BY DEF GitMeta
<1>3. CASE r \in {Err(w), Incomplete(w)}
  <2>1. r.world = w /\ r.answer # "recovered"
    BY <1>3 DEF Err, Incomplete
  <2> QED
    BY <1>1, <2>1 DEF GitUndoneAs
<1>4. CASE a = "GitBranchCreate" \/ (a = "GitCommitBranch" /\ m.named)
  <2> DEFINE v == [w EXCEPT !.branch = 0]
  <2>1. r \in GitRollbackBranchCreate(w, w)
    BY <1>4 DEF GitRollback
  <2>2. \/ r = Err(w)
        \/ w.branch = 0 /\ r = Recovered(w)
        \/ r = Recovered(v)
    BY <2>1 DEF GitRollbackBranchCreate
  <2>3. GitSet(v, w, 0, w.tag, w.remote, w.tracking)
    BY <1>1, GitSetIs
  <2> HIDE DEF v
  <2>4. CASE w.branch = 0 /\ r = Recovered(w)
    <3>1. r.world = w
      BY <2>4 DEF Recovered
    <3>2. \A b : GitDone(a, w, m, b) => GitIs(w, b)
      BY <1>4, <2>4 DEF GitDone, GitIs
    <3> QED
      BY <1>1, <1>4, <3>1, <3>2 DEF GitUndoneAs
  <2>5. CASE r = Recovered(v)
    <3>1. r.world = v
      BY <2>5 DEF Recovered
    <3>2. \A b : GitDone(a, w, m, b) => GitIs(v, b) /\ GitDone(a, v, m, b)
      BY <1>4, <2>3 DEF GitDone, GitIs, GitSet
    <3> QED
      BY <1>4, <2>3, <3>1, <3>2 DEF GitUndoneAs, GitSet
  <2> QED
    BY <1>3, <2>2, <2>4, <2>5
<1>5. CASE a = "GitPush"
  <2> DEFINE v == [w EXCEPT !.remote = 0, !.tracking = 0]
  <2>1. r = Incomplete(w) \/ r = Recovered(v) \/ r = Incomplete(v)
    BY <1>5 DEF GitRollback, GitRollbackPush
  <2>2. GitSet(v, w, w.branch, w.tag, 0, 0)
    BY <1>1, GitSetIs
  <2> HIDE DEF v
  <2>3. CASE r = Recovered(v) \/ r = Incomplete(v)
    <3>1. r.world = v
      BY <2>3 DEF Recovered, Incomplete
    <3>2. \A b : GitDone(a, w, m, b) => GitDone(a, v, m, b) /\ (~GitGaps(a, w, m, b) => GitIs(v, b))
      BY <1>5, <2>2 DEF GitDone, GitIs, GitSet, GitGaps
    <3> QED
      BY <1>5, <2>2, <3>1, <3>2 DEF GitUndoneAs, GitSet
  <2> QED
    BY <1>3, <2>1, <2>3
<1>6. CASE a = "GitPull"
  <2>1. r \in GitRollbackReset(w, w, m.head)
    BY <1>6 DEF GitRollback
  <2> QED
    BY <1>2, <1>6, <2>1, GitResetUndoes
<1>7. CASE a = "GitCommit" \/ (a = "GitCommitBranch" /\ ~m.named)
  <2>1. r \in GitRollbackReset(w, w, w.given)
    BY <1>7 DEF GitRollback
  <2> QED
    BY <1>1, <1>7, <2>1, GitResetUndoes
<1>8. CASE a = "GitFetch"
  <2> DEFINE v == ResetHard(w, m.branch)
  <2>1. \/ r = Recovered(w) \/ r = Incomplete(w)
        \/ m.branch # w.branch /\ (r = Recovered(v) \/ r = Incomplete(v))
    BY <1>8 DEF GitRollback, GitRollbackFetch
  <2>2. v \in GitWorld
    BY <1>2, ResetHardIs
  <2> HIDE DEF v
  <2>3. CASE r = Recovered(w)
    <3>1. r.world = w
      BY <2>3 DEF Recovered
    <3>2. \A b : GitDone(a, w, m, b) => GitIs(w, b)
      BY <1>8 DEF GitDone
    <3> QED
      BY <1>8, <3>1, <3>2 DEF GitUndoneAs
  <2>4. CASE m.branch # w.branch /\ (r = Recovered(v) \/ r = Incomplete(v))
    <3>1. r.world = v
      BY <2>4 DEF Recovered, Incomplete
    <3>2. \A b : ~GitDone(a, w, m, b)
      BY <1>8, <2>4 DEF GitDone, GitIs
    <3> QED
      BY <1>8, <2>2, <3>1, <3>2 DEF GitUndoneAs
  <2> QED
    BY <1>3, <2>1, <2>3, <2>4
<1>9. CASE a = "GitTagCreate"
  <2> DEFINE v == [w EXCEPT !.tag = 0]
  <2>1. r = Err(w) \/ r = Recovered(v)
    BY <1>9 DEF GitRollback, GitRollbackTagCreate
  <2>2. GitSet(v, w, w.branch, 0, w.remote, w.tracking)
    BY <1>1, GitSetIs
  <2> HIDE DEF v
  <2>3. CASE r = Recovered(v)
    <3>1. r.world = v
      BY <2>3 DEF Recovered
    <3>2. \A b : GitDone(a, w, m, b) => GitDone(a, v, m, b) /\ GitIs(v, b)
      BY <1>9, <2>2 DEF GitDone, GitIs, GitSet
    <3> QED
      BY <1>9, <2>2, <3>1, <3>2 DEF GitUndoneAs, GitSet
  <2> QED
    BY <1>3, <2>1, <2>3
<1>10. CASE a = "GitTagDelete"
  <2> DEFINE c == m.tag
             v == [w EXCEPT !.tag = c]
  <2>1. r = Err(w) \/ (w.tag # 0 /\ r = Recovered(w)) \/ r = Recovered(v) \/ r = Err(v)
    BY <1>10 DEF GitRollback, GitRollbackTagDelete
  <2>2. GitSet(v, w, w.branch, m.tag, w.remote, w.tracking)
    BY <1>2, GitSetIs
  <2> HIDE DEF v
  <2>3. CASE w.tag # 0 /\ r = Recovered(w)
    <3>1. r.world = w
      BY <2>3 DEF Recovered
    <3>2. \A b : GitDone(a, w, m, b) => GitIs(w, b)
      BY <1>10, <2>3 DEF GitDone, GitIs
    <3> QED
      BY <1>10, <3>1, <3>2 DEF GitUndoneAs
  <2>4. CASE r = Recovered(v) \/ r = Err(v)
    <3>1. r.world = v
      BY <2>4 DEF Recovered, Err
    <3>2. \A b : GitDone(a, w, m, b) => GitDone(a, v, m, b) /\ GitIs(v, b)
      BY <1>10, <2>2 DEF GitDone, GitIs, GitSet
    <3> QED
      BY <1>10, <2>2, <3>1, <3>2 DEF GitUndoneAs, GitSet
  <2> QED
    BY <1>3, <2>1, <2>3, <2>4
<1>11. CASE a = "GitBranchDelete"
  <2> DEFINE c == m.branch
             v == [w EXCEPT !.branch = c]
  <2>1. r = Err(w) \/ (w.branch # 0 /\ r = Recovered(w)) \/ r = Recovered(v) \/ r = Err(v)
    BY <1>11 DEF GitRollback, GitRollbackBranchDelete
  <2>2. GitSet(v, w, m.branch, w.tag, w.remote, w.tracking)
    BY <1>2, GitSetIs
  <2> HIDE DEF v
  <2>3. CASE w.branch # 0 /\ r = Recovered(w)
    <3>1. r.world = w
      BY <2>3 DEF Recovered
    <3>2. \A b : GitDone(a, w, m, b) => GitIs(w, b)
      BY <1>11, <2>3 DEF GitDone, GitIs
    <3> QED
      BY <1>11, <3>1, <3>2 DEF GitUndoneAs
  <2>4. CASE r = Recovered(v) \/ r = Err(v)
    <3>1. r.world = v
      BY <2>4 DEF Recovered, Err
    <3>2. \A b : GitDone(a, w, m, b) => GitDone(a, v, m, b) /\ GitIs(v, b)
      BY <1>11, <2>2 DEF GitDone, GitIs, GitSet
    <3> QED
      BY <1>11, <2>2, <3>1, <3>2 DEF GitUndoneAs, GitSet
  <2> QED
    BY <1>3, <2>1, <2>3, <2>4
<1>12. CASE a = "GitCommitBranch"
  BY <1>4, <1>7, <1>12
<1> QED
  BY <1>4, <1>5, <1>6, <1>7, <1>8, <1>9, <1>10, <1>11, <1>12 DEF GitActions

\* The repository as the contract finds it.
LEMMA GitInit == Init => GitInv
<1> SUFFICES ASSUME Init, Key = "git" PROVE GitInv
  BY DEF GitInv
<1>1. /\ world \in Worlds(Key, Action) /\ before = Visible(Key, world)
      /\ last = "none" /\ step = "fresh"
  BY DEF Init, Key, Action
<1>2. /\ world \in GitWorlds(Action)
      /\ before = <<world.main, world.branch, world.tag, world.remote>>
  BY <1>1 DEF Worlds, Visible, GitVisible
<1>3. world \in GitWorld
  BY <1>2 DEF GitWorlds, GitWorld
<1> QED
  BY <1>1, <1>2, <1>3 DEF GitInv, GitFits, GitIs

\* Every step that the git adapter takes part in.
LEMMA GitStep ==
  ASSUME ServiceInv, GitInv, [Next]_vars
  PROVE  GitInv'
<1>1. Key' = Key /\ Action' = Action /\ before' = before /\ (meddled' = 0 => meddled = 0)
  BY ServiceStep
<1> SUFFICES ASSUME Key = "git", meddled' = 0, meddled = 0 PROVE GitInv'
  BY <1>1, ServiceStep DEF GitInv
<1>2. /\ world \in GitWorld /\ (step # "fresh" => meta \in GitMeta) /\ Action \in GitActions
      /\ GitFits(Action, world, meta, step, before)
      /\ last = "recovered" /\ ~GitGaps(Action, world, meta, before) => GitIs(world, before)
  BY DEF GitInv, ServiceInv, ContractInv
<1>3. CASE UNCHANGED vars
  BY <1>1, <1>2, <1>3 DEF GitInv, vars
<1>4. CASE Prepare
  <2>1. PICK p \in BOOLEAN, r \in GitPrepare(Action, world) :
          /\ step = "fresh" /\ world' = r.world /\ last' = last /\ meddled' = meddled
          /\ \/ step' = step /\ meta' = meta
             \/ r.answer = "ok" /\ step' = "prepared" /\ meta' = [r.meta EXCEPT !.planned = p]
    BY <1>4 DEF Prepare, PrepareResults
  <2>2. last # "recovered"
    BY <2>1 DEF ServiceInv, ProgressInv
  <2> DEFINE q == [r.meta EXCEPT !.planned = p]
  <2>3. /\ r.world = world
        /\ r.answer = "ok" => q \in GitMeta /\ \A b : GitIs(world, b) => GitDone(Action, world, q, b)
    BY <1>2, GitPrepared
  <2>4. \/ step' = step /\ meta' = meta
        \/ r.answer = "ok" /\ step' = "prepared" /\ meta' = q
    BY <2>1
  <2> HIDE DEF q
  <2>5. GitFits(Action, world, meta', step', before)
    BY <1>2, <2>1, <2>3, <2>4 DEF GitFits
  <2>6. step' # "fresh" => meta' \in GitMeta
    BY <2>1, <2>3, <2>4
  <2> QED
    BY <1>1, <1>2, <2>1, <2>2, <2>3, <2>5, <2>6 DEF GitInv
<1>5. CASE LatePrepare
  <2>1. PICK r \in GitPrepare(Action, world) : world' = r.world /\ UNCHANGED <<meta, step, last, meddled>>
    BY <1>5 DEF LatePrepare, PrepareResults
  <2>2. r.world = world
    BY <1>2, GitPrepared
  <2> QED
    BY <1>1, <1>2, <2>1, <2>2 DEF GitInv
<1>6. CASE Execute
  <2>1. PICK r \in GitExecute(Action, world, meta) :
          /\ step = "prepared" /\ world' = r.world /\ last' = last /\ meddled' = meddled
          /\ IF r.answer = "ok" THEN step' = "executed" /\ meta' = r.meta
                                ELSE step' = "ambiguous" /\ meta' = meta
    BY <1>6, CallsAlone DEF ExecuteResults
  <2>2. last # "recovered"
    BY <2>1 DEF ServiceInv, ProgressInv
  <2>3. GitExecutedAs(Action, world, meta, r)
    BY <1>2, <2>1, GitExecuted
  <2>4. meta' = IF r.answer = "ok" THEN r.meta ELSE meta
    BY <2>1
  <2>5. /\ r.world \in GitWorld /\ meta' \in GitMeta /\ (Action = "GitCommit" => r.world = world)
        /\ GitIs(world, before) /\ GitDone(Action, world, meta, before) =>
             GitDone(Action, r.world, meta', before)
    BY <2>3, <2>4 DEF GitExecutedAs
  <2>6. GitFits(Action, r.world, meta', step', before)
    BY <1>2, <2>1, <2>5 DEF GitFits
  <2> QED
    BY <1>1, <2>1, <2>2, <2>5, <2>6 DEF GitInv
<1>7. CASE Verify
  <2>1. PICK r \in GitVerify(Action, world, meta) :
          /\ step = "executed" /\ step' \in {"executed", "verified"}
          /\ world' = r.world /\ UNCHANGED <<meta, last, meddled>>
    BY <1>7 DEF Verify, VerifyResults
  <2>2. r.world = world
    BY DEF GitVerify, Verified, Unverified
  <2>3. GitFits(Action, world, meta, step', before)
    BY <1>2, <2>1 DEF GitFits
  <2> QED
    BY <1>1, <1>2, <2>1, <2>2, <2>3 DEF GitInv
<1>8. CASE Compensate
  <2>1. PICK r \in GitRollback(Action, world, world, meta) :
          /\ step \in {"executed", "ambiguous"} /\ last' = r.answer
          /\ world' = r.world /\ UNCHANGED <<meta, step, meddled>>
    BY <1>8, CallsAlone DEF RollbackResults
  <2>2. GitUndoneAs(Action, world, meta, r)
    BY <1>2, <2>1, GitUndone
  <2>3. /\ r.world \in GitWorld
        /\ Action = "GitCommit" => r.world.on = world.on /\ r.world.given = world.given
    BY <2>2 DEF GitUndoneAs
  <2>4. GitDone(Action, world, meta, before) /\ before = <<before[1], before[2], before[3], before[4]>>
    BY <1>2, <2>1 DEF GitFits
  <2>5. /\ GitDone(Action, r.world, meta, before)
        /\ r.answer = "recovered" /\ ~GitGaps(Action, world, meta, before) => GitIs(r.world, before)
    BY <2>2, <2>4 DEF GitUndoneAs
  <2>6. GitGaps(Action, world, meta, before) => GitGaps(Action, r.world, meta, before)
    BY <2>3 DEF GitGaps, HeadThen
  <2>7. GitFits(Action, r.world, meta, step, before)
    BY <2>1, <2>4, <2>5 DEF GitFits
  <2> QED
    BY <1>1, <1>2, <2>1, <2>3, <2>5, <2>6, <2>7 DEF GitInv
<1>9. CASE Meddle
  BY <1>9 DEF Meddle
<1>10. CASE Forget
  BY <1>10 DEF Forget
<1> QED
  BY <1>3, <1>4, <1>5, <1>6, <1>7, <1>8, <1>9, <1>10 DEF Next

------------------------------------------------------------------------------
(* Recovery *)

\* As long as the snapshots are there, the fs adapter can still undo.
LEMMA FsStillRecoverable ==
  ASSUME NEW a \in {"FileWrite", "FileDelete", "FileChmod", "DirCreate", "DirDelete"},
         NEW w \in FsWorld, NEW m \in FsMeta, NEW s, s # "fresh", NEW b, NEW f, ~f, NEW l,
         FsFits(a, w, m, s, b, f, l)
  PROVE  \E r \in FsRollback(a, w, w, m) : r.answer = "recovered"
<1>1. /\ Revalidated(a, w) /\ FsDone(a, w, m, s, b, f, l)
  BY DEF FsFits, InSandbox, Revalidated, Carries
<1>2. \A v : Recovered(v).answer = "recovered"
  BY DEF Recovered
<1>3. CASE a \in {"FileWrite", "FileDelete"}
  <2>1. FileFits(w, m, b, f, l)
    BY <1>1, <1>3 DEF FsDone
  <2>2. ~m.newFile => w.snapTarget # Absent
    BY <2>1 DEF FileFits
  <2>3. FsRollback(a, w, w, m) = FsRollbackFile(w, m)
    BY <1>1, <1>3 DEF FsRollback
  <2>4. \E v : Recovered(v) \in FsRollbackFile(w, m)
    BY <2>2 DEF FsRollbackFile
  <2> QED
    BY <1>2, <2>3, <2>4
<1>4. CASE a = "FileChmod"
  <2>1. w.target.kind # "absent"
    BY <1>1, <1>4 DEF FsDone, ChmodFits, IsFile
  <2>2. FsRollback(a, w, w, m) = FsRollbackChmod(w, m)
    BY <1>1, <1>4 DEF FsRollback
  <2>3. \E v : Recovered(v) \in FsRollbackChmod(w, m)
    BY <2>1 DEF FsRollbackChmod
  <2> QED
    BY <1>2, <2>2, <2>3
<1>5. CASE a = "DirCreate"
  <2>1. w.target.kind # "full"
    BY <1>1, <1>5, NodesAre DEF FsDone, DirCreateFits
  <2>2. FsRollback(a, w, w, m) = FsRollbackDirCreate(w)
    BY <1>1, <1>5 DEF FsRollback
  <2>3. \E v : Recovered(v) \in FsRollbackDirCreate(w)
    BY <2>1 DEF FsRollbackDirCreate
  <2> QED
    BY <1>2, <2>2, <2>3
<1>6. CASE a = "DirDelete"
  <2>1. ~IsFile(w.target)
    BY <1>1, <1>6, NodesAre DEF FsDone, DirDeleteFits, IsFile
  <2>2. FsRollback(a, w, w, m) = FsRollbackDirDelete(w)
    BY <1>1, <1>6 DEF FsRollback
  <2>3. \E v : Recovered(v) \in FsRollbackDirDelete(w)
    BY <2>1 DEF FsRollbackDirDelete
  <2> QED
    BY <1>2, <2>2, <2>3
<1> QED
  BY <1>3, <1>4, <1>5, <1>6

\* A tag or a deleted branch can always be put back.
LEMMA GitStillRecoverable ==
  ASSUME NEW a \in {"GitTagCreate", "GitTagDelete", "GitBranchDelete"}, NEW w, NEW m
  PROVE  \E r \in GitRollback(a, w, w, m) : r.answer = "recovered"
<1>1. \E v : Recovered(v) \in GitRollback(a, w, w, m)
  BY DEF GitRollback, GitRollbackTagCreate, GitRollbackTagDelete, GitRollbackBranchDelete
<1> QED
  BY <1>1 DEF Recovered

\* So can a draft.
LEMMA MailStillRecoverable ==
  ASSUME NEW a \in MailActions, NEW w, NEW m
  PROVE  \E r \in MailRollback(a, w, m) : r.answer = "recovered"
<1>1. \E v : Recovered(v) \in MailRollback(a, w, m)
  BY DEF MailRollback, MailRollbackCreate, MailRollbackUpdate, MailRollbackDelete
<1> QED
  BY <1>1 DEF Recovered

\* And a version whose id execute was told.
LEMMA S3StillRecoverable ==
  ASSUME NEW a \in {"S3PutObject", "S3DeleteObject"}, NEW w, NEW m, w.live, m.after = 3
  PROVE  \E r \in S3Rollback(a, w, m) : r.answer = "recovered"
<1>1. \E v : Recovered(v) \in S3Rollback(a, w, m)
  BY DEF S3Rollback, VersionToDelete
<1> QED
  BY <1>1 DEF Recovered

AdapterInv == FsInv /\ GitInv /\ SqlInv /\ S3Inv /\ GcsInv /\ MailInv

\* What is reported as recovered is what was there before.
LEMMA RecoveredFollows == ServiceInv /\ AdapterInv => RecoveredIsRestored
<1> SUFFICES ASSUME ServiceInv, AdapterInv, last = "recovered", meddled = 0, ~KnownGap PROVE Restored
  BY DEF RecoveredIsRestored
<1>1. CASE Key = "fs"
  <2>1. ~FsGaps(Action, before, forgotten, late)
    BY <1>1 DEF KnownGap, FsGap, FsGaps
  <2>2. /\ step # "fresh" /\ FsFits(Action, world, meta, step, before, forgotten, late)
        /\ world.target = before[1] /\ world.dest = before[2]
    BY <1>1, <2>1 DEF AdapterInv, FsInv, ServiceInv, ProgressInv
  <2>3. before \in Nodes \X Nodes \X {"there", "missing"} /\ world.parent = before[3]
    BY <2>1, <2>2 DEF FsFits, FsBefore, FsGaps
  <2> QED
    BY <1>1, <2>2, <2>3 DEF Restored, Visible, FsVisible
<1>2. CASE Key = "git"
  <2>1. GitFits(Action, world, meta, step, before)
    BY <1>2 DEF AdapterInv, GitInv
  <2>2. ~GitGaps(Action, world, meta, before)
    BY <1>2 DEF KnownGap, GitGap, GitGaps, HeadThen
  <2>3. GitIs(world, before)
    BY <1>2, <2>2 DEF AdapterInv, GitInv
  <2>4. before = <<before[1], before[2], before[3], before[4]>>
    BY <2>1 DEF GitFits
  <2>5. Visible(Key, world) = <<world.main, world.branch, world.tag, world.remote>>
    BY <1>2 DEF Visible, GitVisible
  <2> QED
    BY <2>3, <2>4, <2>5 DEF Restored, GitIs
<1>3. CASE Key = "sqlite"
  <2>1. ~SqlGaps(world, step, attempts)
    BY <1>3 DEF KnownGap, SqlGap, SqlGaps
  <2>2. SqlIs(world, before) /\ before = <<SqlBase, 0, "old", "old">>
    BY <1>3, <2>1 DEF AdapterInv, SqlInv, SqlFits
  <2>3. Visible(Key, world) = <<world.rows, world.n, world.schema, world.others>>
    BY <1>3 DEF Visible, SqlVisible
  <2> QED
    BY <2>2, <2>3 DEF Restored, SqlIs
<1>4. CASE Key = "http"
  BY <1>4 DEF KnownGap
<1>5. CASE Key = "s3"
  <2>1. Action # "S3CopyObject"
    BY DEF KnownGap
  <2>2. /\ Current(world.key) = before[1] /\ Current(world.dest) = before[2]
        /\ before = <<before[1], before[2]>>
    BY <1>5, <2>1 DEF AdapterInv, S3Inv, S3Fits
  <2>3. Visible(Key, world) = <<Current(world.key), Current(world.dest)>>
    BY <1>5 DEF Visible, S3Visible
  <2> QED
    BY <2>2, <2>3 DEF Restored
<1>6. CASE Key = "gcs"
  BY <1>6 DEF AdapterInv, GcsInv, Restored, Visible, GcsVisible
<1>7. CASE Key = "maildraft"
  <2>1. ~MailGaps(Action, world)
    BY <1>7 DEF KnownGap, MailGap, MailGaps
  <2> QED
    BY <1>7, <2>1 DEF AdapterInv, MailInv, Restored, Visible, MailVisible
<1> QED
  BY <1>1, <1>2, <1>3, <1>4, <1>5, <1>6, <1>7 DEF ServiceInv, ContractInv

\* What is not yet recovered can be.
LEMMA StillRecoverableFollows == ServiceInv /\ AdapterInv => StillRecoverable
<1> SUFFICES ASSUME ServiceInv, AdapterInv, step \in {"executed", "ambiguous"}, meddled = 0, ~forgotten,
                    \/ Action \in {"FileWrite", "FileDelete", "FileChmod", "DirCreate", "DirDelete"}
                    \/ Action \in {"GitTagCreate", "GitTagDelete", "GitBranchDelete"}
                    \/ Key = "maildraft"
                    \/ Action \in {"S3PutObject", "S3DeleteObject"} /\ step = "executed"
                       /\ world.live /\ world.versioned
             PROVE  \E r \in RollbackResults(Key, Action, world, world, meta) : r.answer = "recovered"
  BY DEF StillRecoverable
<1>1. ContractInv
  BY DEF ServiceInv
<1>2. CASE Action \in {"FileWrite", "FileDelete", "FileChmod", "DirCreate", "DirDelete"}
  <2>1. Key = "fs"
    BY <1>1, <1>2 DEF ContractInv, FsActions, GitActions, SqlActions, HttpActions, S3Actions,
                      GcsActions, MailActions
  <2>2. /\ world \in FsWorld /\ meta \in FsMeta /\ step # "fresh"
        /\ FsFits(Action, world, meta, step, before, forgotten, late)
    BY <2>1 DEF AdapterInv, FsInv
  <2>3. \E r \in FsRollback(Action, world, world, meta) : r.answer = "recovered"
    BY <1>2, <2>2, FsStillRecoverable
  <2> QED
    BY <2>1, <2>3 DEF RollbackResults
<1>3. CASE Action \in {"GitTagCreate", "GitTagDelete", "GitBranchDelete"}
  <2>1. Key = "git"
    BY <1>1, <1>3 DEF ContractInv, FsActions, GitActions, SqlActions, HttpActions, S3Actions,
                      GcsActions, MailActions
  <2>2. \E r \in GitRollback(Action, world, world, meta) : r.answer = "recovered"
    BY <1>3, GitStillRecoverable
  <2> QED
    BY <2>1, <2>2 DEF RollbackResults
<1>4. CASE Key = "maildraft"
  <2>1. Action \in MailActions
    BY <1>1, <1>4 DEF ContractInv
  <2>2. \E r \in MailRollback(Action, world, meta) : r.answer = "recovered"
    BY <2>1, MailStillRecoverable
  <2> QED
    BY <1>4, <2>2 DEF RollbackResults
<1>5. CASE Action \in {"S3PutObject", "S3DeleteObject"} /\ step = "executed"
           /\ world.live /\ world.versioned
  <2>1. Key = "s3"
    BY <1>1, <1>5 DEF ContractInv, FsActions, GitActions, SqlActions, HttpActions, S3Actions,
                      GcsActions, MailActions
  <2>2. meta.after = 3
    BY <1>5, <2>1 DEF AdapterInv, S3Inv, S3Fits
  <2>3. \E r \in S3Rollback(Action, world, meta) : r.answer = "recovered"
    BY <1>5, <2>2, S3StillRecoverable
  <2> QED
    BY <2>1, <2>3 DEF RollbackResults
<1> QED
  BY <1>2, <1>3, <1>4, <1>5

\* Recovery can be relied upon: with nobody else at the target, what an adapter
\* reports as recovered looks as it did before prepare, except for the known
\* gaps, and what is not yet recovered can be, after any number of attempts,
\* I/O errors, lost receipts and lost snapshots.
THEOREM RecoveryCanBeReliedUpon == Spec => []RecoveryIsSound
<1>1. Init => ServiceInv /\ AdapterInv
  BY ServiceInit, FsInit, GitInit, SqlInit, S3Init, GcsInit, MailInit DEF AdapterInv
<1>2. ServiceInv /\ AdapterInv /\ [Next]_vars => (ServiceInv /\ AdapterInv)'
  BY ServiceStep, FsStep, GitStep, SqlStep, S3Step, GcsStep, MailStep DEF AdapterInv
<1>3. ServiceInv /\ AdapterInv => RecoveryIsSound
  BY RecoveredFollows, StillRecoverableFollows DEF RecoveryIsSound
<1> QED
  BY <1>1, <1>2, <1>3, PTL DEF Spec
==============================================================================
