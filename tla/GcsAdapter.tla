------------------------------ MODULE GcsAdapter ------------------------------
(***************************************************************************)
(* The GCS adapter, which has no client yet: in live mode every phase is   *)
(* refused, and otherwise the calls are checked for their shape alone.     *)
(***************************************************************************)
EXTENDS Naturals, AdapterTypes

GcsActions == {"GcsPutObject", "GcsDeleteObject", "GcsGetObject"}

GcsWorlds == [object : {"a", "gone"}, live : BOOLEAN, generation : 0..1]

GcsVisible(w) == w.object

\* before is the generation that the target names; execute learns none.
GcsNoMeta == [before |-> 0, after |-> 0, planned |-> FALSE]

\* ensure_shape_only
ShapeOnly(w) == ~w.live

GcsPrepare(w) ==
  {Err(w)} \cup
  (IF ShapeOnly(w) THEN {Ok(w, [GcsNoMeta EXCEPT !.before = w.generation])} ELSE {})

GcsExecute(w, m) == {Err(w)} \cup (IF ShapeOnly(w) THEN {Ok(w, m)} ELSE {})

GcsVerify(w, m) ==
  {Err(w)} \cup (IF ShapeOnly(w) /\ m.planned THEN {Verified(w)} ELSE {})

\* A mutation without both generations cannot be rolled back.
GcsRollback(a, w, m) ==
  CASE ~ShapeOnly(w) -> {Err(w)}
    [] ShapeOnly(w) /\ a = "GcsGetObject" -> {Recovered(w)}
    [] OTHER -> IF m.before = 0 \/ m.after = 0 THEN {Err(w)} ELSE {Incomplete(w)}

GcsMeddle(w) == {[w EXCEPT !.object = o] : o \in {"a", "gone"}}
==============================================================================
