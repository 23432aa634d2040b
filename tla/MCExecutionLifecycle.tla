------------------------- MODULE MCExecutionLifecycle -------------------------
(* Small instances of ExecutionLifecycle. *)
EXTENDS ExecutionLifecycle, TLC

Symmetry == Permutations(Request)
==============================================================================
