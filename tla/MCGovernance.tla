----------------------------- MODULE MCGovernance -----------------------------
(* Instances of Governance for TLC. *)
EXTENDS Governance, TLC

Symmetry ==
  Permutations(Capability) \cup Permutations(Handler) \cup Permutations(Sweeper)
==============================================================================
