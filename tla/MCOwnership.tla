---------------------------- MODULE MCOwnership ----------------------------
(* Runtime ownership on a small instance. *)
EXTENDS RuntimeOwnership, TLC

Symmetry == Permutations(Procs) \cup Permutations(Calls)
=============================================================================
