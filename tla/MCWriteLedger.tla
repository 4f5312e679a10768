--------------------------- MODULE MCWriteLedger ---------------------------
(* Model values for the ledger; processes and tasks are interchangeable.   *)
EXTENDS CapabilityExecution, TLC

Symmetry == Permutations(Workers) \cup Permutations(Tasks)
=============================================================================
