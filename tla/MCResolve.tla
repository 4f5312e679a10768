----------------------------- MODULE MCResolve -----------------------------
(* The ledger under its fairness assumptions.  No symmetry: the properties  *)
(* are temporal.                                                            *)
EXTENDS CapabilityExecution
=============================================================================
