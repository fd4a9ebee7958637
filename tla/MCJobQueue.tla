----------------------------- MODULE MCJobQueue -----------------------------
(* TLC instances of JobQueue. *)
EXTENDS JobQueue, TLC

Symmetry == Permutations(Jobs) \cup Permutations(Workers)

AllFaults == FaultKinds
=============================================================================
