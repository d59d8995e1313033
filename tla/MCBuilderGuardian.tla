-------------------------- MODULE MCBuilderGuardian --------------------------
(* Instances of BuilderGuardian for TLC. *)
EXTENDS BuilderGuardian, TLC

CONSTANTS p1, p2, c1, c2, c3, w1, w2

Symmetry == Permutations(Procs) \cup Permutations(InScope)
=============================================================================
