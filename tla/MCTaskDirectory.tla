---------------------------- MODULE MCTaskDirectory ----------------------------
(* Two processes, a new task and one of the old layout, two repositories.   *)
EXTENDS TaskDirectory, TLC

CONSTANTS p1, p2, t1, t2, r1, r2, i1, i2

Symmetry == Permutations({p1, p2}) \cup Permutations({r1, r2}) \cup Permutations({i1, i2})

=============================================================================
