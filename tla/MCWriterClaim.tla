---------------------------- MODULE MCWriterClaim ----------------------------
(* Instances of WriterClaim for TLC. *)
EXTENDS WriterClaim, TLC

CONSTANTS p1, p2, a, b, c, h1, h2

Two == {p1, p2}
One == {p1}
SessionPermutations == Permutations(Sessions)
HeadPermutations == Permutations(Heads)
Symmetry == SessionPermutations \cup HeadPermutations
=============================================================================
