----------------------------- MODULE MCPrHandoff -----------------------------
(* Two callers, two runs of the task, two commits.                         *)
EXTENDS PrHandoff, TLC

CONSTANTS c1, c2, r1, r2, h1, h2

\* Callers, runs and commits are compared for equality only.
Symmetry == Permutations(Callers) \cup Permutations(Runs) \cup Permutations(Heads)

=============================================================================
