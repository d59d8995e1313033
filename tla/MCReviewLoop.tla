----------------------------- MODULE MCReviewLoop -----------------------------
(* Two commits, two engineers and reviewers, two verifiers with one id.    *)
EXTENDS ReviewLoop, TLC

CONSTANTS hA, hB, g1, g2, r1, r2, w1, w2, x1, x2, v1, v2

WorkIds == (g1 :> w1) @@ (g2 :> w2)

Report(verdict, tiers, sandbox) == [verdict |-> verdict, tiers |-> tiers, sandbox |-> sandbox]

\* A report that can be acted on, and one that contradicts itself.
TwoReports == {Report("passed", {"PASS"}, TRUE), Report("VERIFIED_WITH_SKIP", {"FAIL", "SKIP"}, TRUE)}

\* Commits, reviewers, review events and verifiers are compared for equality.
Symmetry == Permutations(Heads) \cup Permutations(Reviewers) \cup Permutations(ReviewIds)
            \cup Permutations(Verifiers)

=============================================================================
