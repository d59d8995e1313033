------------------------- MODULE MCFinalVerification -------------------------
(* Three commands and a tree of two blobs; the limits are small enough for    *)
(* a plan to meet each of them.                                            *)
EXTENDS FinalVerification

CONSTANTS test, lint, build

ThreeCommands == <<test, lint, build>>

\* A tree within the limit, and one whose second blob is beyond it.
SmallTrees == {<<1, 1>>, <<1, 2>>}

=============================================================================
