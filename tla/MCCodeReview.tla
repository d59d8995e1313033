----------------------------- MODULE MCCodeReview -----------------------------
(* Three commits, of which the first two agree on the sensitive paths; the *)
(* profile of the reviewer is available or only a fallback is.             *)
EXTENDS CodeReview, TLC

CONSTANTS hA, hB, hC, e1, e2, s1, s2

ThreeCommits ==
    (hA :> [sensitive |-> 1, other |-> 1]) @@ (hB :> [sensitive |-> 1, other |-> 2])
    @@ (hC :> [sensitive |-> 2, other |-> 2])

\* High Risk by a trigger or by a human's elevation, downgraded by a human, and
\* neither; three more are refused: a downgrade by an agent, of an elevation,
\* and of nothing.
Routed(triggers, elevated, downgrade) ==
    [gear |-> "Build", triggers |-> triggers, elevated |-> elevated, downgrade |-> downgrade]
Downgrade(by) == [by |-> by, target |-> "Small Change", reasoned |-> TRUE]
SevenRequests ==
    LET fired == {"sensitive_data"}
    IN  {Routed(fired, FALSE, NoDowngrade), Routed({}, TRUE, NoDowngrade),
         Routed(fired, FALSE, Downgrade("human")), Routed({}, FALSE, NoDowngrade),
         Routed(fired, FALSE, Downgrade("agent")), Routed(fired, TRUE, Downgrade("human")),
         Routed({}, FALSE, Downgrade("human"))}

SomeProfiles == {{<<"sol", "medium">>, <<"sol", "high">>}, {<<"terra", "low">>, <<"luna", "high">>}}
SomeFallbacks == {(<<"sol", "medium">> :> <<"luna", "high">>) @@ (<<"sol", "high">> :> <<"luna", "high">>),
                  (<<"sol", "medium">> :> <<"terra", "low">>)}

\* Sign-off events and security reviewers are compared for equality only.
Symmetry == Permutations(EventIds) \cup Permutations(Reviewers)

=============================================================================
