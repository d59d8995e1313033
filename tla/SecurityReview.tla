---------------------------- MODULE SecurityReview ----------------------------
(***************************************************************************)
(* The security sign-off of a High Risk task as a value (security_review.py *)
(* and security_review_git.py): a state names the commit the task targets  *)
(* and holds the sign-off given, the changes made since that touch no      *)
(* security-sensitive path, and who gave the last sign-off. Its operations *)
(* return a new state or refuse; a code review is dispatched only for a    *)
(* state that clears the commit under review.                              *)
(*                                                                         *)
(* A commit is known by the content of its sensitive and of its other      *)
(* paths, which is what `git diff --name-only` between two commits tells.  *)
(***************************************************************************)
EXTENDS Integers, Sequences, RiskRouting

CONSTANTS
    Heads,       \* commits
    Content,     \* Content[h][part]: what commit h holds at the paths of part
    Reviewers,   \* security reviewers: identity, session and model
    EventIds,    \* telemetry event ids
    Nothing      \* no approval, no prior reviewer, no event

Parts == {"sensitive", "other"}
Verdicts == {"APPROVE", "CHANGES_REQUESTED"}

Approval == [reviewer: Reviewers, head: Heads, verdict: Verdicts, event: EventIds]
Evidence == [base: Heads, new: Heads, paths: SUBSET Parts]

ASSUME NothingIsNone == Nothing \notin EventIds \cup Reviewers \cup Approval

SecurityState ==
    [required: BOOLEAN, triggered: BOOLEAN, elevated: BOOLEAN, downgrade: Downgrades,
     target: Heads, preserved: Seq(Evidence),
     priorEvent: EventIds \cup {Nothing}, priorReviewer: Reviewers \cup {Nothing},
     approval: Approval \cup {Nothing}]

\* from_risk_decision: the state of a routed task, before any sign-off.
FromRiskDecision(request, target) ==
    [required |-> EffectiveGear(request) = HighRisk, triggered |-> request.triggers # {},
     elevated |-> request.elevated, downgrade |-> request.downgrade,
     target |-> target, preserved |-> <<>>,
     priorEvent |-> Nothing, priorReviewer |-> Nothing, approval |-> Nothing]

-----------------------------------------------------------------------------
\* collect_git_change_evidence: the paths that differ between two commits.
GitChange(base, new) ==
    [base |-> base, new |-> new, paths |-> {p \in Parts : Content[base][p] # Content[new][p]}]

ValidEvidence(e) == e.base # e.new /\ e.paths # {}
IsSensitive(e) == "sensitive" \in e.paths

\* _require_telemetry: exactly one event of a security reviewer carries the
\* approval's id, identity and run.
HasTelemetry(a, events) ==
    \E e \in events : e.id = a.event /\ e.role = "security_reviewer" /\ e.who = a.reviewer

\* As MayRecordApproval, with the event of the sign-off that was dropped.
MayRecordAnyEvent(s, a, events) ==
    /\ s.required
    /\ s.approval = Nothing
    /\ a.head = s.target
    /\ s.priorReviewer # Nothing => a.reviewer = s.priorReviewer
    /\ HasTelemetry(a, events)

\* record_approval
MayRecordApproval(s, a, events) ==
    /\ s.required
    /\ s.approval = Nothing
    /\ a.head = s.target
    /\ a.event # s.priorEvent
    /\ s.priorReviewer # Nothing => a.reviewer = s.priorReviewer
    /\ HasTelemetry(a, events)

Approved(s, a) == [s EXCEPT !.approval = a, !.preserved = <<>>]

\* The sign-off last given, whether it stands or was dropped.
PriorEvent(s) == IF s.approval # Nothing THEN s.approval.event ELSE s.priorEvent
PriorReviewer(s) == IF s.approval # Nothing THEN s.approval.reviewer ELSE s.priorReviewer

\* for_change_evidence: a change of a sensitive path, and any change after a
\* refusal, drops the sign-off; another is kept beside it.
MayChange(s, e) == ValidEvidence(e) /\ e.base = s.target

NeedsFreshReview(s, e) ==
    s.required /\ (IsSensitive(e) \/ (s.approval # Nothing /\ s.approval.verdict # "APPROVE"))

Retargeted(s, e) ==
    [s EXCEPT !.target = e.new, !.priorEvent = PriorEvent(s), !.priorReviewer = PriorReviewer(s)]

\* As Changed, remembering the last reviewer only with a standing sign-off.
ChangedForgetting(s, e) ==
    IF NeedsFreshReview(s, e)
    THEN [s EXCEPT !.target = e.new, !.preserved = <<>>, !.approval = Nothing,
                   !.priorEvent = IF s.approval # Nothing THEN s.approval.event ELSE Nothing,
                   !.priorReviewer = IF s.approval # Nothing THEN s.approval.reviewer ELSE Nothing]
    ELSE [Retargeted(s, e) EXCEPT !.preserved = Append(s.preserved, e)]

Changed(s, e) ==
    IF NeedsFreshReview(s, e)
    THEN [Retargeted(s, e) EXCEPT !.preserved = <<>>, !.approval = Nothing]
    ELSE [Retargeted(s, e) EXCEPT !.preserved = Append(s.preserved, e)]

-----------------------------------------------------------------------------
\* validate_security_review_state, of what a value of this kind may get wrong.
ValidState(s) ==
    /\ \A i \in DOMAIN s.preserved : ValidEvidence(s.preserved[i])
    /\ (s.priorEvent = Nothing) = (s.priorReviewer = Nothing)
    /\ s.required => (s.triggered \/ s.elevated) /\ s.downgrade = NoDowngrade
    /\ ~s.required => ~s.elevated /\ s.triggered = (s.downgrade # NoDowngrade)
    /\ s.downgrade # NoDowngrade => ValidDowngrade(s.downgrade)
    /\ s.approval # Nothing =>
        /\ s.required
        /\ s.approval.event = s.priorEvent => s.preserved # <<>>
        /\ s.priorReviewer # Nothing => s.approval.reviewer = s.priorReviewer

\* As PreservedScope, trusting the paths the evidence claims.
ClaimedScope(s) ==
    \A i \in DOMAIN s.preserved : ~IsSensitive(s.preserved[i])

\* _require_preserved_scope: the changes since the sign-off lead from its
\* commit to the target, one after another, and Git says of each the same
\* paths as its evidence, none of them sensitive.
PreservedScope(s) ==
    LET n == Len(s.preserved)
        Base(i) == IF i = 1 THEN s.approval.head ELSE s.preserved[i - 1].new
    IN  /\ \A i \in 1..n :
            /\ s.preserved[i].base = Base(i)
            /\ s.preserved[i] = GitChange(s.preserved[i].base, s.preserved[i].new)
            /\ ~IsSensitive(s.preserved[i])
        /\ s.target = IF n = 0 THEN s.approval.head ELSE s.preserved[n].new

\* require_code_review_approval
ReviewCleared(s, head, events) ==
    /\ ValidState(s)
    /\ s.target = head
    /\ s.required =>
        /\ s.approval # Nothing
        /\ s.approval.verdict = "APPROVE"
        /\ HasTelemetry(s.approval, events)
        /\ s.approval.head # head => PreservedScope(s)

=============================================================================
