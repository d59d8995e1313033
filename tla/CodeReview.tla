------------------------------ MODULE CodeReview ------------------------------
(***************************************************************************)
(* From risk routing to an accepted code review: the orchestrator holds    *)
(* the security-review state of a routed task, takes sign-offs into it and *)
(* moves it along with the changes; dispatchers (code_review_dispatch.py)  *)
(* probe the worktree, check the state and the execution profile, let the  *)
(* reviewer work, probe again and record the review in the telemetry.      *)
(* Meanwhile the worktree may be committed to or written in by anyone. A   *)
(* security reviewer signs a commit at its own time; its sign-off may be   *)
(* presented to the orchestrator long after.                               *)
(***************************************************************************)
EXTENDS SecurityReview, ExecutionPolicy

CONSTANTS
    Requests,        \* the routing requests a task may come with
    Dispatchers,     \* processes that dispatch code reviews
    CodeReviewer,    \* the identity and session of the code reviewer
    Engineer,        \* those of the software engineer
    ReviewIds,       \* event ids of code reviews
    EngineerId,      \* event id of the engineer's work
    Availability,    \* the sets of profiles that may be available
    Fallbacks,       \* the authorizations of fallbacks that may be in force
    Uncommitted,     \* what a worktree that is not clean holds
    MaxPreserved     \* bound on the changes kept beside a sign-off

ASSUME RequestsAssumption ==
    \A r \in Requests : r \in Request(r.triggers)
ASSUME IdsDisjoint == ReviewIds \cap EventIds = {} /\ EngineerId \notin ReviewIds \cup EventIds
ASSUME AvailabilityAssumption == Availability \subseteq SUBSET Profiles
ASSUME PreservedAssumption == MaxPreserved \in Nat

VARIABLES
    request,     \* the routing request of the task
    review,      \* the security-review state the orchestrator holds
    signed,      \* the sign-offs security reviewers have given
    recorded,    \* those record_approval has taken
    events,      \* the telemetry: events with id, role, who and model
    worktree,    \* the commit checked out, or Uncommitted changes
    dispatch,    \* dispatch[d]: the code review dispatcher d has under way
    accepted     \* the code reviews dispatches returned

vars == <<request, review, signed, recorded, events, worktree, dispatch, accepted>>
signOffs == <<review, signed, recorded>>

-----------------------------------------------------------------------------
Event == [id: EventIds \cup ReviewIds \cup {EngineerId},
          role: {"security_reviewer", "software_engineer", "code_reviewer"},
          who: Reviewers \cup {CodeReviewer, Engineer}, model: Models]
Idle == [step |-> "idle"]
Work == [step: {"running", "ran", "probed"}, target: Heads, event: ReviewIds,
         profile: Profiles]
Review == [head: Heads, event: ReviewIds, profile: Profiles]

\* Every variable holds a value of its kind, and the orchestrator's operations
\* never build a security-review state that its own validation rejects, which
\* would close the code review to the task for good.
TypeOK ==
    /\ request \in Requests
    /\ review.target \in Heads /\ ValidState(review)
    /\ signed \subseteq Approval /\ recorded \subseteq signed
    /\ events \subseteq Event
    /\ worktree \in Heads \cup {Uncommitted}
    /\ dispatch \in [Dispatchers -> Work \cup {Idle}]
    /\ accepted \subseteq Review

\* The engineer's work, done before under some profile of complex work.
EngineerEvent(m) == [id |-> EngineerId, role |-> "software_engineer", who |-> Engineer, model |-> m]

Init ==
    /\ request \in {r \in Requests : MayRoute(r)}
    /\ worktree \in Heads
    /\ review = FromRiskDecision(request, worktree)
    /\ signed = {} /\ recorded = {}
    /\ \E available \in Availability, fallbacks \in Fallbacks :
        LET profile == Resolve("software_engineer", EffectiveGear(request), "complex",
                               available, fallbacks)
        IN  profile # NoProfile /\ events = {EngineerEvent(profile[1])}
    /\ dispatch = [d \in Dispatchers |-> Idle]
    /\ accepted = {}

-----------------------------------------------------------------------------
(* The world around the orchestrator.                                      *)

\* Something is committed, checked out, or left uncommitted in the worktree.
Touch(w) ==
    /\ worktree' = w
    /\ UNCHANGED <<request, signOffs, events, dispatch, accepted>>

\* A security reviewer, asked because the task requires it, finishes with a
\* commit.
SignOff(reviewer, head, verdict, id) ==
    /\ review.required
    /\ id \notin {e.id : e \in events}
    /\ events' = events \cup {[id |-> id, role |-> "security_reviewer", who |-> reviewer,
                               model |-> "sol"]}
    /\ signed' = signed \cup {[reviewer |-> reviewer, head |-> head,
                               verdict |-> verdict, event |-> id]}
    /\ UNCHANGED <<request, review, recorded, worktree, dispatch, accepted>>

-----------------------------------------------------------------------------
(* The orchestrator's security-review state.                               *)

RecordApproval(a) ==
    /\ MayRecordApproval(review, a, events)
    /\ review' = Approved(review, a)
    /\ recorded' = recorded \cup {a}
    /\ UNCHANGED <<request, signed, events, worktree, dispatch, accepted>>

\* for_change_evidence and for_git_change: what the caller claims of a change,
\* or what Git says of it.
ForChange(e) ==
    /\ MayChange(review, e)
    /\ Len(review.preserved) < MaxPreserved
    /\ review' = Changed(review, e)
    /\ UNCHANGED <<request, signed, recorded, events, worktree, dispatch, accepted>>

ForGitChange(new) == ForChange(GitChange(review.target, new))

-----------------------------------------------------------------------------
(* dispatch_code_review                                                    *)

At(d, step) == dispatch[d].step = step
Stop(d) == dispatch' = [dispatch EXCEPT ![d] = Idle]

\* The models of the engineer event the dispatch cites: one, or none.
EngineerModels == {e.model : e \in {f \in events : f.id = EngineerId
                                                  /\ f.role = "software_engineer" /\ f.who = Engineer}}

\* The first probe finds the contract's target checked out and clean, the
\* security review clears it under the contract's risk, and a profile other
\* than the engineer's model is available: the reviewer is started.
Dispatch(d, id, risk, target, available, fallbacks) ==
    /\ At(d, "idle")
    /\ review.required = (risk = HighRisk)
    /\ review.downgrade # NoDowngrade => review.downgrade.target = risk
    /\ ReviewCleared(review, worktree, events)
    /\ worktree = target
    /\ LET profile == Resolve("code_reviewer", risk, "complex", available, fallbacks)
       IN  /\ profile # NoProfile
           /\ EngineerModels # {} /\ profile[1] \notin EngineerModels
           /\ dispatch' = [dispatch EXCEPT ![d] = [step |-> "running", target |-> target,
                                                   event |-> id, profile |-> profile]]
    /\ UNCHANGED <<request, signOffs, events, worktree, accepted>>

\* The second probe: a worktree that is elsewhere or dirty stops the dispatch.
Reprobe(d) ==
    /\ At(d, "running")
    /\ IF worktree = dispatch[d].target
       THEN dispatch' = [dispatch EXCEPT ![d].step = "probed"]
       ELSE Stop(d)
    /\ UNCHANGED <<request, signOffs, events, worktree, accepted>>

\* telemetry.record: an event of the same id refuses the review.
Record(d) ==
    /\ At(d, "probed")
    /\ Stop(d)
    /\ IF dispatch[d].event \in {e.id : e \in events}
       THEN UNCHANGED <<events, accepted>>
       ELSE /\ events' = events \cup {[id |-> dispatch[d].event, role |-> "code_reviewer",
                                       who |-> CodeReviewer, model |-> dispatch[d].profile[1]]}
            /\ accepted' = accepted \cup {[head |-> dispatch[d].target, event |-> dispatch[d].event,
                                           profile |-> dispatch[d].profile]}
    /\ UNCHANGED <<request, signOffs, worktree>>

\* The reviewer's runtime fails or answers with another binding, profile or
\* evidence than it was given, or the dispatcher dies.
Abort(d) ==
    /\ ~At(d, "idle")
    /\ Stop(d)
    /\ UNCHANGED <<request, signOffs, events, worktree, accepted>>

Step(d) ==
    \/ \E id \in ReviewIds, risk \in Gears, target \in Heads,
          available \in Availability, fallbacks \in Fallbacks :
          Dispatch(d, id, risk, target, available, fallbacks)
    \/ Reprobe(d) \/ Record(d) \/ Abort(d)

Next ==
    \/ \E w \in Heads \cup {Uncommitted} : Touch(w)
    \/ \E r \in Reviewers, h \in Heads, v \in Verdicts, id \in EventIds : SignOff(r, h, v, id)
    \/ \E a \in signed : RecordApproval(a)
    \/ \E new \in Heads, paths \in SUBSET Parts :
          ForChange([base |-> review.target, new |-> new, paths |-> paths])
    \/ \E new \in Heads : ForGitChange(new)
    \/ \E d \in Dispatchers : Step(d)

Spec == Init /\ [][Next]_vars

-----------------------------------------------------------------------------
\* A code review of a task with a High Risk trigger or a human's elevation,
\* which no human downgraded, is only accepted for a commit whose sensitive
\* paths a security reviewer approved as they are: through later changes,
\* false claims about them and stale sign-offs (require_code_review_approval,
\* for_change_evidence, route_risk).
SignedOff ==
    (request.elevated \/ (request.triggers # {} /\ request.downgrade = NoDowngrade)) =>
        \A c \in accepted : \E a \in signed :
            /\ a.verdict = "APPROVE"
            /\ Content[a.head]["sensitive"] = Content[c.head]["sensitive"]

\* All sign-offs a task ever takes are of one reviewer, whatever was changed,
\* dropped and kept between them (record_approval, for_change_evidence).
OneReviewer == \A a, b \in recorded : a.reviewer = b.reviewer

\* No event id returns two code reviews; none of them is of the model that did
\* the engineer's work or thought less hard than the role asks, whatever was
\* available and authorized (dispatch_code_review, resolve_execution_profile).
IndependentReviews ==
    /\ \A c, d \in accepted : c.event = d.event => c = d
    /\ \A c \in accepted :
        /\ c.profile[1] \notin EngineerModels
        /\ EffortRank(c.profile[2]) >= EffortRank(EffortFor("code_reviewer", EffectiveGear(request)))

=============================================================================
