------------------------------ MODULE ReviewLoop ------------------------------
(***************************************************************************)
(* From the engineer's work to verification evidence that can be acted on: *)
(* the engineer is dispatched under an activation of the write boundary    *)
(* (orchestrator_write_boundary.py, software_engineer_dispatch.py); code   *)
(* reviews come back as evidence (module CodeReview says how); findings    *)
(* go round the loop of review_workflow.py until their reviewer approves;  *)
(* verifiers are dispatched on the approved commit (verifier_dispatch.py); *)
(* the verification evidence (verification_evidence.py) is one file that   *)
(* anyone may write, and that is read back as verified. The worktree may   *)
(* change at any time, so what was probed of it, and of the workflow, may  *)
(* be stale when it is used; telemetry ids may be used twice.              *)
(***************************************************************************)
EXTENDS Integers, FiniteSets

CONSTANTS
    Heads,         \* commits
    Uncommitted,   \* what a worktree that is not clean holds
    Engineers,     \* software engineers: identity, session and model
    Reviewers,     \* code reviewers: identity, session and model
    Verifiers,     \* processes that dispatch a verifier
    Canary,        \* the event id of the activation canary
    WorkId,        \* WorkId[g]: the event id of engineer g's work
    ReviewIds,     \* event ids of code reviews
    VerifierIds,   \* event ids of verifier runs
    Payloads,      \* what evidence may report: verdict, tiers, sandbox
    Nothing        \* no workflow, evidence, reviewer or probe

ASSUME IdentitiesDisjoint == Engineers \cap Reviewers = {}

VARIABLES
    events,        \* the telemetry: events with id, role and who
    activation,    \* whether activation.json is on file
    capability,    \* whether the process holds an issued capability
    dispatched,    \* history: it has dispatched an engineer since its start
    worktree,      \* the commit checked out, or Uncommitted changes
    reviews,       \* the evidence code-review dispatches returned
    workflow,      \* the ReviewWorkflow of the task, or Nothing
    taken,         \* the evidence the workflow has taken since its start
    dispatch,      \* dispatch[v]: the verifier run v has under way
    returned,      \* what verifier dispatches returned
    probe,         \* the approved and the checked-out commit last looked up
    file,          \* the verification evidence, or Nothing
    shipped        \* the evidence read back as verified

vars == <<events, activation, capability, dispatched, worktree, reviews, workflow, taken,
          dispatch, returned, probe, file, shipped>>
boundary == <<activation, capability, dispatched>>
loop == <<workflow, taken>>
verification == <<dispatch, returned, probe, file, shipped>>

-----------------------------------------------------------------------------
Verdicts == {"APPROVE", "CHANGES_REQUESTED"}
Ids == {Canary} \cup {WorkId[g] : g \in Engineers} \cup ReviewIds \cup VerifierIds
Event == [id: Ids, role: {"orchestrator", "software_engineer", "code_reviewer", "verifier"},
          who: Engineers \cup Reviewers \cup Verifiers \cup {Nothing}]
ReviewEvidence == [head: Heads, engineer: Engineers, reviewer: Reviewers,
                   verdict: Verdicts, event: ReviewIds]
Workflow == [head: Heads, engineer: Engineers, evidence: ReviewEvidence \cup {Nothing},
             requires: Reviewers \cup {Nothing}, prior: ReviewIds]
Idle == [step |-> "idle"]
Run == [step: {"running", "ran"}, target: Heads, event: VerifierIds]
Execution == [head: Heads, event: VerifierIds, by: Verifiers]
Evidence == [head: Heads, payload: Payloads]
Probe == [approved: Heads \cup {Nothing}, current: Heads \cup {Uncommitted}]

ASSUME NothingIsNone ==
    /\ Nothing \notin Heads \cup Reviewers
    /\ Nothing \notin ReviewEvidence \cup Evidence \cup Probe

\* Every variable holds a value of its kind; a workflow waits for a reviewer
\* exactly while it has no evidence, and its evidence is of its commit.
TypeOK ==
    /\ events \subseteq Event
    /\ activation \in BOOLEAN /\ capability \in BOOLEAN /\ dispatched \in BOOLEAN
    /\ worktree \in Heads \cup {Uncommitted}
    /\ reviews \subseteq ReviewEvidence /\ taken \subseteq reviews
    /\ workflow \in Workflow \cup {Nothing}
    /\ workflow # Nothing =>
        /\ (workflow.evidence = Nothing) = (workflow.requires # Nothing)
        /\ workflow.evidence # Nothing => workflow.evidence.head = workflow.head
    /\ dispatch \in [Verifiers -> Run \cup {Idle}]
    /\ returned \subseteq Execution
    /\ probe \in Probe \cup {Nothing}
    /\ file \in Evidence \cup {Nothing} /\ shipped \subseteq Evidence

Init ==
    /\ events = {} /\ activation = FALSE /\ capability = FALSE
    /\ dispatched = FALSE
    /\ worktree \in Heads
    /\ reviews = {} /\ workflow = Nothing /\ taken = {}
    /\ dispatch = [v \in Verifiers |-> Idle]
    /\ returned = {} /\ probe = Nothing /\ file = Nothing /\ shipped = {}

-----------------------------------------------------------------------------
UsedIds == {e.id : e \in events}

\* SpawnTelemetryStore.record, as module EventLog promises it: an id that is
\* in the log is refused.
Recorded(id, role, who) ==
    /\ id \notin UsedIds
    /\ events' = events \cup {[id |-> id, role |-> role, who |-> who]}

\* Something is committed, checked out, or left uncommitted.
Touch(w) ==
    /\ worktree' = w
    /\ UNCHANGED <<events, boundary, reviews, loop, verification>>

-----------------------------------------------------------------------------
(* The write boundary and the engineer.                                    *)

RecordCanary ==
    /\ Recorded(Canary, "orchestrator", Nothing)
    /\ UNCHANGED <<boundary, worktree, reviews, loop, verification>>

\* activate: the canary must be in the log before activation.json is written
\* and read back; the capability comes last, or not at all when either fails.
Activate ==
    /\ \E e \in events : e.id = Canary /\ e.role = "orchestrator"
    /\ activation' = TRUE
    /\ capability' \in {capability, TRUE}
    /\ UNCHANGED <<events, dispatched, worktree, reviews, loop, verification>>

\* The process restarts: issued capabilities live in its memory alone.
Restart ==
    /\ capability' = FALSE /\ dispatched' = FALSE
    /\ UNCHANGED <<events, activation, worktree, reviews, loop, verification>>

\* dispatch_software_engineer: with a capability of the run the engineer works
\* in the worktree, and its work is on record unless that fails.
EngineerWork(g, head) ==
    /\ capability
    /\ dispatched' = TRUE
    /\ worktree' = head
    /\ Recorded(WorkId[g], "software_engineer", g) \/ UNCHANGED events
    /\ UNCHANGED <<activation, capability, reviews, loop, verification>>

-----------------------------------------------------------------------------
(* Code reviews and the workflow they drive.                               *)

\* dispatch_code_review returns evidence of the clean commit checked out, of
\* an engineer whose work is on record, under an event of its own.
CodeReviewed(g, r, verdict, id) ==
    /\ worktree \in Heads
    /\ \E e \in events : e.id = WorkId[g] /\ e.role = "software_engineer" /\ e.who = g
    /\ Recorded(id, "code_reviewer", r)
    /\ reviews' = reviews \cup {[head |-> worktree, engineer |-> g, reviewer |-> r,
                                 verdict |-> verdict, event |-> id]}
    /\ UNCHANGED <<boundary, worktree, loop, verification>>

\* start, from any evidence and at any time: what was under way is given up.
StartWorkflow(e) ==
    /\ workflow' = [head |-> e.head, engineer |-> e.engineer, evidence |-> e,
                    requires |-> Nothing, prior |-> e.event]
    /\ taken' = {e}
    /\ UNCHANGED <<events, boundary, worktree, reviews, verification>>

\* As RecordFix, but the findings stay as the evidence of the new commit.
RecordFixKeepingFindings(g, fixed) ==
    /\ workflow # Nothing
    /\ workflow.engineer = g
    /\ workflow.evidence # Nothing
    /\ workflow.evidence.verdict = "CHANGES_REQUESTED"
    /\ fixed # workflow.head
    /\ workflow' = [workflow EXCEPT !.head = fixed]
    /\ UNCHANGED <<events, boundary, worktree, reviews, taken, verification>>

\* record_fix: the bound engineer answers findings with a new commit, which
\* leaves the workflow without evidence until their reviewer comes back.
RecordFix(g, fixed) ==
    /\ workflow # Nothing
    /\ workflow.engineer = g
    /\ workflow.evidence # Nothing
    /\ workflow.evidence.verdict = "CHANGES_REQUESTED"
    /\ fixed # workflow.head
    /\ workflow' = [workflow EXCEPT !.head = fixed, !.evidence = Nothing,
                                    !.requires = workflow.evidence.reviewer]
    /\ UNCHANGED <<events, boundary, worktree, reviews, taken, verification>>

\* As AcceptTargetedRereview, of whichever engineer's work was reviewed.
AcceptOfAnyEngineer(e) ==
    /\ workflow # Nothing
    /\ workflow.evidence = Nothing /\ workflow.requires = e.reviewer
    /\ e.head = workflow.head
    /\ e.event # workflow.prior
    /\ \E t \in events : t.id = e.event /\ t.role = "code_reviewer" /\ t.who = e.reviewer
    /\ workflow' = [workflow EXCEPT !.evidence = e, !.requires = Nothing, !.prior = e.event]
    /\ taken' = taken \cup {e}
    /\ UNCHANGED <<events, boundary, worktree, reviews, verification>>

\* accept_targeted_rereview
AcceptTargetedRereview(e) ==
    /\ workflow # Nothing
    /\ workflow.evidence = Nothing /\ workflow.requires = e.reviewer
    /\ e.head = workflow.head
    /\ e.engineer = workflow.engineer
    /\ e.event # workflow.prior
    /\ \E t \in events : t.id = e.event /\ t.role = "code_reviewer" /\ t.who = e.reviewer
    /\ workflow' = [workflow EXCEPT !.evidence = e, !.requires = Nothing, !.prior = e.event]
    /\ taken' = taken \cup {e}
    /\ UNCHANGED <<events, boundary, worktree, reviews, verification>>

\* The commit the workflow approves, the review HEAD of what follows.
ApprovedHead ==
    IF workflow # Nothing /\ workflow.evidence # Nothing
                          /\ workflow.evidence.verdict = "APPROVE"
    THEN workflow.head ELSE Nothing

-----------------------------------------------------------------------------
(* dispatch_verifier                                                       *)

At(v, step) == dispatch[v].step = step
Stop(v) == dispatch' = [dispatch EXCEPT ![v] = Idle]

\* The contract's target must be the review HEAD the caller looked up, which
\* may be stale, and be checked out and clean, and the event id unused, before
\* the verifier is started.
StartVerifier(v, id) ==
    /\ At(v, "idle")
    /\ probe # Nothing /\ worktree \in Heads /\ probe.approved = worktree
    /\ id \notin UsedIds
    /\ dispatch' = [dispatch EXCEPT ![v] = [step |-> "running", target |-> worktree, event |-> id]]
    /\ UNCHANGED <<events, boundary, worktree, reviews, loop, returned, probe, file, shipped>>

\* The second probe.
VerifierRan(v) ==
    /\ At(v, "running")
    /\ IF worktree = dispatch[v].target
       THEN dispatch' = [dispatch EXCEPT ![v].step = "ran"]
       ELSE Stop(v)
    /\ UNCHANGED <<events, boundary, worktree, reviews, loop, returned, probe, file, shipped>>

\* As FinishVerifier, relying on the check made before the run.
FinishUnchecked(v) ==
    /\ At(v, "ran")
    /\ Stop(v)
    /\ events' = events \cup {[id |-> dispatch[v].event, role |-> "verifier", who |-> v]}
    /\ returned' = returned \cup {[head |-> dispatch[v].target, event |-> dispatch[v].event, by |-> v]}
    /\ UNCHANGED <<boundary, worktree, reviews, loop, probe, file, shipped>>

\* The run is recorded and read back, or refused when its id was taken
\* meanwhile; only then is it returned.
FinishVerifier(v) ==
    /\ At(v, "ran")
    /\ Stop(v)
    /\ \/ /\ Recorded(dispatch[v].event, "verifier", v)
          /\ returned' = returned \cup {[head |-> dispatch[v].target, event |-> dispatch[v].event,
                                         by |-> v]}
       \/ dispatch[v].event \in UsedIds /\ UNCHANGED <<events, returned>>
    /\ UNCHANGED <<boundary, worktree, reviews, loop, probe, file, shipped>>

\* The verifier fails, or answers with another binding or profile, or the
\* dispatching process dies, possibly after its event was recorded.
AbortVerifier(v) ==
    /\ ~At(v, "idle")
    /\ Stop(v)
    /\ \/ At(v, "ran") /\ Recorded(dispatch[v].event, "verifier", v)
       \/ UNCHANGED events
    /\ UNCHANGED <<boundary, worktree, reviews, loop, returned, probe, file, shipped>>

-----------------------------------------------------------------------------
(* The verification evidence.                                              *)

\* The caller looks up the review HEAD and the worktree it passes along.
LookUp ==
    /\ probe' = [approved |-> ApprovedHead, current |-> worktree]
    /\ UNCHANGED <<events, boundary, worktree, reviews, loop, dispatch, returned, file, shipped>>

\* "passed" is an alias of "VERIFIED".
IsVerified(payload) ==
    payload.verdict \in {"VERIFIED", "VERIFIED_WITH_SKIP", "passed"}

\* _validate_verdict
ValidVerdict(payload) ==
    /\ IsVerified(payload) => "FAIL" \notin payload.tiers /\ payload.sandbox
    /\ payload.verdict = "VERIFIED_WITH_SKIP" => "SKIP" \in payload.tiers
    /\ payload.verdict \in {"VERIFIED", "passed"} => "SKIP" \notin payload.tiers

\* As Fresh, of the worktree alone.
FreshInWorktree(head) == probe # Nothing /\ probe.current = head

\* _require_freshness, of the looked-up values.
Fresh(head) == probe # Nothing /\ probe.approved = head /\ probe.current = head

\* write_verification_evidence, of any report: no dispatch is looked at.
WriteEvidence(head, payload) ==
    /\ ValidVerdict(payload)
    /\ Fresh(head)
    /\ file' = [head |-> head, payload |-> payload]
    /\ probe' = Nothing
    /\ UNCHANGED <<events, boundary, worktree, reviews, loop, dispatch, returned, shipped>>

\* A verifier replaces the file itself, at the end of every tier and whether or
\* not it was dispatched, as the harness-verify skill has it: nothing is checked.
ReplaceEvidence(head, payload) ==
    /\ file' = [head |-> head, payload |-> payload]
    /\ UNCHANGED <<events, boundary, worktree, reviews, loop, dispatch, returned, probe, shipped>>

\* read_verification_evidence, of evidence that says verified.
ReadEvidence ==
    /\ file # Nothing
    /\ ValidVerdict(file.payload)
    /\ Fresh(file.head)
    /\ IsVerified(file.payload)
    /\ shipped' = shipped \cup {file}
    /\ probe' = Nothing
    /\ UNCHANGED <<events, boundary, worktree, reviews, loop, dispatch, returned, file>>

-----------------------------------------------------------------------------
Next ==
    \/ \E w \in Heads \cup {Uncommitted} : Touch(w)
    \/ RecordCanary \/ Activate \/ Restart
    \/ \E g \in Engineers, h \in Heads : EngineerWork(g, h) \/ RecordFix(g, h)
    \/ \E g \in Engineers, r \in Reviewers, v \in Verdicts, id \in ReviewIds :
           CodeReviewed(g, r, v, id)
    \/ \E e \in reviews : StartWorkflow(e) \/ AcceptTargetedRereview(e)
    \/ \E v \in Verifiers :
           \/ \E id \in VerifierIds : StartVerifier(v, id)
           \/ VerifierRan(v) \/ FinishVerifier(v) \/ AbortVerifier(v)
    \/ LookUp \/ ReadEvidence
    \/ \E h \in Heads, payload \in Payloads :
           WriteEvidence(h, payload) \/ ReplaceEvidence(h, payload)

Spec == Init /\ [][Next]_vars

-----------------------------------------------------------------------------
\* The review e and the work it is about are in the telemetry.
OnRecord(e) ==
    /\ \E t \in events : t.id = e.event /\ t.role = "code_reviewer" /\ t.who = e.reviewer
    /\ \E t \in events : t.role = "software_engineer" /\ t.who = e.engineer

\* Evidence that is read as verified is of a commit that a code review on record
\* approved, a review of work on record, and reports a run in a sandbox without a
\* failed tier, whoever wrote the file and however stale the review HEAD and the
\* worktree it was compared with (read_verification_evidence, ReviewWorkflow). It
\* is not known to be what a dispatched verifier found.
ShippedWasReviewed ==
    \A s \in shipped :
        /\ \E e \in reviews : e.verdict = "APPROVE" /\ e.head = s.head /\ OnRecord(e)
        /\ "FAIL" \notin s.payload.tiers /\ s.payload.sandbox

\* Findings stay between those who raised and those who answer them: all
\* evidence a workflow takes, over any number of fixes, is of one reviewer and
\* of one engineer's work (accept_targeted_rereview, record_fix).
FindingsStayBound ==
    \A e, f \in taken : e.reviewer = f.reviewer /\ e.engineer = f.engineer

\* Two verifier runs are never returned for one event, although both may have
\* found it unused before they ran; no engineer's work is on record without a
\* durable canary and an activation; and no process dispatches an engineer it has
\* not itself been activated for since it started, whatever activation an earlier
\* one left on file (_reject_existing_event, record, activate, require_activation).
TelemetryGates ==
    /\ \A x, y \in returned : x.event = y.event => x = y
    /\ \A e \in events : e.role = "software_engineer" => activation /\ Canary \in UsedIds
    /\ dispatched => capability /\ activation

=============================================================================
