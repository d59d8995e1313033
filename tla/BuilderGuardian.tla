--------------------------- MODULE BuilderGuardian ---------------------------
(***************************************************************************)
(* The Builder-Guardian coordinator of scripts/lib/builder_guardian*.py:   *)
(* commands (init, build, handoff, review, verify, gate) that each load    *)
(* state.json into memory, work, and write the whole of it back; the       *)
(* artifacts in the task directory; the Builder's worktrees; and the       *)
(* Builder and Guardian processes, which may answer anything.              *)
(*                                                                         *)
(* A SHA-256 digest stored in state.json is modelled by the value it is    *)
(* the digest of. One task, one pipeline run.                              *)
(***************************************************************************)
EXTENDS Naturals, FiniteSets

CONSTANTS
  Procs,        \* commands that may run at the same time
  Commits,      \* commits that descend from the contract's base_commit
  InScope,      \* those that touch only allowed, unprohibited paths
  Base,         \* base_commit
  Worktrees,    \* worktrees a handoff may name
  Managed,      \* the worktree the build command creates
  None,         \* an absent file or field
  Limit,        \* max_review_cycles
  MaxSessions,  \* bound: Guardian sessions started
  Faulty,       \* whether commands may be killed
  Reedited      \* bound: contract.json may be edited again after an edit
                \* under a command was undone

ASSUME CommitsAssumption == InScope \subseteq Commits /\ Base \notin Commits
ASSUME ManagedAssumption == Managed \in Worktrees
ASSUME NoneAssumption == None \notin Commits \cup Worktrees \cup {Base}
ASSUME LimitAssumption == Limit \in Nat /\ MaxSessions \in Nat
ASSUME FaultyAssumption == Faulty \in BOOLEAN /\ Reedited \in BOOLEAN

Statuses == {"CONTRACT_READY", "BUILDING", "AWAITING_REVIEW",
  "GUARDIAN_APPROVED", "VERIFYING", "VERIFICATION_FAILED", "VERIFIED",
  "READY_TO_SHIP", "BLOCKED"}
Contracts == {"bound", "edited"}

Package  == [target : Commits, worktree : Worktrees]
Verdict  == [verdict : {"APPROVED", "CHANGES_REQUESTED", "BLOCKED"},
             target : Commits, session : 1 .. MaxSessions]
Evidence == [commit : Commits, passed : BOOLEAN, checks : Contracts]
Passed   == [commit : Commits, checks : Contracts]
Ready    == [commit : Commits, session : 1 .. MaxSessions]
Fingerprints == [head : Commits \cup {Base, None}, clean : BOOLEAN]

(* state.json; its worktree is the one of its last accepted handoff *)
Data == [status : Statuses, cycle : Nat,
         target : Commits \cup {None}, handoff : Package \cup {None},
         verdict : Verdict \cup {None}, session : 0 .. MaxSessions,
         evidence : Evidence \cup {None}]

ASSUME NoneIsNoRecord == None \notin Package \cup Verdict \cup Evidence
                                     \cup Ready \cup Fingerprints \cup Data

VARIABLES
  \* the task directory
  exists,          \* the directory was made
  contract,        \* contract.json is the one init bound, or another
  state,           \* state.json
  handoffFile, verdictFile, evidenceFile, readyFile,
  builderOutput,   \* review_target in builder-output.json
  guardianOutput,  \* guardian-output.json
  \* the worktrees: HEAD (None: not there) and an empty git status
  head, clean,
  \* the commands: program point, self.data, the package or verdict at hand,
  \* the fingerprint of the worktree before the Guardian
  pc, mem, package, verdict, session, seen,
  sessions,        \* Guardian sessions started so far
  \* history: targets of the handoffs stored, approvals recorded, final
  \* checks passed, edits of contract.json with a command at work
  accepted, approvals, passed, meddling

artifacts == <<handoffFile, verdictFile, evidenceFile, readyFile>>
outputs   == <<builderOutput, guardianOutput>>
trees     == <<head, clean>>
locals    == <<pc, mem, package, verdict, session, seen>>
history   == <<accepted, approvals, passed, meddling>>
vars == <<exists, contract, state, artifacts, outputs, trees, locals, sessions,
          history>>

Labels == {"idle", "created", "build", "building", "built", "handoff", "checks",
  "store", "stored", "assert", "dispatch", "reviewing", "reviewed", "verdict",
  "verify", "verifying", "evidence", "returning", "gate", "ready", "shipping"}

TypeOK ==
  /\ exists \in BOOLEAN /\ contract \in Contracts
  /\ state \in Data \cup {None}
  /\ handoffFile \in Package \cup {None} /\ verdictFile \in Verdict \cup {None}
  /\ evidenceFile \in Evidence \cup {None} /\ readyFile \in Ready \cup {None}
  /\ builderOutput \in Commits \cup {None}
  /\ guardianOutput \in Verdict \cup {None}
  /\ head \in [Worktrees -> Commits \cup {Base, None}]
  /\ clean \in [Worktrees -> BOOLEAN]
  /\ pc \in [Procs -> Labels]
  /\ mem \in [Procs -> Data \cup {None}]
  /\ package \in [Procs -> Package \cup {None}]
  /\ verdict \in [Procs -> Verdict \cup {None}]
  /\ session \in [Procs -> 0 .. MaxSessions]
  /\ seen \in [Procs -> Fingerprints \cup {None}]
  /\ sessions \in 0 .. MaxSessions
  /\ accepted \subseteq Commits /\ passed \subseteq Passed
  /\ approvals \subseteq Ready
  /\ meddling \in {"none", "standing", "undone"}
  /\ meddling = "none" /\ state # None => state.cycle <= Limit

Init ==
  /\ exists = FALSE /\ contract = "bound" /\ state = None
  /\ handoffFile = None /\ verdictFile = None /\ evidenceFile = None
  /\ readyFile = None /\ builderOutput = None /\ guardianOutput = None
  /\ head \in [Worktrees -> {Base, None}] /\ head[Managed] = None
  /\ clean = [w \in Worktrees |-> TRUE]
  /\ pc = [p \in Procs |-> "idle"] /\ mem = [p \in Procs |-> None]
  /\ package = [p \in Procs |-> None] /\ verdict = [p \in Procs |-> None]
  /\ session = [p \in Procs |-> 0] /\ seen = [p \in Procs |-> None]
  /\ sessions = 0
  /\ accepted = {} /\ approvals = {} /\ passed = {} /\ meddling = "none"

-----------------------------------------------------------------------------
Goto(p, label) == pc' = [pc EXCEPT ![p] = label]

(* The command ends, normally or with an error, and its memory with it. *)
Exit(p) ==
  /\ Goto(p, "idle")
  /\ mem' = [mem EXCEPT ![p] = None]
  /\ package' = [package EXCEPT ![p] = None]
  /\ verdict' = [verdict EXCEPT ![p] = None]
  /\ session' = [session EXCEPT ![p] = 0]
  /\ seen' = [seen EXCEPT ![p] = None]

(* transition(): the whole of self.data, with its new status, replaces      *)
(* state.json.                                                              *)
Transition(data, status) == state' = [data EXCEPT !.status = status]

Continue(p, data, status, label) ==
  /\ Transition(data, status)
  /\ mem' = [mem EXCEPT ![p] = [data EXCEPT !.status = status]]
  /\ package' = [package EXCEPT ![p] = None]
  /\ Goto(p, label)
  /\ UNCHANGED <<verdict, session, seen>>

AtTarget(w, target) == head[w] = target /\ clean[w]

(* fingerprint(): the status, which is one of many when it is not empty,    *)
(* and HEAD.                                                                *)
Fingerprint(w) == [head |-> head[w], clean |-> clean[w]]

(* assert_handoff(): the stored package is the one state.json is bound to,  *)
(* and its worktree is still at its target.                                 *)
HandoffStands(data) ==
  /\ handoffFile # None
  /\ handoffFile = data.handoff /\ handoffFile.target = data.target
  /\ AtTarget(handoffFile.worktree, handoffFile.target)

-----------------------------------------------------------------------------
(* init *)
MakeDirectory(p) ==
  /\ pc[p] = "idle"
  /\ ~exists
  /\ exists' = TRUE
  /\ Goto(p, "created")
  /\ UNCHANGED <<contract, state, artifacts, outputs, trees, mem, package, verdict,
                 session, seen, sessions, history>>

SaveInitial(p) ==
  /\ pc[p] = "created"
  /\ state' = [status |-> "CONTRACT_READY", cycle |-> 0, target |-> None,
               handoff |-> None, verdict |-> None, session |-> 0,
               evidence |-> None]
  /\ Exit(p)
  /\ UNCHANGED <<exists, contract, artifacts, outputs, trees, sessions, history>>

(* Every other command starts by loading state.json and comparing the       *)
(* digest of contract.json with the one it holds.                           *)
\* Mutant: the digest is not compared.
ContractUncompared == TRUE

ContractBound == contract = "bound"

Open(p, command) ==
  /\ pc[p] = "idle"
  /\ state # None /\ ContractBound
  /\ mem' = [mem EXCEPT ![p] = state]
  /\ Goto(p, command)
  /\ UNCHANGED <<exists, contract, state, artifacts, outputs, trees, verdict,
                 session, seen, sessions, history>>

OpenCommand(p) ==
  /\ \E command \in {"build", "assert", "verify", "gate"} : Open(p, command)
  /\ UNCHANGED package

OpenHandoff(p, given) ==
  /\ Open(p, "handoff")
  /\ package' = [package EXCEPT ![p] = given]

-----------------------------------------------------------------------------
(* build *)
\* Mutant: a shipped task is open for another handoff.
AdmittedAgain(data) ==
  data.status \in {"CONTRACT_READY", "BUILDING", "READY_TO_SHIP"}

Admitted(data) == data.status \in {"CONTRACT_READY", "BUILDING"}

(* The worktree is created, or is the one of the last accepted handoff. *)
MayBuild(p) ==
  /\ Admitted(mem[p])
  /\ \/ head[Managed] = None
     \/ mem[p].handoff # None /\ mem[p].handoff.worktree = Managed

StartBuilder(p) ==
  /\ pc[p] = "build"
  /\ MayBuild(p)
  /\ head' = [head EXCEPT ![Managed] = IF @ = None THEN Base ELSE @]
  /\ Continue(p, mem[p], "BUILDING", "building")
  /\ UNCHANGED <<exists, contract, artifacts, outputs, clean, sessions, history>>

(* The Builder answers with a target, or leaves the file as it was. *)
BuilderAnswers(p) ==
  /\ pc[p] = "building"
  /\ builderOutput' \in Commits \cup {builderOutput}
  /\ Goto(p, "built")
  /\ UNCHANGED <<exists, contract, state, artifacts, guardianOutput, trees, mem,
                 package, verdict, session, seen, sessions, history>>

BuilderFailed(p) ==
  /\ pc[p] = "built"
  /\ Transition(mem[p], "BLOCKED")
  /\ Exit(p)
  /\ UNCHANGED <<exists, contract, artifacts, outputs, trees, sessions, history>>

BuilderAtTarget == builderOutput # None /\ AtTarget(Managed, builderOutput)

CompleteBuilder(p) ==
  /\ pc[p] = "built"
  /\ BuilderAtTarget
  /\ package' = [package EXCEPT ![p] =
                   [target |-> builderOutput, worktree |-> Managed]]
  /\ Goto(p, "handoff")
  /\ UNCHANGED <<exists, contract, state, artifacts, outputs, trees, mem, verdict,
                 session, seen, sessions, history>>

-----------------------------------------------------------------------------
(* accept_handoff. The scope is that of contract.json as it is now. *)
\* Mutant: the changed files are not matched with the scope.
AnyScope(target) == TRUE

InContractScope(target) == contract = "edited" \/ target \in InScope

Acceptable(p) ==
  /\ Admitted(mem[p])
  /\ AtTarget(package[p].worktree, package[p].target)
  /\ InContractScope(package[p].target)

CheckHandoff(p) ==
  /\ pc[p] = "handoff"
  /\ Acceptable(p)
  /\ Goto(p, "checks")
  /\ UNCHANGED <<exists, contract, state, artifacts, outputs, trees, mem, package,
                 verdict, session, seen, sessions, history>>

(* The Builder-stage checks ran and passed and the worktree is still clean. *)
BuilderChecksPass(p) ==
  /\ pc[p] = "checks"
  /\ clean[package[p].worktree]
  /\ Goto(p, "store")
  /\ UNCHANGED <<exists, contract, state, artifacts, outputs, trees, mem, package,
                 verdict, session, seen, sessions, history>>

StoreHandoff(p) ==
  /\ pc[p] = "store"
  /\ handoffFile' = package[p]
  /\ accepted' = accepted \cup {package[p].target}
  /\ Goto(p, "stored")
  /\ UNCHANGED <<exists, contract, state, verdictFile, evidenceFile, readyFile,
                 outputs, trees, mem, package, verdict, session, seen, sessions,
                 approvals, passed, meddling>>

AwaitReview(p) ==
  /\ pc[p] = "stored"
  /\ Continue(p, [mem[p] EXCEPT !.target = package[p].target,
                                !.handoff = package[p]],
              "AWAITING_REVIEW", "assert")
  /\ UNCHANGED <<exists, contract, artifacts, outputs, trees, sessions, history>>

-----------------------------------------------------------------------------
(* run_guardian, after an accepted handoff and as the review command *)
\* max_review_cycles is that of contract.json as it is now.
BelowLimit(p) == contract = "edited" \/ mem[p].cycle < Limit

Reviewable(p) ==
  /\ mem[p].status = "AWAITING_REVIEW" /\ BelowLimit(p)
  /\ HandoffStands(mem[p])

AssertReviewable(p) ==
  /\ pc[p] = "assert"
  /\ Reviewable(p)
  /\ Goto(p, "dispatch")
  /\ UNCHANGED <<exists, contract, state, artifacts, outputs, trees, mem, package,
                 verdict, session, seen, sessions, history>>

StartReview(p) ==
  /\ pc[p] = "dispatch"
  /\ sessions < MaxSessions
  /\ seen' = [seen EXCEPT ![p] = Fingerprint(mem[p].handoff.worktree)]
  /\ sessions' = sessions + 1
  /\ session' = [session EXCEPT ![p] = sessions + 1]
  /\ Goto(p, "reviewing")
  /\ UNCHANGED <<exists, contract, state, artifacts, outputs, trees, mem, package,
                 verdict, history>>

LimitReached(p) ==
  /\ mem[p].status = "AWAITING_REVIEW"
  /\ contract = "edited" \/ mem[p].cycle >= Limit

\* Mutant: the cycle is counted before the limit is looked at.
LimitReachedCounted(p) ==
  /\ pc[p] = "assert"
  /\ LimitReached(p)
  /\ Transition([mem[p] EXCEPT !.cycle = @ + 1], "BLOCKED")
  /\ Exit(p)
  /\ UNCHANGED <<exists, contract, artifacts, outputs, trees, sessions, history>>

RevisionLimitReached(p) ==
  /\ pc[p] = "assert"
  /\ LimitReached(p)
  /\ Transition(mem[p], "BLOCKED")
  /\ Exit(p)
  /\ UNCHANGED <<exists, contract, artifacts, outputs, trees, sessions, history>>

(* The Guardian names the session it was given, with any verdict on any     *)
(* target, writes something unreadable, or leaves the file as it was.       *)
GuardianAnswers(p) ==
  /\ pc[p] = "reviewing"
  /\ guardianOutput' \in {guardianOutput, None}
                          \cup {v \in Verdict : v.session = session[p]}
  /\ Goto(p, "reviewed")
  /\ UNCHANGED <<exists, contract, state, artifacts, builderOutput, trees, mem,
                 package, verdict, session, seen, sessions, history>>

(* The Guardian failed, or the fingerprint of the worktree changed. *)
GuardianBlocked(p) ==
  /\ pc[p] = "reviewed"
  /\ Transition(mem[p], "BLOCKED")
  /\ Exit(p)
  /\ UNCHANGED <<exists, contract, artifacts, outputs, trees, sessions, history>>

Unmodified(p) == Fingerprint(mem[p].handoff.worktree) = seen[p]

\* Mutant: the session that answered is not looked at.
VerdictOnTarget(p) ==
  guardianOutput # None /\ guardianOutput.target = mem[p].target

VerdictIsOwn(p) ==
  /\ guardianOutput # None
  /\ guardianOutput.target = mem[p].target
  /\ guardianOutput.session = session[p]

RecordVerdict(p) ==
  /\ pc[p] = "reviewed"
  /\ Unmodified(p) /\ VerdictIsOwn(p)
  /\ verdictFile' = guardianOutput
  /\ verdict' = [verdict EXCEPT ![p] = guardianOutput]
  /\ approvals' = IF guardianOutput.verdict = "APPROVED"
       THEN approvals \cup {[commit |-> mem[p].target, session |-> session[p]]}
       ELSE approvals
  /\ seen' = [seen EXCEPT ![p] = None]
  /\ Goto(p, "verdict")
  /\ UNCHANGED <<exists, contract, state, handoffFile, evidenceFile, readyFile,
                 outputs, trees, mem, package, session, sessions,
                 accepted, passed, meddling>>

ApplyVerdict(p, answer, data, status) ==
  /\ pc[p] = "verdict" /\ verdict[p].verdict = answer
  /\ Transition([data EXCEPT !.cycle = @ + 1], status)
  /\ Exit(p)
  /\ UNCHANGED <<exists, contract, artifacts, outputs, trees, sessions, history>>

ApproveGuardian(p) ==
  ApplyVerdict(p, "APPROVED",
    [mem[p] EXCEPT !.verdict = verdict[p], !.session = session[p]],
    "GUARDIAN_APPROVED")

\* Mutant: the rejected target stays in state.json.
RequestKeepsTarget(p) ==
  ApplyVerdict(p, "CHANGES_REQUESTED", [mem[p] EXCEPT !.verdict = None],
               "BUILDING")

RequestChanges(p) ==
  ApplyVerdict(p, "CHANGES_REQUESTED",
    [mem[p] EXCEPT !.target = None, !.verdict = None], "BUILDING")

ReviewBlocked(p) == ApplyVerdict(p, "BLOCKED", mem[p], "BLOCKED")

-----------------------------------------------------------------------------
(* verify *)
Verifiable(p) == mem[p].status = "GUARDIAN_APPROVED" /\ HandoffStands(mem[p])

StartVerification(p) ==
  /\ pc[p] = "verify"
  /\ Verifiable(p)
  /\ Continue(p, mem[p], "VERIFYING", "verifying")
  /\ UNCHANGED <<exists, contract, artifacts, outputs, trees, sessions, history>>

(* git archive or tar fails: the command ends, state.json is left alone. *)
CheckoutFails(p) ==
  /\ pc[p] = "verifying"
  /\ Exit(p)
  /\ UNCHANGED <<exists, contract, state, artifacts, outputs, trees, sessions,
                 history>>

(* The final checks of contract.json as it is now, on the stored target. *)
RunChecks(p) ==
  /\ pc[p] = "verifying"
  /\ \E result \in BOOLEAN :
       LET target == mem[p].target
           evidence ==
             [commit |-> target, passed |-> result, checks |-> contract]
       IN /\ evidenceFile' = evidence
          /\ mem' = [mem EXCEPT ![p].evidence = evidence]
          /\ passed' = IF result
               THEN passed \cup {[commit |-> target, checks |-> contract]}
               ELSE passed
  /\ Goto(p, "evidence")
  /\ UNCHANGED <<exists, contract, state, handoffFile, verdictFile, readyFile,
                 outputs, trees, package, verdict, session, seen, sessions,
                 accepted, approvals, meddling>>

Verified(p) ==
  /\ pc[p] = "evidence" /\ mem[p].evidence.passed
  /\ Transition(mem[p], "VERIFIED")
  /\ Exit(p)
  /\ UNCHANGED <<exists, contract, artifacts, outputs, trees, sessions, history>>

VerificationFailed(p) ==
  /\ pc[p] = "evidence" /\ ~mem[p].evidence.passed
  /\ Continue(p, [mem[p] EXCEPT !.target = None, !.verdict = None,
                                !.evidence = None],
              "VERIFICATION_FAILED", "returning")
  /\ UNCHANGED <<exists, contract, artifacts, outputs, trees, sessions, history>>

ReturnToBuilder(p) ==
  /\ pc[p] = "returning"
  /\ Transition(mem[p], "BUILDING")
  /\ Exit(p)
  /\ UNCHANGED <<exists, contract, artifacts, outputs, trees, sessions, history>>

-----------------------------------------------------------------------------
(* gate *)
EvidenceIdentities(data) ==
  /\ evidenceFile # None /\ evidenceFile = data.evidence
  /\ evidenceFile.commit = data.target
  /\ evidenceFile.passed /\ evidenceFile.checks = contract

GuardianIdentities(data) ==
  /\ verdictFile # None /\ verdictFile = data.verdict
  /\ verdictFile.verdict = "APPROVED" /\ verdictFile.target = data.target
  /\ verdictFile.session = data.session

Shippable(p) ==
  /\ mem[p].status = "VERIFIED" /\ HandoffStands(mem[p])
  /\ EvidenceIdentities(mem[p]) /\ GuardianIdentities(mem[p])

CheckReady(p) ==
  /\ pc[p] = "gate"
  /\ Shippable(p)
  /\ Goto(p, "ready")
  /\ UNCHANGED <<exists, contract, state, artifacts, outputs, trees, mem, package,
                 verdict, session, seen, sessions, history>>

WriteReady(p) ==
  /\ pc[p] = "ready"
  /\ readyFile' = [commit |-> mem[p].target, session |-> mem[p].session]
  /\ Goto(p, "shipping")
  /\ UNCHANGED <<exists, contract, state, handoffFile, verdictFile, evidenceFile,
                 outputs, trees, mem, package, verdict, session, seen, sessions,
                 history>>

Ship(p) ==
  /\ pc[p] = "shipping"
  /\ Transition(mem[p], "READY_TO_SHIP")
  /\ Exit(p)
  /\ UNCHANGED <<exists, contract, artifacts, outputs, trees, sessions, history>>

-----------------------------------------------------------------------------
(* A StateError without a transition: the command ends, nothing is written. *)
Refused(p) ==
  /\ \/ pc[p] = "build" /\ ~MayBuild(p)
     \/ pc[p] = "built" /\ ~BuilderAtTarget
     \/ pc[p] = "handoff" /\ ~Acceptable(p)
     \/ pc[p] = "checks"
     \/ pc[p] = "assert" /\ ~Reviewable(p)
        /\ (mem[p].status # "AWAITING_REVIEW" \/ BelowLimit(p))
     \/ pc[p] = "reviewed" /\ Unmodified(p) /\ ~VerdictIsOwn(p)
     \/ pc[p] = "verify" /\ ~Verifiable(p)
     \/ pc[p] = "gate" /\ ~Shippable(p)
  /\ Exit(p)
  /\ UNCHANGED <<exists, contract, state, artifacts, outputs, trees, sessions,
                 history>>

(* A command killed between two writes. *)
Crash(p) ==
  /\ Faulty /\ pc[p] # "idle"
  /\ Exit(p)
  /\ UNCHANGED <<exists, contract, state, artifacts, outputs, trees, sessions,
                 history>>

(* Whoever works in a worktree - the Builder, a human, a Guardian that      *)
(* escapes its sandbox - may move it to any commit and leave it dirty.      *)
TouchWorktree(w) ==
  /\ head[w] # None
  /\ \E c \in Commits : head' = [head EXCEPT ![w] = c]
  /\ \E tidy \in BOOLEAN : clean' = [clean EXCEPT ![w] = tidy]
  /\ UNCHANGED <<exists, contract, state, artifacts, outputs, pc, mem, package,
                 verdict, session, seen, sessions, history>>

(* Someone edits contract.json in the task directory: its scope then admits *)
(* every target, its final checks are others, its max_review_cycles is any; *)
(* repository and base stay. The history remembers an edit made while a     *)
(* command is at work.                                                      *)
EditContract ==
  /\ exists /\ contract = "bound"
  /\ meddling = "undone" => Reedited
  /\ contract' = "edited"
  /\ meddling' = IF meddling = "none" /\ \E p \in Procs : pc[p] # "idle"
                 THEN "standing" ELSE meddling
  /\ UNCHANGED <<exists, state, artifacts, outputs, trees, locals, sessions,
                 accepted, approvals, passed>>

(* The edit is undone, with or without commands at work.                    *)
RestoreContract ==
  /\ contract = "edited"
  /\ contract' = "bound"
  /\ meddling' = IF meddling = "standing" THEN "undone" ELSE meddling
  /\ UNCHANGED <<exists, state, artifacts, outputs, trees, locals, sessions,
                 accepted, approvals, passed>>

-----------------------------------------------------------------------------
BuildStep(p) ==
  \/ StartBuilder(p) \/ BuilderAnswers(p) \/ BuilderFailed(p)
  \/ CompleteBuilder(p)

HandoffStep(p) ==
  \/ CheckHandoff(p) \/ BuilderChecksPass(p) \/ StoreHandoff(p)
  \/ AwaitReview(p)

ReviewStep(p) ==
  \/ AssertReviewable(p) \/ StartReview(p) \/ RevisionLimitReached(p)
  \/ GuardianAnswers(p)
  \/ GuardianBlocked(p) \/ RecordVerdict(p) \/ ApproveGuardian(p)
  \/ RequestChanges(p) \/ ReviewBlocked(p)

VerifyStep(p) ==
  \/ StartVerification(p) \/ CheckoutFails(p) \/ RunChecks(p)
  \/ Verified(p) \/ VerificationFailed(p) \/ ReturnToBuilder(p)

GateStep(p) == CheckReady(p) \/ WriteReady(p) \/ Ship(p)

Next ==
  \/ \E p \in Procs :
       \/ MakeDirectory(p) \/ SaveInitial(p) \/ OpenCommand(p)
       \/ \E given \in Package : OpenHandoff(p, given)
       \/ BuildStep(p) \/ HandoffStep(p) \/ ReviewStep(p) \/ VerifyStep(p)
       \/ GateStep(p) \/ Refused(p) \/ Crash(p)
  \/ \E w \in Worktrees : TouchWorktree(w)
  \/ EditContract \/ RestoreContract

Spec == Init /\ [][Next]_vars

-----------------------------------------------------------------------------
VerifiedCommits == {run.commit : run \in passed}

(* ready.json names a commit that was handed in, that the session it names  *)
(* approved, and that passed the final checks contract.json then listed -   *)
(* whatever commands overlapped or were killed ("Failed, missing,           *)
(* timed-out, or mismatched evidence cannot ship"). It is in the scope of   *)
(* the contract init bound and passed that contract's own final checks,     *)
(* unless contract.json was edited while a command was at work and the edit *)
(* undone: the digest is compared when a command opens, and then an edit    *)
(* that still stands lets no further command go on.                         *)
ReadyJustified ==
  readyFile # None =>
    /\ readyFile \in approvals /\ readyFile.commit \in accepted
    /\ readyFile.commit \in VerifiedCommits
    /\ meddling # "undone" =>
         /\ readyFile.commit \in InScope
         /\ [commit |-> readyFile.commit, checks |-> "bound"] \in passed

(* Why: the locals a command needs at each point are there, ...             *)
CommandsTyped ==
  \A p \in Procs :
    /\ pc[p] \notin {"idle", "created"} => mem[p] \in Data
    /\ pc[p] \in {"handoff", "checks", "store", "stored"} =>
         package[p] \in Package
    /\ pc[p] \in {"reviewing", "reviewed", "verdict"} =>
         session[p] \in 1 .. MaxSessions
    /\ pc[p] \in {"dispatch", "reviewing", "reviewed", "verdict"} =>
         /\ mem[p].handoff # None
         /\ meddling = "none" => mem[p].cycle < Limit
    /\ pc[p] = "verdict" => verdict[p] \in Verdict
    /\ pc[p] = "verifying" => mem[p].target \in Commits
    /\ pc[p] = "evidence" => mem[p].evidence \in Evidence
    /\ pc[p] \in {"ready", "shipping"} => mem[p].target \in Commits

(* ... every handoff, approval and passed verification that state.json or a *)
(* command's memory vouches for was given, by any command at any time ...   *)
Vouched(data) ==
  /\ data.handoff # None => data.handoff.target \in accepted
  /\ data.evidence # None /\ data.evidence.passed =>
       [commit |-> data.evidence.commit, checks |-> data.evidence.checks]
         \in passed
  /\ data.verdict # None /\ data.verdict.verdict = "APPROVED" =>
       [commit |-> data.verdict.target, session |-> data.verdict.session]
         \in approvals

(* ... what is on record was accepted and verified under the bound contract *)
(* as long as nobody edited contract.json under a command, ...              *)
UnderBoundContract(data) ==
  /\ data.evidence # None => data.evidence.checks = "bound"
  /\ data.handoff # None => data.handoff.target \in InScope
  /\ data.cycle <= Limit

StateGrounded ==
  state # None =>
    Vouched(state) /\ (meddling = "none" => UnderBoundContract(state))

(* ... an edit that stands keeps commands from starting, so that none but   *)
(* those at work when it was made could record anything under it ...        *)
EditsGrounded ==
  /\ contract = "edited" => exists
  /\ meddling = "standing" => contract = "edited"
  /\ meddling = "none" /\ contract = "edited" =>
       \A p \in Procs : pc[p] = "idle"

(* ... and a gate that loaded before the edit goes on with what it loaded.  *)
CommandGrounded(p) ==
  /\ pc[p] \notin {"idle", "created"} =>
       /\ Vouched(mem[p])
       /\ meddling = "none" \/ (pc[p] = "gate" /\ meddling = "standing") =>
            UnderBoundContract(mem[p])
  /\ pc[p] \in {"checks", "store"} /\ meddling = "none" =>
       package[p].target \in InScope
  /\ pc[p] = "stored" =>
       /\ package[p].target \in accepted
       /\ meddling = "none" => package[p].target \in InScope
  /\ pc[p] = "verdict" /\ verdict[p].verdict = "APPROVED" =>
       [commit |-> verdict[p].target, session |-> verdict[p].session] \in approvals
  /\ pc[p] = "ready" =>
       /\ [commit |-> mem[p].target, session |-> mem[p].session] \in approvals
       /\ mem[p].target \in accepted
       /\ mem[p].target \in VerifiedCommits
       /\ meddling # "undone" =>
            /\ mem[p].target \in InScope
            /\ [commit |-> mem[p].target, checks |-> "bound"] \in passed

Grounded ==
  EditsGrounded /\ StateGrounded /\ \A p \in Procs : CommandGrounded(p)

ReadyGrounded == CommandsTyped /\ Grounded /\ ReadyJustified

(* Commands that are run one after another, as a human at one terminal or   *)
(* one pipeline runs them; nothing in the code keeps two from overlapping.  *)
OneAtATime ==
  \A p, q \in Procs : pc[p] # "idle" /\ pc[q] # "idle" => p = q

(* From approval on, what state.json is bound to is what lies in the task   *)
(* directory, and it is about one target: the gate never meets stale        *)
(* artifacts of a run whose commands did not overlap.                       *)
ArtifactsStand ==
  state # None =>
    /\ state.status \in {"AWAITING_REVIEW", "GUARDIAN_APPROVED", "VERIFYING",
                         "VERIFIED", "READY_TO_SHIP"} =>
         handoffFile = state.handoff /\ handoffFile.target = state.target
    /\ state.status \in {"GUARDIAN_APPROVED", "VERIFYING", "VERIFIED",
                         "READY_TO_SHIP"} => GuardianIdentities(state)
    /\ state.status \in {"VERIFIED", "READY_TO_SHIP"} =>
         /\ evidenceFile = state.evidence /\ evidenceFile.commit = state.target
         /\ evidenceFile.passed

(* "ready evidence cannot be superseded by a later handoff". *)
ReadyStands ==
  [][state # None /\ state.status = "READY_TO_SHIP" =>
       UNCHANGED <<state, readyFile, handoffFile>>]_vars

DeliveryPhase  == IF state = None THEN "NONE" ELSE state.status
DeliveryTarget == IF state = None THEN None ELSE state.target

Delivery == INSTANCE Delivery WITH
              Sessions <- 1 .. MaxSessions,
              phase <- DeliveryPhase, target <- DeliveryTarget,
              approved <- approvals, verified <- VerifiedCommits

(* A run whose commands do not overlap follows the state flow of            *)
(* docs/BUILDER-GUARDIAN.md, whatever the Builder and the Guardian answer   *)
(* and wherever a command is killed.                                        *)
ImplementsDelivery == Delivery!Spec
=============================================================================
