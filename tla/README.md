# A verification project for codex-contractor

codex-contractor is a harness for coding agents: shell entry points and Python modules under
`scripts/lib` that create tasks, give one writer at a time the right to work on a task, coordinate a
Builder and a Guardian, route a task's risk, dispatch engineers, reviewers and verifiers, verify what they
produce, and hand it over as a pull request. Its state is files in a per-task directory and a telemetry log; its
concurrency is processes that read and write those files, and people and agents who move the worktree meanwhile.

This directory holds TLA+ models of its coordinating parts, the TLC configurations that check them on
small instances, and proofs (TLAPS) of what holds for every instance. `PROJECT.json` maps each definition
to the lines it models and lists the runs, the mutants that show each property can fail, the hazards, the
findings and the theorems.

## Inventory

| Component (`scripts/lib`) | State | Operations | Hard behaviour | Correct when | Status |
|---|---|---|---|---|---|
| Writer claim: `writer_claim*.py` | `writer.lock/owner.json`, `writer.operation.lock` (flock), `takeover.transaction.json`, `trajectory.jsonl` | acquire, inspect, heartbeat, release, takeover | unlocked acquire next to locked operations; a takeover that dies half-way; facts reconciled before they are used | one writer; claim files consistent; every displacement on record; an incomplete takeover fails closed | modelled, proved |
| Builder-Guardian coordinator: `builder_guardian*.py` | `state.json`, handoff, verdict, evidence and ready files, worktrees | init, build, handoff, review, verify, gate | whole-state write-back with no lock; kills between artifact and state; a contract edited and restored; any agent answer | only what was accepted, approved and verified ships; the state flow is kept | modelled, proved |
| Pull-request handoff: `pr_handoff*.py`, `pr_creation.py` | `pr-handoff.json`; the provider's pull requests | submit, authorize_retry | the provider's answer lost after it acted; pushes meanwhile; retries; overlapping submissions | the attempt allowance; recorded pull requests are the run's | modelled, proved |
| Final verification: `final_verification.py` | one invocation: deadline, output budget, child process, scratch tree | probe, materialise, run commands, collect | deadlines, processes that hang or hold their streams, a worktree that moves, output accounting | plan accounted for, budgets kept, verified only over the reviewed target, ends | modelled and proved but for the argv and path policies |
| Spawn telemetry: `spawn_telemetry*.py` | two JSON-lines files, each with a blocking lock | record, reconcile_pr | check and append in separate file operations; kills between append and answer; events that come after a reconciliation | an id once, one caller told, nothing told is lost; one summary per task run, of its whole log | modelled, proved |
| Risk routing, execution policy: `risk_routing.py`, `execution_policy.py` | none | pure decisions | precedence of triggers, elevation and downgrade; fallbacks | a trigger or an elevation is not lost; no fallback thinks less hard | modelled, as operators |
| Security review: `security_review*.py` | the sign-off state of a High Risk task | record an approval, move along with a change, clear a code review | sign-offs that are stale or of another reviewer; changes kept beside a sign-off; false claims about them | what is accepted has its sensitive paths signed off as they are | modelled, proved |
| Dispatches: `code_review_dispatch.py`, `software_engineer_dispatch.py`, `verifier_dispatch.py`, `dispatch_contract.py` | none of their own | probe, check, run, probe again, record | a target that moves while the runtime works; ids used twice; aborts after the work is done | one result per event id, over the target dispatched | the dispatches modelled, the fields of a contract not |
| Review workflow and evidence: `review_workflow.py`, `review_evidence.py` | the workflow bound to a HEAD, its last evidence, who has to review again | start, record_fix, accept_targeted_rereview | several rounds; fixes that return to an earlier commit; old evidence presented again | findings stay between their reviewer and their engineer | modelled, proved |
| Verification evidence: `verification_evidence.py` | `verification-evidence.json` | write, read, reconcile | HEADs looked up before they are used; a file that anyone may write | what is read as verified was approved as that commit | its control modelled, its parsing not |
| Orchestrator write boundary: `orchestrator_write_boundary.py` | `activation.json`, capabilities in memory, artifacts | activate, require_activation, write_artifact | a process that dies or restarts between record and capability | no engineer's work without a durable canary and an activation | activation modelled; artifact paths not |
| Pipeline state, bootstrap, discovery, selection: `pipeline_state*.py`, `task_*.py` | the task directories, `pipeline.md` in two layouts | bootstrap, read, replace, discover, select | a directory seen before its document is there; a slow or killed bootstrap; discovery while tasks move on | an offered task was active; no document overwritten by an initial one | modelled, proved |
| Retention: `retention.py` | one disposable file, a quarantine per cleanup | examine, move, examine again, unlink | the file replaced in between, by another or by one of a recycled identity; kills that leave the quarantine | only the file that was examined is destroyed | modelled, proved |
| LLM mutant adapter: `llm_mutant*.py` | scratch trees | one sandboxed call | - | - | not modelled: the validation of one answer |
| Shell entry points, hooks, skills | none | argument passing | - | - | not modelled |

Interactions. Components meet in the task directory, the worktree and the telemetry. A session acquires the writer claim
before it works in the task's worktree; a takeover reconciles the verification evidence with the worktree's HEAD. The
coordinator invokes the Builder and the Guardian as subprocesses and reads the files they leave. Risk routing
decides whether a code review needs a security sign-off, the execution policy which model may review; every dispatch
leaves a telemetry event, which the next one looks for; approved evidence admits a verifier, whose report becomes the
verification evidence. The handoff service calls two callbacks (find an existing pull request, create one) around its
own record.

## Modules

| Module | Models | Composed with |
|---|---|---|
| `WriterClaim` | the claim files, each manager invocation one system call at a time, sessions and their processes, the worktree and its evidence | refines `WriterOwnership` |
| `WriterOwnership` | abstract: one holder, reserve, grant, withdraw, displace and log in one step | |
| `BuilderGuardian` | the task directory, one program counter and one in-memory state per command, worktrees, arbitrary agents | refines `Delivery` |
| `Delivery` | abstract: submit, review, approve, verify, ship | |
| `PrHandoff` | the recorded handoff, callers between their read and their write, a provider and humans | |
| `FinalVerification` | one invocation with its clock, child process, budget and target | |
| `SpawnTelemetry` | both telemetry files and locks, each call one file operation at a time, kills and failures | refines `EventLog` |
| `EventLog` | abstract: one growing log, a summary per run taken of it at one moment | |
| `RiskRouting`, `ExecutionPolicy` | operators: the effective gear; the profile a role gets | used by `SecurityReview`, `CodeReview` |
| `SecurityReview` | the sign-off state as a value: its operations, validation and clearance | extends `RiskRouting` |
| `CodeReview` | a routed task: security reviewers, the orchestrator holding the state, dispatchers of code reviews, a moving worktree | composes `SecurityReview`, `ExecutionPolicy` |
| `ReviewLoop` | activation, engineers, the review workflow, verifier dispatches and the verification evidence | takes code reviews as `CodeReview` returns them |
| `TaskDirectory` | bootstrap, pipeline state, discovery, selection and retention, cut at their system calls | |
| `*Proofs` | the theorems about `WriterClaim`, `BuilderGuardian`, `PrHandoff`, `FinalVerification`, `SpawnTelemetry`, `CodeReview`, `ReviewLoop` and `TaskDirectory` | each extends its module |
| `MC*` | constants and symmetry sets for TLC | |

How code becomes actions:

- **WriterClaim.** Every method of `WriterClaimManager` is cut at its system calls. `acquire` is
  `AcquireMkdir` then `AcquireWriteClaim`; `release` is `ReleaseCheck` (flock, transaction, owner),
  `ReleaseUnlink`, `ReleaseRmdir`; `takeover` is `TakeoverCheck`, the three reconciliations, the transaction
  file, the new owner, the trajectory line and the removal of the transaction file. `inspect` reads the
  transaction file and the owner in two steps without the lock. `Interrupt` ends an invocation anywhere: its
  flock goes, its files stay, a killed `write_json` may leave a temporary file that later makes `rmdir`
  fail. A session is one value for the pair (owner, session_id).
- **BuilderGuardian.** A command loads `state.json` into `mem` (`Open`), works, and writes all of it back
  (`Transition`); files written before the transition are steps of their own. A digest in `state.json` is
  the value it is the digest of. The Builder and the Guardian leave anything in their output files, and
  worktrees move under the commands; `fingerprint()` is the worktree's HEAD and whether its status is empty, taken
  before (`StartReview`) and after (`Unmodified`) the Guardian. `contract.json` may be edited (`EditContract`) and the edit
  undone (`RestoreContract`) at any time: the digest is compared when a command opens (`ContractBound`), while scope, final
  checks and `max_review_cycles` are read from the file at each use. The history variable `meddling` says whether an edit was made
  while a command was at work, and whether it still stands or was undone.
- **PrHandoff.** `submit` is find, read, then either link or reserve-call-record; `authorize_retry` is
  read, then store. The creator may open a pull request or not, and answer or raise in either case.
- **FinalVerification.** The harness is one thread of steps between Git calls, reads of the child's streams
  and waits. A probe reads HEAD, status and index flags in three steps. Output is counted in units; undecodable
  bytes triple when decoded.
- **SpawnTelemetry.** `record` is `LockToRecord`, `CheckDuplicate`, `CopyEvents`, `ReplaceEvents`, `ReadBack`;
  `reconcile_pr` is `LockEventsToReconcile`, `LockRecords`, `Match`, `SummarizeRun`, `ReplaceRecords`. An append copies
  the file and replaces it, so nothing is ever torn, but what was appended in between would be lost if the lock did
  not exclude it. `Abort` ends a call at any step, by a kill or an error, and gives its locks back as the kernel does.
  A token metric is a number or unknown; a summary says which are unknown.
- **CodeReview.** A commit is the pair of what it holds at sensitive and at other paths; `git diff --name-only` is
  comparing these. The orchestrator's operations on the security-review state are `RecordApproval` and `ForChange` (with true
  or false claims about a change) and `ForGitChange`; each builds a new state or refuses. `Dispatch` probes and checks,
  `Reprobe` is the second look, `Record` the telemetry and the return, `Abort` any refusal or failure in between.
- **ReviewLoop.** `Activate` and `Restart` are the boundary: the record survives a restart, the capability does not.
  `EngineerWork` and `CodeReviewed` are dispatches that came through, leaving their event and evidence.
  `StartWorkflow`, `RecordFix` and `AcceptTargetedRereview` are `ReviewWorkflow`. A verifier dispatch is `StartVerifier`
  (contract, target, unused id), `VerifierRan`, `FinishVerifier` (second look and record). The approved and the
  checked-out HEAD are looked up (`LookUp`) before a verifier starts or evidence is written or read, and may be stale by
  then. The evidence is a file that is not tied to a dispatch: `WriteEvidence` takes any report on any commit that passes
  `_validate_verdict` and `_require_freshness`, and `ReplaceEvidence` is a verifier that replaces the file itself, as the
  harness-verify skill tells it to, with nothing checked. The history variable `dispatched` says that the process has
  dispatched an engineer since it started.
- **TaskDirectory.** A bootstrap is `MakeDirectory`, whose exclusive mkdir decides between two of one id, then
  `InstallInitial`, a rename; a state change reads (current layout, then the old one) and replaces; discovery lists the directories and then reads
  their documents one by one, in any order, each in one or two reads; `Select` offers what was found. A cleanup
  is `Examine`, `MoveToQuarantine`, `RequireIdentity`, `UnlinkQuarantined`. A file is its identity, and an identity
  that is in use nowhere may be used again. `steady` and `seen` are history variables for `DiscoveryTrue` only.

## Runs

| Run | Question | Outcome |
|---|---|---|
| `claim` | two overlapping, interruptible invocations, three sessions | the claim is safe and implements the abstract ownership |
| `claim_live` | does every reservation and every takeover settle without interruptions? | yes |
| `delivery` | commands one after another, killed anywhere, a contract edited and restored, arbitrary agents | the state flow is kept, the artifacts are those of the state, and what is shipped stays shipped |
| `delivery_overlap` | two commands at once, a contract edited under them and restored | what a ready record names was handed in, approved and verified; it is in the bound scope unless an edit made under a command was undone |
| `delivery_supersede` | can a shipped task be superseded by a command that overlaps? | yes, see findings |
| `handoff` | operations one after another, any may die | the allowance is kept |
| `handoff_overlap` | do overlapping submissions keep the allowance? | no, see findings |
| `final_verification` | everything a command and a worktree can do to one invocation | accounted, bounded, timely, ends |
| `telemetry` | two processes record and reconcile, killed anywhere | one log, summaries of it that add up, every call ends |
| `security` | sign-offs, changes, false claims and code reviews over a moving worktree | nothing accepted without its sensitive paths signed off, by one reviewer; reviews independent |
| `review` | rounds of findings and fixes, overlapping verifiers, evidence written by anyone, stale look-ups, restarts | what is read as verified was approved by a review on record; findings stay bound; gates hold |
| `tasks` | two processes at once over two tasks and a disposable file, killed anywhere | discovery is right about every task; nothing else destroyed |

**Bounds.** `claim`: two invocations are what is needed for every pair of operations to interleave, and three
sessions let a displaced session, its successor and a third party meet; two displacements let a second takeover
find the traces of a first; one interruption anywhere (`MaxFaults`) leaves every partial file state. `delivery`: a review
limit of two is the least in which a task is sent back and returns, two targets in scope let stale artifacts be about
another target, one outside scope shows the scope check. `delivery_overlap` uses one of each, so that two commands at
once are feasible, and no second edit of the contract once one made under a command was undone (`Reedited`; `delivery` has
it: nothing is promised of scope by then). `handoff`: two runs, two commits, three pull requests (first, second, and one opened by hand).
`final_verification`: three commands, so that one can fail with one before and one after it; output units such that one
command can exhaust its own limit and two the total; a deadline that commands can meet or miss; a horizon past
every wait. `telemetry`: two processes meet in every pair of steps; three events share two ids, so that a
duplicate comes from another caller, and two runs and two pull requests let each be reconciled with either.
`security`: three commits of which two agree on the sensitive paths and two on the others, so that a change can be
kept, has to be signed off again, or returns; two reviewers and two sign-off ids let a stale or a foreign
sign-off be presented; two kept changes (`MaxPreserved`) make a chain; the seven requests cover every way
routing decides. `review`: two commits let a fix return to the first, two engineers and reviewers let evidence be the
wrong one's, two verifiers share one id, and two review ids let the evidence before be presented again; of the two
reports, one is in order under the alias `passed` and one says verified over a failed tier. `tasks`: one
task of each layout, two repositories, two file identities of which one is recycled, and any two calls at once. The
theorems lift these bounds. The counters in the models (`MaxDisplacements`, `MaxFaults`, `MaxSessions`, `MaxPulls`,
`MaxPreserved`, `Horizon`) and `Reedited` are the only bounds in guards. Sessions, commits, callers, reviewers and runs are
compared for equality only, which is why symmetry is sound; the runs with liveness properties use none.

**Deadlock** is checked for `delivery`, `delivery_overlap`, `handoff`, `telemetry`, `security`, `review` and `tasks`. Elsewhere
the system may really stop: an incomplete takeover waits for a human, and a finished invocation is at its end.

**Fairness.** `claim_live` assumes of each invocation under way that it takes its next step (`WF_vars(Step(p))`):
no step waits for another process, since the operation lock is tried with `LOCK_NB` and fails at once. Nobody has
to start an invocation, and with interruptions there is no liveness: recovery is a human's.
`final_verification` assumes that the harness thread is scheduled and that time does not stop; a wait that has
run out is over before the clock moves on, so delays of the scheduler are not counted as time of the invocation.
Neither the sandboxed command nor the people at the worktree are fair. `telemetry` assumes that a process that runs
goes on (`WF`), and that a blocking `flock`, which is free again and again, is granted to each of its waiters in
the end (`SF_vars(Take(p))`); nobody has to call the store. The other modules promise nothing in time and assume nothing.

## Proofs

All for arbitrary constants. Theorems about a run's property say for every instance what the run shows for one.

- `WriterClaimProofs`. `ClaimInvariant`: `TypeOK /\ ClaimConsistent` is inductive, for any number of
  invocations, sessions, displacements and faults. `ClaimConsistent` has to say how far each invocation got
  (who holds the flock, what stands between mkdir and owner.json, what a takeover has written) because the acquire is unlocked: it is
  safe only since no locked operation leaves a directory without owner except the release that is about to
  remove it. From it: `IncompleteTakeoverFailsClosed`, `TakeoverOverReconciled`, and `OwnershipImplemented`,
  the refinement (initial states and every step; the audit trail is the trajectory plus an installed but not
  yet appended transaction). `SingleWriter` adds the discipline of the callers and needs `OneOperator`:
  the authorization does not name the writer it was given for, so two takeovers ordered at once could displace
  a writer nobody confirmed stopped. `NoSilentDisplacement` draws from the refinement what an auditor relies on: the claim
  passes from one session to another only in a step that puts that displacement on record, and nothing on record is lost.
- `BuilderGuardianProofs`. `GroundedInvariant`: whatever a state file or a command's memory vouches for - a handoff, an
  approval, a passed verification - was really given. This is inductive although commands overwrite each other's
  state, because every fact is stated of every copy. That it was given under the bound contract (`UnderBoundContract`) holds of
  every copy until the contract is edited with a command at work. An edit that stands lets no further command open, so
  none but the commands under way can record anything under it, and a gate among them goes on with the state it loaded before
  (`EditsGrounded`, `CommandGrounded`): a ready record is then still for a commit in the bound scope. Once such an edit is
  undone, the next command cannot tell, and the scope of what it loads is anyone's. From it `ReadyIsJustified` and
  `ReadyIsGrounded`, for any number of overlapping and dying commands.
  What is on file besides `state.json` only agrees with it as long as commands do not overlap (`delivery_supersede` is what
  happens when they do). Nothing in the code keeps them apart, so `OneAtATime` is a hypothesis on the behaviour
  and not an assumption on a constant: `Spec /\ []OneAtATime => ...`, for any number of processes whose commands follow
  one another, each of which may die at any step; `OneProcessIsEnough` says that one process alone satisfies it, as
  in the `delivery` run. The invariant `Sequential` adds two parts to the grounded one. `CommandCurrent`: the command
  under way remembers the state on file, except for evidence it has stored and not yet recorded, and the status there is that of its
  program point. `FilesStand`: `ArtifactsStand`, and no state without a directory. An artifact is written under a status that
  demands nothing of it yet, and the state that names it is saved after it: that is why a crash between the two steps leaves
  `FilesStand` intact, and what the commands' part of the invariant has to know. From it `ArtifactsStandSequentially`, `ReadyStandsSequentially` and
  `DeliveryImplemented`, the refinement of `Delivery` step by step; and, through the refinement, `ShippedIsDelivered`.
- `PrHandoffProofs`. `HandoffInvariant`, for overlapping callers: the record is always valid and names a pull request
  opened for its run; each operation under way remembers a valid record. From it `TypeCorrect` and `RecordedPull`. With
  operations that do not overlap (`ASSUME ~Overlap`), the strengthened `AllowanceInv` says that the one
  operation under way knows the record (what it read, or what it reserved), which gives `EveryCallReserved`,
  `AllowanceKept` and `NothingGivenBack`. The assumption is needed: `handoff_overlap` refutes the allowance without it.
- `FinalVerificationProofs`. Three parts besides the types. `ResultsOK`: while the invocation goes on, the results are those of
  the first commands of the plan, all fine; the lemma `Concluded` says that what is added for the commands not run
  completes them. `TargetOK`: a part that strayed is off, so none that the probe has read as reviewed has strayed, and once
  it has read all three, nothing has. `ClockOK`: a command's deadline is within the invocation's, and the wait for its
  exit adds the grace at most. They give `PlanIsAccounted`, `VerifiedOnTheTarget` and `DeadlineHolds`.
  `OutputIsBounded` needs a fourth, `OutputOK`: while the invocation goes on, what its results hold and what is left of the
  budget make up the invocation's output, exactly; it could not be inductive with `<=`, as the reasons given for the commands not
  run (`ConcludedWithin`) may use up all that is left.
- `SpawnTelemetryProofs`. The holder of a lock is the only one past the step that takes it, so what it has read - that an
  id is unused, what it copied, what it summarized - is still true when it replaces the file. That carries
  `LogImplemented`, the refinement of `EventLog` including its `told`; `OnceOfTheLog`; `NothingRewritten`, although every
  append installs a copy made earlier; and, through the refinement, `ToldIsKept`. `ReconciledInFull` proves the whole of
  `ReconciledOnceAndInFull`: the digest of any log splits the tokens of a run by role and effort without loss or overlap
  (`DigestAddsUp`, from `SumsSplit`). It uses `MetricsAreCounts`, which `_metric` and `TOKEN_FIELDS` enforce of every event:
  the same finitely many metrics, each a non-negative integer or unknown.
- `CodeReviewProofs`. A state that holds a sign-off holds with it the changes since; the invariant says that
  every commit of that chain has the sensitive paths of the one that was signed, as far as the kept changes are what Git
  reports (`LeadOn`): a claim that is not is only refused when the state is used, and nothing is signed off beyond it. From it `AcceptedIsSignedOff`, through
  every stale sign-off and false claim; `SignedOffByOne` because a re-review is compared with the last reviewer and
  dropping a sign-off keeps who gave it; `ReviewsIndependent` from the telemetry and the policy.
- `ReviewLoopProofs`. `Backed`: what was looked up may be stale, but it was approved once, by a review that is on record
  as is the work it is about; of the evidence file nothing is assumed. `Bound`: a workflow waits for the reviewer of all it
  took. `Gated`: work comes after activation, activation after the canary, and a process that has dispatched since it started
  holds a capability. From it `ShippedIsReviewed`, `FindingsBound` and `GatesHold`, for any number of verifiers that overlap.
- `TaskDirectoryProofs`. Nothing is locked, so `Sound` says what each call relies on instead: a bootstrap past its
  mkdir on being the only one (`OneInstaller`) to give its task a document, a session on the task having one, a cleanup on
  the identity it unlinks. `Right`: what a discovery has found and what it has still to read cover what was active all along. From it `DiscoveryIsTrue` and `NothingElseDestroyed`, for any number of processes and tasks.

Sums are defined by recursion (`SumSeq` over a sequence, `SumOver` over a set), and the induction theorems of the library take
an operator as a parameter, which the provers cannot instantiate. The proofs use least counterexamples instead: a non-empty
set of naturals has a least element (`Least`, from `NatLessThanWellFounded` and `WFMin`), and so a non-empty family of
subsets of a finite set has a member that leaves the family with any element it loses (`Smallest`). From these follow that the recursive
definitions have a value, that it is the only one (`SumsUnique`, `SumsAgree`), that the order of the members makes no
difference (`FoldAddsUp`), and that sums over disjoint sets add up (`SumsJoin`).

Every invariant, action property and refinement that a passing run checks is thereby a theorem, some of them under the
hypothesis stated above. Only model-checked: the liveness properties (`OwnerlessLockSettles`, `TransactionSettles`, `Ends`,
`EveryCallEnds`), which are out of the prover's reach, as is everything about `ENABLED`.

Assumptions the models make of what is outside: an agent's session writes where it is told to, except in worktrees;
security sign-offs are really those of the reviewer they name; directories are listed in any order; a process that is
killed loses its locks; a caller passes on the HEAD its workflow approved when it last looked, and the worktree it found
then; one process at a time holds capabilities and dispatches engineers; a session replaces the document of a task only by
one it made from what it read there, and a document of the old layout was there from the start; Git reads what it is given (the
final verification writes to its standard input without a deadline). A file whose identity is recycled counts as the one
that was examined, as it does for the code.

## Findings

1. A command that loaded the state before the task shipped overwrites `READY_TO_SHIP` afterwards
   (`delivery_supersede`).
2. Two submissions at once both call the creator (`handoff_overlap`).

Limits of the code that the models contain but that no run is spent on: `inspect` can return the successor of a takeover that is
still incomplete, as it takes no lock; what a takeover reconciled may no longer hold when it installs its successor; a
failed checkout leaves a task in `VERIFYING`, which no command admits; after an existing pull request was
recorded and closed, a run can neither submit nor be authorized; a recorder that is killed after its append is refused as a
duplicate when it tries again; a bootstrap that is killed before its document blocks its id and every discovery; a
cleanup that is killed leaves its file in a quarantine no later one visits; an approval of an earlier round is accepted
when a fix returns to its commit; an authorization that is stored while a submission waits for the provider is overwritten
by it. Two limits decide what can be claimed at all:

- `contract.json` is compared with its digest when a command opens and read again later
  (`builder_guardian_state.py:64-72`, 82-86, 203-209). An edit made during a handoff and undone before the next command
  lets a target outside the bound scope be accepted, and no later command looks at the scope again: it can be approved,
  verified by the bound checks and shipped. An edit during a verification likewise lets other checks be run, which the gate
  only refuses by comparing the evidence with the file as it is then. `ReadyJustified` claims scope and bound checks only where no
  such edit was undone.
- `verification-evidence.json` is not tied to a verifier's dispatch (`verification_evidence.py:80-90`), and the verifier writes
  it before the second probe and the telemetry record. What is read as verified names a commit that was approved and a
  report without a failed tier; that a dispatched verifier found so is not claimed.

## Not modelled, and why

`transitions.jsonl`, the status command and observations (written or read for people only); the bytes of a file, so that a
save of `state.json` is one step; the argv, interpreter, tool-root and manifest-path policies of the final
verification (one refusal stands for all of them: they decide on strings, without state) and the flags of the
sandbox; the fields of contracts, envelopes, evidence and pipeline documents beyond those a decision depends on, and
their (de)serialisation (`dispatch_contract.py`, `security_review_evidence.py`, most of `review_evidence.py`), which
refuse or pass a value without state; path scopes and artifact locations (string patterns); clocks and timestamps of
claims (heartbeats expire nothing in the code). The LLM mutant adapter and the shell wrappers have hardly any state.

## Plan

Done: every module above and its proofs. What is left, in this order:

1. The composition of `CodeReview` with `ReviewLoop` over one telemetry, in which evidence is returned by the dispatches of
   the first instead of the action `CodeReviewed`; and of both with `SpawnTelemetry` through `EventLog`, in place of
   telemetry as a set.
2. The overlap of two path scopes in `dispatch_contract.py` as an operator, compared with its definition over bounded
   patterns: no path may be both allowed and prohibited.
