----------------------------- MODULE WriterClaim -----------------------------
(***************************************************************************)
(* The per-task writer claim of scripts/lib/writer_claim.py: the files of  *)
(* one task directory, the manager invocations that read and write them    *)
(* one system call at a time, and the sessions that rely on the claim.     *)
(*                                                                         *)
(* A session value stands for the (owner, session_id) pair of an identity; *)
(* repository, branch and worktree are those of the task.                  *)
(***************************************************************************)
EXTENDS Naturals, Sequences, FiniteSets

CONSTANTS
  Procs,             \* manager invocations that may be in progress together
  Sessions,          \* writer sessions
  Operators,         \* the invocations through which humans order takeovers
  Heads,             \* commits the task's worktree may be at
  NoSession,         \* no owner.json
  NoEvidence,        \* no verification-evidence.json
  NoTxn,             \* no takeover.transaction.json
  Free,              \* writer.operation.lock is not held
  MaxDisplacements,  \* bound: takeovers installed in one behaviour
  MaxFaults          \* bound: invocations killed or hit by an I/O error

ASSUME NoSessionAssumption == NoSession \notin Sessions
ASSUME NoEvidenceAssumption == NoEvidence \notin Heads
ASSUME FreeAssumption == Free \notin Procs
ASSUME BoundsAssumption == MaxDisplacements \in Nat /\ MaxFaults \in Nat
ASSUME OperatorsAssumption == Operators \subseteq Procs

(* Takeovers are ordered through one invocation at a time. *)
OneOperator == \A p, q \in Operators : p = q

(* One trajectory.jsonl event: who was displaced by whom, told apart from  *)
(* another takeover of the same pair by its time.                          *)
Displacement == [at : Nat, previous : Sessions, successor : Sessions]
ASSUME NoTxnAssumption == NoTxn \notin Displacement

VARIABLES
  \* the task directory
  lock,        \* writer.lock/ exists
  owner,       \* the session in writer.lock/owner.json, or NoSession
  stray,       \* a dead invocation left a temporary file in writer.lock/
  oplock,      \* the invocation holding writer.operation.lock, or Free
  txn,         \* takeover.transaction.json
  traj,        \* the displacements in trajectory.jsonl
  \* the task's worktree and evidence, and the sessions' processes in it
  head, dirty, evidence, running,
  \* what the callers know: sessions told they own the claim, and sessions
  \* a human has confirmed stopped
  holds, stopped,
  \* the invocations
  pc, sess, prev, idHead, seen,
  faults       \* invocations interrupted so far

files   == <<lock, owner, stray, txn, traj>>
work    == <<head, dirty, evidence, running>>
callers == <<holds, stopped>>
locals  == <<sess, prev, idHead, seen>>
vars    == <<files, oplock, work, callers, pc, locals, faults>>

(* Program points with the operation lock held. *)
TakeoverLabels ==
  {"git", "scan", "evidence", "commit", "install", "append", "clear"}
LockedLabels == {"heartbeat", "unlink", "rmdir"} \cup TakeoverLabels
Labels ==
  {"idle", "acquiring", "inspecting", "ordered"} \cup LockedLabels

TypeOK ==
  /\ lock \in BOOLEAN /\ stray \in BOOLEAN /\ dirty \in BOOLEAN
  /\ owner \in Sessions \cup {NoSession}
  /\ oplock \in Procs \cup {Free}
  /\ txn \in Displacement \cup {NoTxn}
  /\ traj \in Seq(Displacement)
  /\ head \in Heads /\ evidence \in Heads \cup {NoEvidence}
  /\ running \subseteq Sessions /\ holds \subseteq Sessions
  /\ stopped \subseteq Sessions
  /\ pc \in [Procs -> Labels]
  /\ sess \in [Procs -> Sessions \cup {NoSession}]
  /\ prev \in [Procs -> Sessions \cup {NoSession}]
  /\ seen \in [Procs -> Sessions \cup {NoSession}]
  /\ idHead \in [Procs -> Heads]
  /\ faults \in Nat

Init ==
  /\ lock = FALSE /\ owner = NoSession /\ stray = FALSE /\ txn = NoTxn
  /\ traj = <<>>
  /\ oplock = Free
  /\ head \in Heads /\ dirty = FALSE /\ evidence = NoEvidence
  /\ running = {} /\ holds = {} /\ stopped = {}
  /\ pc = [p \in Procs |-> "idle"]
  /\ sess = [p \in Procs |-> NoSession]
  /\ prev = [p \in Procs |-> NoSession]
  /\ seen = [p \in Procs |-> NoSession]
  /\ idHead = [p \in Procs |-> head]
  /\ faults = 0

Goto(p, label) == pc' = [pc EXCEPT ![p] = label]
\* Mutant: the flock is shared, not exclusive.
SharedOpLock(p) == oplock' = p
AcquireOpLock(p) == oplock = Free /\ oplock' = p
ReleaseOpLock == oplock' = Free

(* inspect() under the operation lock: no transaction file, an owner file.  *)
\* Mutant: the transaction file is not looked for.
OwnerFilePresent == lock /\ owner # NoSession
Trusted == txn = NoTxn /\ lock /\ owner # NoSession

-----------------------------------------------------------------------------
(* acquire: mkdir is the atomic decision; owner.json follows. It takes no   *)
(* operation lock.                                                          *)
\* Mutant: the directory may exist already.
AcquireExisting(p, s) ==
  /\ pc[p] = "idle" /\ s \notin stopped
  /\ txn = NoTxn
  /\ lock' = TRUE
  /\ sess' = [sess EXCEPT ![p] = s]
  /\ Goto(p, "acquiring")
  /\ UNCHANGED <<owner, stray, txn, traj, oplock, work, callers, prev, idHead,
                 seen, faults>>

AcquireMkdir(p, s) ==
  /\ pc[p] = "idle" /\ s \notin stopped
  /\ ~lock
  /\ lock' = TRUE
  /\ sess' = [sess EXCEPT ![p] = s]
  /\ Goto(p, "acquiring")
  /\ UNCHANGED <<owner, stray, txn, traj, oplock, work, callers, prev, idHead,
                 seen, faults>>

AcquireWriteClaim(p) ==
  /\ pc[p] = "acquiring"
  /\ owner' = sess[p]
  /\ holds' = holds \cup {sess[p]}
  /\ Goto(p, "idle")
  /\ UNCHANGED <<lock, stray, txn, traj, oplock, work, stopped, locals, faults>>

(* inspect without the operation lock (the CLI command, and acquire when    *)
(* the directory exists): the transaction file is looked for first, owner   *)
(* read afterwards. NoSession in seen: ClaimRecoveryRequiredError.          *)
InspectTransaction(p) ==
  /\ pc[p] = "idle"
  /\ txn = NoTxn
  /\ Goto(p, "inspecting")
  /\ UNCHANGED <<files, oplock, work, callers, locals, faults>>

InspectOwner(p) ==
  /\ pc[p] = "inspecting"
  /\ seen' = [seen EXCEPT ![p] = owner]
  /\ Goto(p, "idle")
  /\ UNCHANGED <<files, oplock, work, callers, sess, prev, idHead, faults>>

-----------------------------------------------------------------------------
(* heartbeat: checked and written under the operation lock. *)
HeartbeatCheck(p, s) ==
  /\ pc[p] = "idle" /\ s \notin stopped
  /\ AcquireOpLock(p)
  /\ Trusted /\ owner = s
  /\ sess' = [sess EXCEPT ![p] = s]
  /\ Goto(p, "heartbeat")
  /\ UNCHANGED <<files, work, callers, prev, idHead, seen, faults>>

HeartbeatWrite(p) ==
  /\ pc[p] = "heartbeat"
  /\ owner' = sess[p]
  /\ holds' = holds \cup {sess[p]}
  /\ ReleaseOpLock
  /\ Goto(p, "idle")
  /\ UNCHANGED <<lock, stray, txn, traj, work, stopped, locals, faults>>

(* release: owner.json first, then the directory, which rmdir refuses to    *)
(* remove when anything is left in it.                                      *)
ReleaseCheck(p, s) ==
  /\ pc[p] = "idle" /\ s \notin stopped /\ s \notin running
  /\ AcquireOpLock(p)
  /\ Trusted /\ owner = s
  /\ sess' = [sess EXCEPT ![p] = s]
  /\ holds' = holds \ {s}
  /\ Goto(p, "unlink")
  /\ UNCHANGED <<files, work, stopped, prev, idHead, seen, faults>>

ReleaseUnlink(p) ==
  /\ pc[p] = "unlink"
  /\ owner' = NoSession
  /\ Goto(p, "rmdir")
  /\ UNCHANGED <<lock, stray, txn, traj, oplock, work, callers, locals, faults>>

\* Mutant: the directory is left behind.
ReleaseKeepsDirectory(p) ==
  /\ pc[p] = "rmdir"
  /\ ReleaseOpLock
  /\ Goto(p, "idle")
  /\ UNCHANGED <<files, work, callers, locals, faults>>

ReleaseRmdir(p) ==
  /\ pc[p] = "rmdir"
  /\ lock' = stray
  /\ ReleaseOpLock
  /\ Goto(p, "idle")
  /\ UNCHANGED <<owner, stray, txn, traj, work, callers, locals, faults>>

-----------------------------------------------------------------------------
(* takeover. A human confirms that the present owner stopped and orders the *)
(* takeover. The authorization (confirmed_stopped, identity, reference,     *)
(* rationale) does not name the writer it is about, so nothing of it is     *)
(* left to compare with the claim found later.                              *)
OrderTakeover(p, s) ==
  /\ p \in Operators /\ pc[p] = "idle" /\ s \notin stopped
  /\ Trusted /\ owner \in stopped
  /\ Len(traj) < MaxDisplacements
  /\ sess' = [sess EXCEPT ![p] = s]
  /\ idHead' = [idHead EXCEPT ![p] = head]
  /\ Goto(p, "ordered")
  /\ UNCHANGED <<files, oplock, work, callers, prev, seen, faults>>

TakeoverCheck(p) ==
  /\ pc[p] = "ordered"
  /\ AcquireOpLock(p)
  /\ Trusted /\ owner # sess[p]
  /\ prev' = [prev EXCEPT ![p] = owner]
  /\ Goto(p, "git")
  /\ UNCHANGED <<files, work, callers, sess, idHead, seen, faults>>

(* The reconciliation reads Git, then the process table, then the evidence. *)
(* The order's own session is among the ignored ancestor processes.         *)
GitReconciled(p)      == idHead[p] = head /\ ~dirty
\* Mutant: the process table is not scanned.
ScanSkipped(p) == TRUE
NoActiveProcesses(p)  == running \ {sess[p]} = {}
EvidenceReconciled(p) == evidence \in {NoEvidence, idHead[p]}

Reconcile(p, from, check, to) ==
  /\ pc[p] = from
  /\ check
  /\ Goto(p, to)
  /\ UNCHANGED <<files, oplock, work, callers, locals, faults>>

TakeoverGit(p)      == Reconcile(p, "git", GitReconciled(p), "scan")
TakeoverScan(p)     == Reconcile(p, "scan", NoActiveProcesses(p), "evidence")
TakeoverEvidence(p) == Reconcile(p, "evidence", EvidenceReconciled(p), "commit")

TakeoverRefused(p) ==
  /\ \/ pc[p] = "ordered" /\ ~(oplock = Free /\ Trusted /\ owner # sess[p])
     \/ pc[p] = "git" /\ ~GitReconciled(p)
     \/ pc[p] = "scan" /\ ~NoActiveProcesses(p)
     \/ pc[p] = "evidence" /\ ~EvidenceReconciled(p)
  /\ oplock' = IF oplock = p THEN Free ELSE oplock
  /\ Goto(p, "idle")
  /\ UNCHANGED <<files, work, callers, locals, faults>>

\* Mutant: the displaced claim is missing from the event.
SuccessorOnly(p) == [at |-> Len(traj), successor |-> sess[p]]

DisplacementBy(p) ==
  [at |-> Len(traj), previous |-> prev[p], successor |-> sess[p]]

TakeoverWriteTransaction(p) ==
  /\ pc[p] = "commit"
  /\ txn' = DisplacementBy(p)
  /\ Goto(p, "install")
  /\ UNCHANGED <<lock, owner, stray, traj, oplock, work, callers, locals, faults>>

TakeoverInstall(p) ==
  /\ pc[p] = "install"
  /\ owner' = sess[p]
  /\ Goto(p, "append")
  /\ UNCHANGED <<lock, stray, txn, traj, oplock, work, callers, locals, faults>>

\* Mutant: the existing trajectory is not copied before the event is added.
TakeoverRewritesTrajectory(p) ==
  /\ pc[p] = "append"
  /\ traj' = <<DisplacementBy(p)>>
  /\ Goto(p, "clear")
  /\ UNCHANGED <<lock, owner, stray, txn, oplock, work, callers, locals, faults>>

TakeoverAppendTrajectory(p) ==
  /\ pc[p] = "append"
  /\ traj' = Append(traj, DisplacementBy(p))
  /\ Goto(p, "clear")
  /\ UNCHANGED <<lock, owner, stray, txn, oplock, work, callers, locals, faults>>

\* Mutant: the transaction file is kept.
TakeoverKeepsTransaction(p) ==
  /\ pc[p] = "clear"
  /\ holds' = holds \cup {sess[p]}
  /\ ReleaseOpLock
  /\ Goto(p, "idle")
  /\ UNCHANGED <<files, work, stopped, locals, faults>>

TakeoverClearTransaction(p) ==
  /\ pc[p] = "clear"
  /\ txn' = NoTxn
  /\ holds' = holds \cup {sess[p]}
  /\ ReleaseOpLock
  /\ Goto(p, "idle")
  /\ UNCHANGED <<lock, owner, stray, traj, work, stopped, locals, faults>>

-----------------------------------------------------------------------------
(* An invocation killed, or ended by an I/O error, between two system       *)
(* calls. The flock goes with its descriptor; a killed write_json leaves    *)
(* its temporary file behind.                                               *)
WritingInLock(p) == pc[p] \in {"acquiring", "heartbeat", "install"}

Interrupt(p) ==
  /\ pc[p] # "idle" /\ faults < MaxFaults
  /\ faults' = faults + 1
  /\ stray' \in {stray, stray \/ WritingInLock(p)}
  /\ oplock' = IF oplock = p THEN Free ELSE oplock
  /\ Goto(p, "idle")
  /\ UNCHANGED <<lock, owner, txn, traj, work, callers, locals>>

-----------------------------------------------------------------------------
(* The callers: sessions start processes in the worktree only while they    *)
(* were told they own the claim, and stop them before a release; an orphan  *)
(* process may outlive its session. A human confirms a session stopped only *)
(* when none of its invocations runs, and it acts no more.                  *)
StartWork(s) ==
  /\ s \in holds \ stopped
  /\ running' = running \cup {s}
  /\ UNCHANGED <<files, oplock, head, dirty, evidence, callers, pc, locals,
                 faults>>

StopWork(s) ==
  /\ s \in running
  /\ running' = running \ {s}
  /\ UNCHANGED <<files, oplock, head, dirty, evidence, callers, pc, locals,
                 faults>>

EditWorktree(s) ==
  /\ s \in running
  /\ head' \in Heads /\ dirty' \in BOOLEAN
  /\ UNCHANGED <<files, oplock, evidence, running, callers, pc, locals, faults>>

RecordEvidence(s) ==
  /\ s \in running /\ ~dirty
  /\ evidence' = head
  /\ UNCHANGED <<files, oplock, head, dirty, running, callers, pc, locals, faults>>

ConfirmStopped(s) ==
  /\ s = owner /\ s \notin stopped
  /\ \A p \in Procs : pc[p] = "idle" \/ sess[p] # s
  /\ stopped' = stopped \cup {s}
  /\ UNCHANGED <<files, oplock, work, holds, pc, locals, faults>>

-----------------------------------------------------------------------------
Step(p) ==
  \/ AcquireWriteClaim(p) \/ InspectOwner(p) \/ HeartbeatWrite(p)
  \/ ReleaseUnlink(p) \/ ReleaseRmdir(p)
  \/ TakeoverCheck(p) \/ TakeoverGit(p) \/ TakeoverScan(p) \/ TakeoverEvidence(p)
  \/ TakeoverRefused(p) \/ TakeoverWriteTransaction(p) \/ TakeoverInstall(p)
  \/ TakeoverAppendTrajectory(p) \/ TakeoverClearTransaction(p)

Invoke(p, s) ==
  \/ AcquireMkdir(p, s) \/ HeartbeatCheck(p, s) \/ ReleaseCheck(p, s)
  \/ OrderTakeover(p, s)

Caller(s) ==
  \/ StartWork(s) \/ StopWork(s) \/ EditWorktree(s) \/ RecordEvidence(s)
  \/ ConfirmStopped(s)

Next ==
  \/ \E p \in Procs, s \in Sessions : Invoke(p, s)
  \/ \E p \in Procs : Step(p) \/ InspectTransaction(p) \/ Interrupt(p)
  \/ \E s \in Sessions : Caller(s)

Spec == Init /\ [][Next]_vars

(* An invocation that is not killed runs to its end: no step of it waits    *)
(* for another (the operation lock is only ever tried, LOCK_NB).            *)
FairSpec == Spec /\ \A p \in Procs : WF_vars(Step(p))

-----------------------------------------------------------------------------
(* The displacements on record: trajectory.jsonl, and the transaction file  *)
(* when its successor is installed but not yet appended.                    *)
Audit ==
  IF txn # NoTxn /\ txn.at = Len(traj) /\ owner = txn.successor
  THEN Append(traj, txn) ELSE traj

Ownership == INSTANCE WriterOwnership WITH
               holder <- owner, vacant <- ~lock, log <- Audit

(* What the task promises of its claim: one holder at a time, granted only  *)
(* after a reservation, and every displacement on record in the step that   *)
(* makes it (SPEC section 8, rules 3, 8 and 9).                             *)
ImplementsOwnership == Ownership!Spec

(* Processes only ever run in the worktree for the session owner.json names *)
(* (SPEC section 8: "One task has exactly one active writer"), through      *)
(* releases, takeovers and interrupted invocations of either.               *)
OnlyOwnerWrites == running \subseteq {owner}

(* The files agree with the invocations at work on them: who holds the      *)
(* operation lock, what stands between mkdir and owner.json, and how far a  *)
(* release or a takeover got. This is what makes the unlocked acquire safe  *)
(* next to the locked operations, and it is inductive.                      *)
LockMatchesLabels ==
  \A p \in Procs : pc[p] \in LockedLabels <=> oplock = p

FilesNested ==
  /\ owner # NoSession => lock
  /\ txn # NoTxn => owner # NoSession

AcquirerAlone ==
  \A p \in Procs : pc[p] = "acquiring" =>
    /\ lock /\ owner = NoSession /\ sess[p] \in Sessions
    /\ \A q \in Procs : pc[q] # "rmdir" /\ (pc[q] = "acquiring" => q = p)

OwnerOperationsAligned ==
  \A p \in Procs :
    /\ pc[p] \in {"heartbeat", "unlink"} =>
         txn = NoTxn /\ owner = sess[p] /\ owner # NoSession
    /\ pc[p] = "rmdir" => txn = NoTxn /\ lock /\ owner = NoSession

TakeoverAligned ==
  \A p \in Procs :
    /\ pc[p] \in TakeoverLabels \cup {"ordered"} =>
         sess[p] \in Sessions /\ p \in Operators
    /\ pc[p] \in TakeoverLabels => prev[p] \in Sessions /\ prev[p] # sess[p]
    /\ pc[p] \in {"git", "scan", "evidence", "commit"} =>
         txn = NoTxn /\ owner = prev[p]
    /\ pc[p] = "install" => txn = DisplacementBy(p) /\ owner = prev[p]
    /\ pc[p] = "append" => txn = DisplacementBy(p) /\ owner = sess[p]
    /\ pc[p] = "clear" => txn # NoTxn /\ txn.at # Len(traj) /\ owner = sess[p]

ClaimConsistent ==
  /\ LockMatchesLabels
  /\ FilesNested
  /\ AcquirerAlone
  /\ OwnerOperationsAligned
  /\ TakeoverAligned

(* Why only the owner writes: a live session that believes it holds the     *)
(* claim is the owner, a release has already given up its belief, and a     *)
(* takeover past its process scan displaces a stopped, absent writer.       *)
LiveHolderOwns == holds \ stopped \subseteq {owner}

InvocationsRespectOwner ==
  \A p \in Procs :
    /\ pc[p] \in {"heartbeat", "unlink"} => sess[p] \notin stopped
    /\ pc[p] = "unlink" => sess[p] \notin holds \cup running
    /\ pc[p] = "ordered" => owner \in stopped
    /\ pc[p] \in {"git", "scan", "evidence", "commit", "install"} =>
         prev[p] \in stopped
    /\ pc[p] \in {"evidence", "commit", "install"} => running = {}

OwnerDiscipline ==
  /\ LiveHolderOwns
  /\ OnlyOwnerWrites
  /\ InvocationsRespectOwner

(* While a transaction file stands and no takeover is at work on it,        *)
(* nothing changes the claim or its record: an incomplete takeover fails    *)
(* closed.                                                                  *)
IncompleteTakeoverFrozen ==
  [][(txn # NoTxn /\ \A p \in Procs : pc[p] \notin TakeoverLabels)
     => UNCHANGED <<lock, owner, txn, traj>>]_vars

(* A takeover installs its successor over the very claim it reconciled,     *)
(* whatever other invocations did since.                                    *)
InstallsOverReconciled ==
  [][\A p \in Procs : pc[p] = "install" /\ pc'[p] = "append"
                      => owner = prev[p] /\ txn.previous = owner]_vars

(* Without interruptions no lock directory is left without its owner: the   *)
(* reservation of an acquire and the gap of a release both end.             *)
OwnerlessLockSettles == (lock /\ owner = NoSession) ~> (~lock \/ owner # NoSession)

(* Without interruptions every transaction file is cleared.                 *)
TransactionSettles == (txn # NoTxn) ~> (txn = NoTxn)
=============================================================================
