------------------------ MODULE BuilderGuardianProofs ------------------------
(***************************************************************************)
(* Proofs about BuilderGuardian: for any number of overlapping commands,   *)
(* any targets, scopes, worktrees and limits, with or without crashes.     *)
(***************************************************************************)
EXTENDS BuilderGuardian, TLAPS

USE LimitAssumption, NoneAssumption, NoneIsNoRecord, ManagedAssumption,
    CommitsAssumption
    DEF Labels, Statuses, Contracts, artifacts, outputs, trees, locals, history

(* TypeOK needs the locals a program point promises, and those need the     *)
(* types of the files they were read from.                                  *)
IInv == TypeOK /\ CommandsTyped /\ Grounded /\ ReadyJustified

-----------------------------------------------------------------------------
(* A status written into a well-formed record leaves it well-formed, and    *)
(* every other field as it was.                                             *)
LEMMA TransitionTyped ==
  ASSUME NEW data \in Data, NEW status \in Statuses, Transition(data, status)
  PROVE  /\ state' \in Data /\ state' # None
         /\ state' = [data EXCEPT !.status = status]
         /\ state'.handoff = data.handoff /\ state'.verdict = data.verdict
         /\ state'.evidence = data.evidence /\ state'.target = data.target
         /\ state'.cycle = data.cycle
<1>1. state' = [data EXCEPT !.status = status]
  BY DEF Transition
<1>2. state' \in Data
  BY <1>1 DEF Data
<1>3. /\ state'.handoff = data.handoff /\ state'.verdict = data.verdict
      /\ state'.evidence = data.evidence /\ state'.target = data.target
      /\ state'.cycle = data.cycle
  BY <1>1 DEF Data
<1> QED BY <1>1, <1>2, <1>3

(* Counting a review changes nothing but the count.                         *)
LEMMA CycleCounted ==
  ASSUME NEW data \in Data
  PROVE  LET counted == [data EXCEPT !.cycle = @ + 1]
         IN  /\ counted \in Data
             /\ counted.handoff = data.handoff
             /\ counted.verdict = data.verdict
             /\ counted.evidence = data.evidence
             /\ counted.cycle = data.cycle + 1
<1> DEFINE counted == [data EXCEPT !.cycle = @ + 1]
<1>1. data.cycle + 1 \in Nat
  BY DEF Data
<1>2. counted \in Data
  BY <1>1 DEF Data
<1>3. /\ counted.handoff = data.handoff /\ counted.verdict = data.verdict
      /\ counted.evidence = data.evidence
      /\ counted.cycle = data.cycle + 1
  BY DEF Data
<1> QED BY <1>2, <1>3

(* What a record vouches for depends on three of its fields only, and stays *)
(* vouched for while approvals and passed verifications are only added.     *)
LEMMA VouchedFor ==
  ASSUME NEW old, NEW new, Vouched(old),
         new.handoff = old.handoff, new.evidence = old.evidence,
         new.verdict \in {old.verdict, None}
  PROVE  Vouched(new)
  BY DEF Vouched

(* A command's memory holds a record when what it loads or writes is one.   *)
LEMMA MemoryTyped ==
  ASSUME mem \in [Procs -> Data \cup {None}], NEW p \in Procs,
         NEW data \in Data \cup {None}, mem' = [mem EXCEPT ![p] = data]
  PROVE  mem' \in [Procs -> Data \cup {None}]
  OBVIOUS

-----------------------------------------------------------------------------
(* The empty task directory and idle commands satisfy the invariant.        *)
LEMMA InitGrounded == Init => IInv
<1> SUFFICES ASSUME Init PROVE IInv
  OBVIOUS
<1> USE DEF Init
<1>1. TypeOK
  <2>1. /\ exists \in BOOLEAN /\ contract \in Contracts
        /\ state \in Data \cup {None}
        /\ handoffFile \in Package \cup {None}
        /\ verdictFile \in Verdict \cup {None}
        /\ evidenceFile \in Evidence \cup {None}
        /\ readyFile \in Ready \cup {None}
    OBVIOUS
  <2>2. /\ builderOutput \in Commits \cup {None}
        /\ guardianOutput \in Verdict \cup {None}
    OBVIOUS
  <2>3. /\ head \in [Worktrees -> Commits \cup {Base, None}]
        /\ clean \in [Worktrees -> BOOLEAN]
    OBVIOUS
  <2>4. pc \in [Procs -> Labels]
    OBVIOUS
  <2>5. /\ mem \in [Procs -> Data \cup {None}]
        /\ package \in [Procs -> Package \cup {None}]
        /\ verdict \in [Procs -> Verdict \cup {None}]
        /\ session \in [Procs -> 0 .. MaxSessions]
        /\ seen \in [Procs -> Fingerprints \cup {None}]
    OBVIOUS
  <2>6. /\ sessions \in 0 .. MaxSessions
        /\ accepted \subseteq Commits /\ passed \subseteq Passed
        /\ approvals \subseteq Ready
    OBVIOUS
  <2> QED BY <2>1, <2>2, <2>3, <2>4, <2>5, <2>6 DEF TypeOK
<1>2. CommandsTyped BY DEF CommandsTyped
<1>3. Grounded BY DEF Grounded, EditsGrounded, StateGrounded, CommandGrounded
<1>4. ReadyJustified BY DEF ReadyJustified
<1> QED BY <1>1, <1>2, <1>3, <1>4 DEF IInv

(* Every step of a command, of the Builder, the Guardian or whoever edits   *)
(* the worktrees and the contract keeps the invariant.                      *)
LEMMA StepGrounded == IInv /\ [Next]_vars => IInv'
<1> SUFFICES ASSUME IInv PROVE [Next]_vars => IInv'
  OBVIOUS
<1> USE DEF IInv
<1>1. ASSUME NEW p \in Procs, MakeDirectory(p) PROVE IInv'
  <2> USE <1>1 DEF MakeDirectory, Goto
  <2>1. TypeOK' BY DEF TypeOK
  <2>2. CommandsTyped' BY DEF TypeOK, CommandsTyped
  <2>3. EditsGrounded' BY DEF TypeOK, Grounded, EditsGrounded
  <2>4. StateGrounded'
    BY DEF Grounded, StateGrounded, Vouched, UnderBoundContract
  <2>5. ASSUME NEW q \in Procs PROVE CommandGrounded(q)'
    BY DEF TypeOK, CommandsTyped, Grounded, CommandGrounded, Vouched,
       UnderBoundContract, VerifiedCommits
  <2>6. Grounded' BY <2>3, <2>4, <2>5 DEF Grounded
  <2>7. ReadyJustified' BY DEF ReadyJustified, VerifiedCommits
  <2> QED BY <2>1, <2>2, <2>6, <2>7
<1>2. ASSUME NEW p \in Procs, SaveInitial(p) PROVE IInv'
  <2> USE <1>2 DEF SaveInitial, Exit, Goto
  <2>1. TypeOK' BY DEF TypeOK, Data
  <2>2. CommandsTyped' BY DEF TypeOK, CommandsTyped
  <2>3. EditsGrounded' BY DEF TypeOK, Grounded, EditsGrounded
  <2>4. StateGrounded'
    BY DEF Grounded, StateGrounded, Vouched, UnderBoundContract
  <2>5. ASSUME NEW q \in Procs PROVE CommandGrounded(q)'
    BY DEF TypeOK, CommandsTyped, Grounded, CommandGrounded, Vouched,
       UnderBoundContract, VerifiedCommits
  <2>6. Grounded' BY <2>3, <2>4, <2>5 DEF Grounded
  <2>7. ReadyJustified' BY DEF ReadyJustified, VerifiedCommits
  <2> QED BY <2>1, <2>2, <2>6, <2>7
<1>3. ASSUME NEW p \in Procs, OpenCommand(p) PROVE IInv'
  <2> USE <1>3 DEF OpenCommand, Open, ContractBound, Goto
  <2>1. TypeOK' BY DEF TypeOK
  <2>2. CommandsTyped' BY DEF TypeOK, CommandsTyped
  <2>3. EditsGrounded' BY DEF TypeOK, Grounded, EditsGrounded
  <2>4. StateGrounded'
    BY DEF Grounded, StateGrounded, Vouched, UnderBoundContract
  <2>5. ASSUME NEW q \in Procs PROVE CommandGrounded(q)'
    <3>1. CASE q = p
      <4>1. pc'[p] \in {"build", "assert", "verify", "gate"} /\ mem'[p] = state
        BY DEF TypeOK
      <4>2. Vouched(state) /\ (meddling # "undone" => UnderBoundContract(state))
        BY DEF TypeOK, Grounded, EditsGrounded, StateGrounded
      <4> QED BY <3>1, <4>1, <4>2 DEF CommandGrounded, Vouched,
                 UnderBoundContract
    <3>2. CASE q # p
      BY <3>2 DEF TypeOK, Grounded, CommandGrounded, Vouched,
            UnderBoundContract, VerifiedCommits
    <3> QED BY <3>1, <3>2
  <2>6. Grounded' BY <2>3, <2>4, <2>5 DEF Grounded
  <2>7. ReadyJustified' BY DEF ReadyJustified, VerifiedCommits
  <2> QED BY <2>1, <2>2, <2>6, <2>7
<1>4. ASSUME NEW p \in Procs, NEW given \in Package, OpenHandoff(p, given) PROVE IInv'
  <2> USE <1>4 DEF OpenHandoff, Open, ContractBound, Goto
  <2>1. TypeOK' BY DEF TypeOK
  <2>2. CommandsTyped' BY DEF TypeOK, CommandsTyped
  <2>3. EditsGrounded' BY DEF TypeOK, Grounded, EditsGrounded
  <2>4. StateGrounded'
    BY DEF Grounded, StateGrounded, Vouched, UnderBoundContract
  <2>5. ASSUME NEW q \in Procs PROVE CommandGrounded(q)'
    BY DEF TypeOK, CommandsTyped, Grounded, EditsGrounded, StateGrounded,
       CommandGrounded, Vouched, UnderBoundContract, VerifiedCommits
  <2>6. Grounded' BY <2>3, <2>4, <2>5 DEF Grounded
  <2>7. ReadyJustified' BY DEF ReadyJustified, VerifiedCommits
  <2> QED BY <2>1, <2>2, <2>6, <2>7
<1>5. ASSUME NEW p \in Procs, StartBuilder(p) PROVE IInv'
  <2> USE <1>5 DEF StartBuilder, MayBuild, Admitted, Continue, Goto
  <2>1. Transition(mem[p], "BUILDING") /\ mem[p] \in Data
    BY DEF CommandsTyped
  <2>2. /\ state' \in Data /\ state' # None
        /\ state' = [mem[p] EXCEPT !.status = "BUILDING"]
        /\ state'.handoff = mem[p].handoff /\ state'.verdict = mem[p].verdict
        /\ state'.evidence = mem[p].evidence /\ state'.target = mem[p].target
        /\ state'.cycle = mem[p].cycle
    BY <2>1, TransitionTyped
  <2>3. Vouched(mem[p]) /\ (meddling = "none" => UnderBoundContract(mem[p]))
    BY DEF Grounded, CommandGrounded
  <2>4. Vouched(state')
    BY <2>2, <2>3, VouchedFor
  <2>5. meddling = "none" => UnderBoundContract(state')
    BY <2>2, <2>3 DEF UnderBoundContract
  <2>6. mem' = [mem EXCEPT ![p] = state']
    BY <2>2
  <2>7. TypeOK'
    <3>1. mem' \in [Procs -> Data \cup {None}]
      <4>1. mem \in [Procs -> Data \cup {None}]
        BY DEF TypeOK
      <4> QED BY <2>2, <2>6, <4>1, MemoryTyped
    <3>2. state' \in Data \cup {None}
      BY <2>2
    <3> QED BY <2>2, <2>5, <3>1, <3>2 DEF TypeOK, UnderBoundContract
  <2>8. CommandsTyped'
    BY <2>2, <2>6 DEF TypeOK, CommandsTyped
  <2>9. ASSUME NEW q \in Procs PROVE CommandGrounded(q)'
    <3>1. CASE q = p
      BY <2>2, <2>4, <2>5, <2>6, <3>1 DEF TypeOK, CommandGrounded, Vouched,
            UnderBoundContract, VerifiedCommits
    <3>2. CASE q # p
      BY <3>2 DEF TypeOK, Grounded, CommandGrounded, Vouched,
            UnderBoundContract, VerifiedCommits
    <3> QED BY <3>1, <3>2
  <2>e. EditsGrounded'
    BY DEF TypeOK, Grounded, EditsGrounded
  <2>10. Grounded'
    BY <2>2, <2>4, <2>5, <2>9, <2>e DEF Grounded, StateGrounded, Vouched,
          UnderBoundContract
  <2>11. ReadyJustified' BY DEF ReadyJustified, VerifiedCommits
  <2> QED BY <2>7, <2>8, <2>10, <2>11
<1>6. ASSUME NEW p \in Procs, BuilderAnswers(p) PROVE IInv'
  <2> USE <1>6 DEF BuilderAnswers, Goto
  <2>1. TypeOK' BY DEF TypeOK
  <2>2. CommandsTyped' BY DEF TypeOK, CommandsTyped
  <2>3. EditsGrounded' BY DEF TypeOK, Grounded, EditsGrounded
  <2>4. StateGrounded'
    BY DEF Grounded, StateGrounded, Vouched, UnderBoundContract
  <2>5. ASSUME NEW q \in Procs PROVE CommandGrounded(q)'
    BY DEF TypeOK, CommandsTyped, Grounded, CommandGrounded, Vouched,
       UnderBoundContract, VerifiedCommits
  <2>6. Grounded' BY <2>3, <2>4, <2>5 DEF Grounded
  <2>7. ReadyJustified' BY DEF ReadyJustified, VerifiedCommits
  <2> QED BY <2>1, <2>2, <2>6, <2>7
<1>7. ASSUME NEW p \in Procs, BuilderFailed(p) PROVE IInv'
  <2> USE <1>7 DEF BuilderFailed, Exit, Goto
  <2>1. Transition(mem[p], "BLOCKED") /\ mem[p] \in Data
    BY DEF CommandsTyped
  <2>2. /\ state' \in Data /\ state' # None
        /\ state' = [mem[p] EXCEPT !.status = "BLOCKED"]
        /\ state'.handoff = mem[p].handoff /\ state'.verdict = mem[p].verdict
        /\ state'.evidence = mem[p].evidence /\ state'.target = mem[p].target
        /\ state'.cycle = mem[p].cycle
    BY <2>1, TransitionTyped
  <2>3. Vouched(mem[p]) /\ (meddling = "none" => UnderBoundContract(mem[p]))
    BY DEF Grounded, CommandGrounded
  <2>4. Vouched(state')
    BY <2>2, <2>3, VouchedFor
  <2>5. meddling = "none" => UnderBoundContract(state')
    BY <2>2, <2>3 DEF UnderBoundContract
  <2>6. mem' = [mem EXCEPT ![p] = None]
    OBVIOUS
  <2>7. TypeOK'
    <3>1. mem' \in [Procs -> Data \cup {None}]
      <4>1. mem \in [Procs -> Data \cup {None}]
        BY DEF TypeOK
      <4> QED BY <2>2, <2>6, <4>1, MemoryTyped
    <3>2. state' \in Data \cup {None}
      BY <2>2
    <3> QED BY <2>2, <2>5, <3>1, <3>2 DEF TypeOK, UnderBoundContract
  <2>8. CommandsTyped'
    BY <2>2, <2>6 DEF TypeOK, CommandsTyped
  <2>9. ASSUME NEW q \in Procs PROVE CommandGrounded(q)'
    <3>1. CASE q = p
      BY <2>2, <2>4, <2>5, <2>6, <3>1 DEF TypeOK, CommandGrounded, Vouched,
            UnderBoundContract, VerifiedCommits
    <3>2. CASE q # p
      BY <3>2 DEF TypeOK, Grounded, CommandGrounded, Vouched,
            UnderBoundContract, VerifiedCommits
    <3> QED BY <3>1, <3>2
  <2>e. EditsGrounded'
    BY DEF TypeOK, Grounded, EditsGrounded
  <2>10. Grounded'
    BY <2>2, <2>4, <2>5, <2>9, <2>e DEF Grounded, StateGrounded, Vouched,
          UnderBoundContract
  <2>11. ReadyJustified' BY DEF ReadyJustified, VerifiedCommits
  <2> QED BY <2>7, <2>8, <2>10, <2>11
<1>8. ASSUME NEW p \in Procs, CompleteBuilder(p) PROVE IInv'
  <2> USE <1>8 DEF CompleteBuilder, BuilderAtTarget, Goto
  <2>1. TypeOK' BY DEF TypeOK, Package
  <2>2. CommandsTyped' BY DEF TypeOK, CommandsTyped, Package
  <2>3. EditsGrounded' BY DEF TypeOK, Grounded, EditsGrounded
  <2>4. StateGrounded'
    BY DEF Grounded, StateGrounded, Vouched, UnderBoundContract
  <2>5. ASSUME NEW q \in Procs PROVE CommandGrounded(q)'
    BY DEF TypeOK, CommandsTyped, Grounded, CommandGrounded, Vouched,
       UnderBoundContract, VerifiedCommits
  <2>6. Grounded' BY <2>3, <2>4, <2>5 DEF Grounded
  <2>7. ReadyJustified' BY DEF ReadyJustified, VerifiedCommits
  <2> QED BY <2>1, <2>2, <2>6, <2>7
<1>9. ASSUME NEW p \in Procs, CheckHandoff(p) PROVE IInv'
  <2> USE <1>9 DEF CheckHandoff, Acceptable, InContractScope, Goto
  <2>1. TypeOK' BY DEF TypeOK
  <2>2. CommandsTyped' BY DEF TypeOK, CommandsTyped
  <2>3. EditsGrounded' BY DEF TypeOK, Grounded, EditsGrounded
  <2>4. StateGrounded'
    BY DEF Grounded, StateGrounded, Vouched, UnderBoundContract
  <2>5. ASSUME NEW q \in Procs PROVE CommandGrounded(q)'
    BY DEF TypeOK, CommandsTyped, Grounded, EditsGrounded, StateGrounded,
       CommandGrounded, Vouched, UnderBoundContract, VerifiedCommits
  <2>6. Grounded' BY <2>3, <2>4, <2>5 DEF Grounded
  <2>7. ReadyJustified' BY DEF ReadyJustified, VerifiedCommits
  <2> QED BY <2>1, <2>2, <2>6, <2>7
<1>10. ASSUME NEW p \in Procs, BuilderChecksPass(p) PROVE IInv'
  <2> USE <1>10 DEF BuilderChecksPass, Goto
  <2>1. TypeOK' BY DEF TypeOK
  <2>2. CommandsTyped' BY DEF TypeOK, CommandsTyped
  <2>3. EditsGrounded' BY DEF TypeOK, Grounded, EditsGrounded
  <2>4. StateGrounded'
    BY DEF Grounded, StateGrounded, Vouched, UnderBoundContract
  <2>5. ASSUME NEW q \in Procs PROVE CommandGrounded(q)'
    BY DEF TypeOK, CommandsTyped, Grounded, CommandGrounded, Vouched,
       UnderBoundContract, VerifiedCommits
  <2>6. Grounded' BY <2>3, <2>4, <2>5 DEF Grounded
  <2>7. ReadyJustified' BY DEF ReadyJustified, VerifiedCommits
  <2> QED BY <2>1, <2>2, <2>6, <2>7
<1>11. ASSUME NEW p \in Procs, StoreHandoff(p) PROVE IInv'
  <2> USE <1>11 DEF StoreHandoff, Goto
  <2>1. TypeOK' BY DEF TypeOK, CommandsTyped, Package
  <2>2. CommandsTyped' BY DEF TypeOK, CommandsTyped
  <2>3. EditsGrounded' BY DEF TypeOK, Grounded, EditsGrounded
  <2>4. StateGrounded'
    BY DEF Grounded, StateGrounded, Vouched, UnderBoundContract
  <2>5. ASSUME NEW q \in Procs PROVE CommandGrounded(q)'
    BY DEF TypeOK, CommandsTyped, Grounded, CommandGrounded, Vouched,
       UnderBoundContract, VerifiedCommits
  <2>6. Grounded' BY <2>3, <2>4, <2>5 DEF Grounded
  <2>7. ReadyJustified' BY DEF ReadyJustified, VerifiedCommits
  <2> QED BY <2>1, <2>2, <2>6, <2>7
<1>12. ASSUME NEW p \in Procs, AwaitReview(p) PROVE IInv'
  <2> USE <1>12 DEF AwaitReview, Continue, Goto
  <2> DEFINE data == [mem[p] EXCEPT !.target = package[p].target,
                               !.handoff = package[p]]
  <2>1. Transition(data, "AWAITING_REVIEW") /\ mem[p] \in Data /\ package[p] \in Package
    BY DEF CommandsTyped
  <2>2. /\ data \in Data
        /\ data.handoff = package[p] /\ data.verdict = mem[p].verdict
        /\ data.evidence = mem[p].evidence /\ data.target = package[p].target
        /\ data.cycle = mem[p].cycle
    BY <2>1 DEF Data, Package
  <2> HIDE DEF data
  <2>3. /\ state' \in Data /\ state' # None
        /\ state' = [data EXCEPT !.status = "AWAITING_REVIEW"]
        /\ state'.handoff = data.handoff /\ state'.verdict = data.verdict
        /\ state'.evidence = data.evidence /\ state'.target = data.target
        /\ state'.cycle = data.cycle
    BY <2>1, <2>2, TransitionTyped
  <2>4. Vouched(state')
    BY <2>2, <2>3 DEF Grounded, CommandGrounded, Vouched
  <2>5. meddling = "none" => UnderBoundContract(state')
    BY <2>2, <2>3 DEF Grounded, CommandGrounded, UnderBoundContract
  <2>6. mem' = [mem EXCEPT ![p] = state']
    BY <2>2, <2>3 DEF data
  <2>7. TypeOK'
    <3>1. mem' \in [Procs -> Data \cup {None}]
      <4>1. mem \in [Procs -> Data \cup {None}]
        BY DEF TypeOK
      <4> QED BY <2>2, <2>3, <2>6, <4>1, MemoryTyped
    <3>2. state' \in Data \cup {None}
      BY <2>2, <2>3
    <3> QED BY <2>2, <2>5, <3>1, <3>2 DEF TypeOK, UnderBoundContract
  <2>8. CommandsTyped'
    BY <2>2, <2>3, <2>6 DEF TypeOK, CommandsTyped
  <2>9. ASSUME NEW q \in Procs PROVE CommandGrounded(q)'
    <3>1. CASE q = p
      BY <2>2, <2>3, <2>4, <2>5, <2>6, <3>1 DEF TypeOK, CommandGrounded, Vouched,
            UnderBoundContract, VerifiedCommits
    <3>2. CASE q # p
      BY <3>2 DEF TypeOK, Grounded, CommandGrounded, Vouched,
            UnderBoundContract, VerifiedCommits
    <3> QED BY <3>1, <3>2
  <2>e. EditsGrounded'
    BY DEF TypeOK, Grounded, EditsGrounded
  <2>10. Grounded'
    BY <2>2, <2>3, <2>4, <2>5, <2>9, <2>e DEF Grounded, StateGrounded, Vouched,
          UnderBoundContract
  <2>11. ReadyJustified' BY DEF ReadyJustified, VerifiedCommits
  <2> QED BY <2>7, <2>8, <2>10, <2>11
<1>36. ASSUME NEW p \in Procs, AssertReviewable(p) PROVE IInv'
  <2> USE <1>36 DEF AssertReviewable, Reviewable, BelowLimit, Goto
  <2>1. TypeOK' BY DEF TypeOK
  <2>0. meddling = "none" => mem[p].cycle < Limit
    BY DEF TypeOK, Grounded, EditsGrounded
  <2>2. CommandsTyped' BY <2>0 DEF TypeOK, CommandsTyped, HandoffStands
  <2>3. EditsGrounded' BY DEF TypeOK, Grounded, EditsGrounded
  <2>4. StateGrounded'
    BY DEF Grounded, StateGrounded, Vouched, UnderBoundContract
  <2>5. ASSUME NEW q \in Procs PROVE CommandGrounded(q)'
    BY DEF TypeOK, CommandsTyped, Grounded, CommandGrounded, Vouched,
       UnderBoundContract, VerifiedCommits
  <2>6. Grounded' BY <2>3, <2>4, <2>5 DEF Grounded
  <2>7. ReadyJustified' BY DEF ReadyJustified, VerifiedCommits
  <2> QED BY <2>1, <2>2, <2>6, <2>7
<1>13. ASSUME NEW p \in Procs, StartReview(p) PROVE IInv'
  <2> USE <1>13 DEF StartReview, Fingerprint, Fingerprints, Goto
  <2>0. mem[p] \in Data /\ mem[p].handoff # None
    BY DEF CommandsTyped
  <2>w. mem[p].handoff.worktree \in Worktrees
    BY <2>0 DEF Data, Package
  <2>t. seen' \in [Procs -> Fingerprints \cup {None}]
    BY <2>w DEF TypeOK
  <2>1. TypeOK' BY <2>t DEF TypeOK
  <2>2. CommandsTyped' BY DEF TypeOK, CommandsTyped
  <2>3. EditsGrounded' BY DEF TypeOK, Grounded, EditsGrounded
  <2>4. StateGrounded'
    BY DEF Grounded, StateGrounded, Vouched, UnderBoundContract
  <2>5. ASSUME NEW q \in Procs PROVE CommandGrounded(q)'
    BY DEF TypeOK, CommandsTyped, Grounded, CommandGrounded, Vouched,
       UnderBoundContract, VerifiedCommits
  <2>6. Grounded' BY <2>3, <2>4, <2>5 DEF Grounded
  <2>7. ReadyJustified' BY DEF ReadyJustified, VerifiedCommits
  <2> QED BY <2>1, <2>2, <2>6, <2>7
<1>14. ASSUME NEW p \in Procs, RevisionLimitReached(p) PROVE IInv'
  <2> USE <1>14 DEF RevisionLimitReached, LimitReached, Exit, Goto
  <2>1. Transition(mem[p], "BLOCKED") /\ mem[p] \in Data
    BY DEF CommandsTyped
  <2>2. /\ state' \in Data /\ state' # None
        /\ state' = [mem[p] EXCEPT !.status = "BLOCKED"]
        /\ state'.handoff = mem[p].handoff /\ state'.verdict = mem[p].verdict
        /\ state'.evidence = mem[p].evidence /\ state'.target = mem[p].target
        /\ state'.cycle = mem[p].cycle
    BY <2>1, TransitionTyped
  <2>3. Vouched(mem[p]) /\ (meddling = "none" => UnderBoundContract(mem[p]))
    BY DEF Grounded, CommandGrounded
  <2>4. Vouched(state')
    BY <2>2, <2>3, VouchedFor
  <2>5. meddling = "none" => UnderBoundContract(state')
    BY <2>2, <2>3 DEF UnderBoundContract
  <2>6. mem' = [mem EXCEPT ![p] = None]
    OBVIOUS
  <2>7. TypeOK'
    <3>1. mem' \in [Procs -> Data \cup {None}]
      <4>1. mem \in [Procs -> Data \cup {None}]
        BY DEF TypeOK
      <4> QED BY <2>2, <2>6, <4>1, MemoryTyped
    <3>2. state' \in Data \cup {None}
      BY <2>2
    <3> QED BY <2>2, <2>5, <3>1, <3>2 DEF TypeOK, UnderBoundContract
  <2>8. CommandsTyped'
    BY <2>2, <2>6 DEF TypeOK, CommandsTyped
  <2>9. ASSUME NEW q \in Procs PROVE CommandGrounded(q)'
    <3>1. CASE q = p
      BY <2>2, <2>4, <2>5, <2>6, <3>1 DEF TypeOK, CommandGrounded, Vouched,
            UnderBoundContract, VerifiedCommits
    <3>2. CASE q # p
      BY <3>2 DEF TypeOK, Grounded, CommandGrounded, Vouched,
            UnderBoundContract, VerifiedCommits
    <3> QED BY <3>1, <3>2
  <2>e. EditsGrounded'
    BY DEF TypeOK, Grounded, EditsGrounded
  <2>10. Grounded'
    BY <2>2, <2>4, <2>5, <2>9, <2>e DEF Grounded, StateGrounded, Vouched,
          UnderBoundContract
  <2>11. ReadyJustified' BY DEF ReadyJustified, VerifiedCommits
  <2> QED BY <2>7, <2>8, <2>10, <2>11
<1>15. ASSUME NEW p \in Procs, GuardianAnswers(p) PROVE IInv'
  <2> USE <1>15 DEF GuardianAnswers, Goto
  <2>1. TypeOK' BY DEF TypeOK
  <2>2. CommandsTyped' BY DEF TypeOK, CommandsTyped
  <2>3. EditsGrounded' BY DEF TypeOK, Grounded, EditsGrounded
  <2>4. StateGrounded'
    BY DEF Grounded, StateGrounded, Vouched, UnderBoundContract
  <2>5. ASSUME NEW q \in Procs PROVE CommandGrounded(q)'
    BY DEF TypeOK, CommandsTyped, Grounded, CommandGrounded, Vouched,
       UnderBoundContract, VerifiedCommits
  <2>6. Grounded' BY <2>3, <2>4, <2>5 DEF Grounded
  <2>7. ReadyJustified' BY DEF ReadyJustified, VerifiedCommits
  <2> QED BY <2>1, <2>2, <2>6, <2>7
<1>16. ASSUME NEW p \in Procs, GuardianBlocked(p) PROVE IInv'
  <2> USE <1>16 DEF GuardianBlocked, Exit, Goto
  <2>1. Transition(mem[p], "BLOCKED") /\ mem[p] \in Data
    BY DEF CommandsTyped
  <2>2. /\ state' \in Data /\ state' # None
        /\ state' = [mem[p] EXCEPT !.status = "BLOCKED"]
        /\ state'.handoff = mem[p].handoff /\ state'.verdict = mem[p].verdict
        /\ state'.evidence = mem[p].evidence /\ state'.target = mem[p].target
        /\ state'.cycle = mem[p].cycle
    BY <2>1, TransitionTyped
  <2>3. Vouched(mem[p]) /\ (meddling = "none" => UnderBoundContract(mem[p]))
    BY DEF Grounded, CommandGrounded
  <2>4. Vouched(state')
    BY <2>2, <2>3, VouchedFor
  <2>5. meddling = "none" => UnderBoundContract(state')
    BY <2>2, <2>3 DEF UnderBoundContract
  <2>6. mem' = [mem EXCEPT ![p] = None]
    OBVIOUS
  <2>7. TypeOK'
    <3>1. mem' \in [Procs -> Data \cup {None}]
      <4>1. mem \in [Procs -> Data \cup {None}]
        BY DEF TypeOK
      <4> QED BY <2>2, <2>6, <4>1, MemoryTyped
    <3>2. state' \in Data \cup {None}
      BY <2>2
    <3> QED BY <2>2, <2>5, <3>1, <3>2 DEF TypeOK, UnderBoundContract
  <2>8. CommandsTyped'
    BY <2>2, <2>6 DEF TypeOK, CommandsTyped
  <2>9. ASSUME NEW q \in Procs PROVE CommandGrounded(q)'
    <3>1. CASE q = p
      BY <2>2, <2>4, <2>5, <2>6, <3>1 DEF TypeOK, CommandGrounded, Vouched,
            UnderBoundContract, VerifiedCommits
    <3>2. CASE q # p
      BY <3>2 DEF TypeOK, Grounded, CommandGrounded, Vouched,
            UnderBoundContract, VerifiedCommits
    <3> QED BY <3>1, <3>2
  <2>e. EditsGrounded'
    BY DEF TypeOK, Grounded, EditsGrounded
  <2>10. Grounded'
    BY <2>2, <2>4, <2>5, <2>9, <2>e DEF Grounded, StateGrounded, Vouched,
          UnderBoundContract
  <2>11. ReadyJustified' BY DEF ReadyJustified, VerifiedCommits
  <2> QED BY <2>7, <2>8, <2>10, <2>11
<1>17. ASSUME NEW p \in Procs, RecordVerdict(p) PROVE IInv'
  <2> USE <1>17 DEF RecordVerdict, VerdictIsOwn, Goto
  <2>1. TypeOK' BY DEF TypeOK, CommandsTyped, Data, Package, Verdict,
        Evidence, Ready
  <2>2. CommandsTyped' BY DEF TypeOK, CommandsTyped, Data, Package, Verdict,
        Evidence, Ready
  <2>3. /\ mem[p] \in Data /\ guardianOutput \in Verdict
        /\ guardianOutput.target = mem[p].target
        /\ guardianOutput.session = session[p]
    BY DEF CommandsTyped, TypeOK, VerdictIsOwn
  <2>4. approvals \subseteq approvals'
    OBVIOUS
  <2>5. StateGrounded'
    BY <2>4 DEF Grounded, EditsGrounded, StateGrounded, Vouched, UnderBoundContract
  <2>6. ASSUME NEW q \in Procs PROVE CommandGrounded(q)'
    <3>1. CASE q = p
      BY <2>3, <2>4, <3>1 DEF TypeOK, Grounded, CommandGrounded, Vouched,
            UnderBoundContract, VerifiedCommits
    <3>2. CASE q # p
      BY <2>4, <3>2 DEF TypeOK, Grounded, CommandGrounded, Vouched,
            UnderBoundContract, VerifiedCommits
    <3> QED BY <3>1, <3>2
  <2>e. EditsGrounded' BY DEF TypeOK, Grounded, EditsGrounded
  <2>7. Grounded' BY <2>5, <2>6, <2>e DEF Grounded
  <2>8. ReadyJustified' BY <2>4 DEF ReadyJustified, VerifiedCommits
  <2> QED BY <2>1, <2>2, <2>7, <2>8
<1>18. ASSUME NEW p \in Procs, ApproveGuardian(p) PROVE IInv'
  <2> USE <1>18 DEF ApproveGuardian, ApplyVerdict, Exit, Goto
  <2> DEFINE base == [mem[p] EXCEPT !.verdict = verdict[p], !.session = session[p]]
             data == [base EXCEPT !.cycle = @ + 1]
  <2>0a. mem[p] \in Data /\ verdict[p] \in Verdict
        /\ session[p] \in 1 .. MaxSessions
    BY DEF CommandsTyped
  <2>0d. session[p] \in 0 .. MaxSessions
    BY <2>0a
  <2>0b. base \in Data /\ base.cycle = mem[p].cycle
    BY <2>0a, <2>0d DEF Data
  <2>0c. /\ base.handoff = mem[p].handoff /\ base.verdict = verdict[p]
        /\ base.evidence = mem[p].evidence
    BY <2>0a DEF Data
  <2>0e. mem[p].cycle \in Nat /\ (meddling = "none" => mem[p].cycle + 1 <= Limit)
    BY <2>0a DEF CommandsTyped, Data
  <2>1. Transition(data, "GUARDIAN_APPROVED")
    OBVIOUS
  <2>2. /\ data \in Data
        /\ data.handoff = mem[p].handoff /\ data.verdict = verdict[p]
        /\ data.evidence = mem[p].evidence
        /\ data.cycle = mem[p].cycle + 1
    <3> HIDE DEF base
    <3> QED BY <2>0a, <2>0b, <2>0c, CycleCounted
  <2> HIDE DEF data
  <2>3. /\ state' \in Data /\ state' # None
        /\ state' = [data EXCEPT !.status = "GUARDIAN_APPROVED"]
        /\ state'.handoff = data.handoff /\ state'.verdict = data.verdict
        /\ state'.evidence = data.evidence /\ state'.target = data.target
        /\ state'.cycle = data.cycle
    BY <2>1, <2>2, TransitionTyped
  <2>4. Vouched(state')
    BY <2>2, <2>3 DEF Grounded, CommandGrounded, Vouched
  <2>5. meddling = "none" => UnderBoundContract(state')
    BY <2>0e, <2>2, <2>3 DEF Grounded, CommandGrounded, UnderBoundContract
  <2>6. mem' = [mem EXCEPT ![p] = None]
    OBVIOUS
  <2>7. TypeOK'
    <3>1. mem' \in [Procs -> Data \cup {None}]
      <4>1. mem \in [Procs -> Data \cup {None}]
        BY DEF TypeOK
      <4> QED BY <2>2, <2>3, <2>6, <4>1, MemoryTyped
    <3>2. state' \in Data \cup {None}
      BY <2>2, <2>3
    <3> QED BY <2>2, <2>5, <3>1, <3>2 DEF TypeOK, UnderBoundContract
  <2>8. CommandsTyped'
    BY <2>2, <2>3, <2>6 DEF TypeOK, CommandsTyped
  <2>9. ASSUME NEW q \in Procs PROVE CommandGrounded(q)'
    <3>1. CASE q = p
      BY <2>2, <2>3, <2>4, <2>5, <2>6, <3>1 DEF TypeOK, CommandGrounded, Vouched,
            UnderBoundContract, VerifiedCommits
    <3>2. CASE q # p
      BY <3>2 DEF TypeOK, Grounded, CommandGrounded, Vouched,
            UnderBoundContract, VerifiedCommits
    <3> QED BY <3>1, <3>2
  <2>e. EditsGrounded'
    BY DEF TypeOK, Grounded, EditsGrounded
  <2>10. Grounded'
    BY <2>2, <2>3, <2>4, <2>5, <2>9, <2>e DEF Grounded, StateGrounded, Vouched,
          UnderBoundContract
  <2>11. ReadyJustified' BY DEF ReadyJustified, VerifiedCommits
  <2> QED BY <2>7, <2>8, <2>10, <2>11
<1>19. ASSUME NEW p \in Procs, RequestChanges(p) PROVE IInv'
  <2> USE <1>19 DEF RequestChanges, ApplyVerdict, Exit, Goto
  <2> DEFINE base == [mem[p] EXCEPT !.target = None, !.verdict = None]
             data == [base EXCEPT !.cycle = @ + 1]
  <2>0a. mem[p] \in Data /\ verdict[p] \in Verdict
        /\ session[p] \in 1 .. MaxSessions
    BY DEF CommandsTyped
  <2>0d. session[p] \in 0 .. MaxSessions
    BY <2>0a
  <2>0b. base \in Data /\ base.cycle = mem[p].cycle
    BY <2>0a, <2>0d DEF Data
  <2>0c. /\ base.handoff = mem[p].handoff /\ base.verdict = None
        /\ base.evidence = mem[p].evidence
    BY <2>0a DEF Data
  <2>0e. mem[p].cycle \in Nat /\ (meddling = "none" => mem[p].cycle + 1 <= Limit)
    BY <2>0a DEF CommandsTyped, Data
  <2>1. Transition(data, "BUILDING")
    OBVIOUS
  <2>2. /\ data \in Data
        /\ data.handoff = mem[p].handoff /\ data.verdict = None
        /\ data.evidence = mem[p].evidence
        /\ data.cycle = mem[p].cycle + 1
    <3> HIDE DEF base
    <3> QED BY <2>0a, <2>0b, <2>0c, CycleCounted
  <2> HIDE DEF data
  <2>3. /\ state' \in Data /\ state' # None
        /\ state' = [data EXCEPT !.status = "BUILDING"]
        /\ state'.handoff = data.handoff /\ state'.verdict = data.verdict
        /\ state'.evidence = data.evidence /\ state'.target = data.target
        /\ state'.cycle = data.cycle
    BY <2>1, <2>2, TransitionTyped
  <2>4. Vouched(state')
    BY <2>2, <2>3 DEF Grounded, CommandGrounded, Vouched
  <2>5. meddling = "none" => UnderBoundContract(state')
    BY <2>0e, <2>2, <2>3 DEF Grounded, CommandGrounded, UnderBoundContract
  <2>6. mem' = [mem EXCEPT ![p] = None]
    OBVIOUS
  <2>7. TypeOK'
    <3>1. mem' \in [Procs -> Data \cup {None}]
      <4>1. mem \in [Procs -> Data \cup {None}]
        BY DEF TypeOK
      <4> QED BY <2>2, <2>3, <2>6, <4>1, MemoryTyped
    <3>2. state' \in Data \cup {None}
      BY <2>2, <2>3
    <3> QED BY <2>2, <2>5, <3>1, <3>2 DEF TypeOK, UnderBoundContract
  <2>8. CommandsTyped'
    BY <2>2, <2>3, <2>6 DEF TypeOK, CommandsTyped
  <2>9. ASSUME NEW q \in Procs PROVE CommandGrounded(q)'
    <3>1. CASE q = p
      BY <2>2, <2>3, <2>4, <2>5, <2>6, <3>1 DEF TypeOK, CommandGrounded, Vouched,
            UnderBoundContract, VerifiedCommits
    <3>2. CASE q # p
      BY <3>2 DEF TypeOK, Grounded, CommandGrounded, Vouched,
            UnderBoundContract, VerifiedCommits
    <3> QED BY <3>1, <3>2
  <2>e. EditsGrounded'
    BY DEF TypeOK, Grounded, EditsGrounded
  <2>10. Grounded'
    BY <2>2, <2>3, <2>4, <2>5, <2>9, <2>e DEF Grounded, StateGrounded, Vouched,
          UnderBoundContract
  <2>11. ReadyJustified' BY DEF ReadyJustified, VerifiedCommits
  <2> QED BY <2>7, <2>8, <2>10, <2>11
<1>20. ASSUME NEW p \in Procs, ReviewBlocked(p) PROVE IInv'
  <2> USE <1>20 DEF ReviewBlocked, ApplyVerdict, Exit, Goto
  <2> DEFINE base == mem[p]
             data == [base EXCEPT !.cycle = @ + 1]
  <2>0a. mem[p] \in Data /\ verdict[p] \in Verdict
        /\ session[p] \in 1 .. MaxSessions
    BY DEF CommandsTyped
  <2>0d. session[p] \in 0 .. MaxSessions
    BY <2>0a
  <2>0b. base \in Data /\ base.cycle = mem[p].cycle
    BY <2>0a, <2>0d DEF Data
  <2>0c. /\ base.handoff = mem[p].handoff /\ base.verdict = mem[p].verdict
        /\ base.evidence = mem[p].evidence
    BY <2>0a DEF Data
  <2>0e. mem[p].cycle \in Nat /\ (meddling = "none" => mem[p].cycle + 1 <= Limit)
    BY <2>0a DEF CommandsTyped, Data
  <2>1. Transition(data, "BLOCKED")
    OBVIOUS
  <2>2. /\ data \in Data
        /\ data.handoff = mem[p].handoff /\ data.verdict = mem[p].verdict
        /\ data.evidence = mem[p].evidence
        /\ data.cycle = mem[p].cycle + 1
    <3> HIDE DEF base
    <3> QED BY <2>0a, <2>0b, <2>0c, CycleCounted
  <2> HIDE DEF data
  <2>3. /\ state' \in Data /\ state' # None
        /\ state' = [data EXCEPT !.status = "BLOCKED"]
        /\ state'.handoff = data.handoff /\ state'.verdict = data.verdict
        /\ state'.evidence = data.evidence /\ state'.target = data.target
        /\ state'.cycle = data.cycle
    BY <2>1, <2>2, TransitionTyped
  <2>4. Vouched(state')
    BY <2>2, <2>3 DEF Grounded, CommandGrounded, Vouched
  <2>5. meddling = "none" => UnderBoundContract(state')
    BY <2>0e, <2>2, <2>3 DEF Grounded, CommandGrounded, UnderBoundContract
  <2>6. mem' = [mem EXCEPT ![p] = None]
    OBVIOUS
  <2>7. TypeOK'
    <3>1. mem' \in [Procs -> Data \cup {None}]
      <4>1. mem \in [Procs -> Data \cup {None}]
        BY DEF TypeOK
      <4> QED BY <2>2, <2>3, <2>6, <4>1, MemoryTyped
    <3>2. state' \in Data \cup {None}
      BY <2>2, <2>3
    <3> QED BY <2>2, <2>5, <3>1, <3>2 DEF TypeOK, UnderBoundContract
  <2>8. CommandsTyped'
    BY <2>2, <2>3, <2>6 DEF TypeOK, CommandsTyped
  <2>9. ASSUME NEW q \in Procs PROVE CommandGrounded(q)'
    <3>1. CASE q = p
      BY <2>2, <2>3, <2>4, <2>5, <2>6, <3>1 DEF TypeOK, CommandGrounded, Vouched,
            UnderBoundContract, VerifiedCommits
    <3>2. CASE q # p
      BY <3>2 DEF TypeOK, Grounded, CommandGrounded, Vouched,
            UnderBoundContract, VerifiedCommits
    <3> QED BY <3>1, <3>2
  <2>e. EditsGrounded'
    BY DEF TypeOK, Grounded, EditsGrounded
  <2>10. Grounded'
    BY <2>2, <2>3, <2>4, <2>5, <2>9, <2>e DEF Grounded, StateGrounded, Vouched,
          UnderBoundContract
  <2>11. ReadyJustified' BY DEF ReadyJustified, VerifiedCommits
  <2> QED BY <2>7, <2>8, <2>10, <2>11
<1>21. ASSUME NEW p \in Procs, StartVerification(p) PROVE IInv'
  <2> USE <1>21 DEF StartVerification, Verifiable, HandoffStands, Continue,
        Goto
  <2>1. Transition(mem[p], "VERIFYING") /\ mem[p] \in Data
    BY DEF CommandsTyped
  <2>2. /\ state' \in Data /\ state' # None
        /\ state' = [mem[p] EXCEPT !.status = "VERIFYING"]
        /\ state'.handoff = mem[p].handoff /\ state'.verdict = mem[p].verdict
        /\ state'.evidence = mem[p].evidence /\ state'.target = mem[p].target
        /\ state'.cycle = mem[p].cycle
    BY <2>1, TransitionTyped
  <2>3. Vouched(mem[p]) /\ (meddling = "none" => UnderBoundContract(mem[p]))
    BY DEF Grounded, CommandGrounded
  <2>4. Vouched(state')
    BY <2>2, <2>3, VouchedFor
  <2>5. meddling = "none" => UnderBoundContract(state')
    BY <2>2, <2>3 DEF UnderBoundContract
  <2>6. mem' = [mem EXCEPT ![p] = state']
    BY <2>2
  <2>t. mem[p].target \in Commits
    BY DEF HandoffStands, TypeOK, Package
  <2>7. TypeOK'
    <3>1. mem' \in [Procs -> Data \cup {None}]
      <4>1. mem \in [Procs -> Data \cup {None}]
        BY DEF TypeOK
      <4> QED BY <2>2, <2>6, <4>1, MemoryTyped
    <3>2. state' \in Data \cup {None}
      BY <2>2
    <3> QED BY <2>2, <2>5, <3>1, <3>2 DEF TypeOK, UnderBoundContract
  <2>8. CommandsTyped'
    BY <2>2, <2>6, <2>t DEF TypeOK, CommandsTyped
  <2>9. ASSUME NEW q \in Procs PROVE CommandGrounded(q)'
    <3>1. CASE q = p
      BY <2>2, <2>4, <2>5, <2>6, <3>1 DEF TypeOK, CommandGrounded, Vouched,
            UnderBoundContract, VerifiedCommits
    <3>2. CASE q # p
      BY <3>2 DEF TypeOK, Grounded, CommandGrounded, Vouched,
            UnderBoundContract, VerifiedCommits
    <3> QED BY <3>1, <3>2
  <2>e. EditsGrounded'
    BY DEF TypeOK, Grounded, EditsGrounded
  <2>10. Grounded'
    BY <2>2, <2>4, <2>5, <2>9, <2>e DEF Grounded, StateGrounded, Vouched,
          UnderBoundContract
  <2>11. ReadyJustified' BY DEF ReadyJustified, VerifiedCommits
  <2> QED BY <2>7, <2>8, <2>10, <2>11
<1>22. ASSUME NEW p \in Procs, CheckoutFails(p) PROVE IInv'
  <2> USE <1>22 DEF CheckoutFails, Exit, Goto
  <2>1. TypeOK' BY DEF TypeOK
  <2>2. CommandsTyped' BY DEF TypeOK, CommandsTyped
  <2>3. EditsGrounded' BY DEF TypeOK, Grounded, EditsGrounded
  <2>4. StateGrounded'
    BY DEF Grounded, StateGrounded, Vouched, UnderBoundContract
  <2>5. ASSUME NEW q \in Procs PROVE CommandGrounded(q)'
    BY DEF TypeOK, CommandsTyped, Grounded, CommandGrounded, Vouched,
       UnderBoundContract, VerifiedCommits
  <2>6. Grounded' BY <2>3, <2>4, <2>5 DEF Grounded
  <2>7. ReadyJustified' BY DEF ReadyJustified, VerifiedCommits
  <2> QED BY <2>1, <2>2, <2>6, <2>7
<1>23. ASSUME NEW p \in Procs, RunChecks(p) PROVE IInv'
  <2> USE <1>23 DEF RunChecks, Goto
  <2> DEFINE evidence(result) ==
               [commit |-> mem[p].target, passed |-> result, checks |-> contract]
  <2>1. mem[p] \in Data /\ mem[p].target \in Commits
    BY DEF CommandsTyped
  <2>2. PICK result \in BOOLEAN :
          /\ evidenceFile' = evidence(result)
          /\ mem' = [mem EXCEPT ![p].evidence = evidence(result)]
          /\ passed' = IF result
               THEN passed \cup {[commit |-> mem[p].target, checks |-> contract]}
               ELSE passed
    OBVIOUS
  <2>3. evidence(result) \in Evidence
    BY <2>1 DEF TypeOK, Evidence
  <2> DEFINE data == [mem[p] EXCEPT !.evidence = evidence(result)]
  <2>4. mem' = [mem EXCEPT ![p] = data]
    BY <2>2
  <2>5. /\ data \in Data /\ data.evidence = evidence(result)
        /\ data.verdict = mem[p].verdict /\ data.handoff = mem[p].handoff
    BY <2>1, <2>3 DEF Data
  <2>y. data.cycle = mem[p].cycle
    BY <2>1 DEF Data
  <2>6. passed \subseteq passed' /\ passed' \subseteq Passed
    BY <2>1, <2>2 DEF TypeOK, Passed
  <2>7. /\ evidence(result).commit = mem[p].target
        /\ evidence(result).passed = result /\ evidence(result).checks = contract
    OBVIOUS
  <2>8. evidence(result).passed =>
          [commit |-> evidence(result).commit,
           checks |-> evidence(result).checks] \in passed'
    BY <2>2, <2>7
  <2> HIDE DEF data, evidence
  <2>v. VerifiedCommits \subseteq VerifiedCommits'
    BY <2>6 DEF VerifiedCommits
  <2>b. meddling = "none" => contract = "bound"
    BY DEF TypeOK, Grounded, EditsGrounded
  <2>9. TypeOK'
    <3>1. mem' \in [Procs -> Data \cup {None}]
      <4>1. mem \in [Procs -> Data \cup {None}]
        BY DEF TypeOK
      <4> QED BY <2>4, <2>5, <4>1, MemoryTyped
    <3> QED BY <2>2, <2>3, <2>6, <3>1 DEF TypeOK
  <2>10. CommandsTyped'
    BY <2>3, <2>4, <2>5 DEF TypeOK, CommandsTyped
  <2>11. StateGrounded'
    BY <2>6 DEF Grounded, EditsGrounded, StateGrounded, Vouched, UnderBoundContract
  <2>12. ASSUME NEW q \in Procs PROVE CommandGrounded(q)'
    <3>1. CASE q = p
      <4>1. mem'[p] = data /\ pc'[p] = "evidence"
        BY <2>4 DEF TypeOK
      <4>2. Vouched(mem[p]) /\ (meddling = "none" => UnderBoundContract(mem[p]))
        BY DEF Grounded, CommandGrounded
      <4>3. Vouched(mem[p])'
        BY <2>5, <2>6, <2>8, <4>1, <4>2 DEF Vouched
      <4>4. meddling = "none" => UnderBoundContract(mem[p])'
        BY <2>5, <2>7, <2>b, <2>y, <4>1, <4>2 DEF UnderBoundContract
      <4> QED BY <3>1, <4>1, <4>3, <4>4 DEF CommandGrounded
    <3>2. CASE q # p
      BY <2>4, <2>6, <2>v, <3>2 DEF TypeOK, Grounded, CommandGrounded, Vouched,
         UnderBoundContract
    <3> QED BY <3>1, <3>2
  <2>e. EditsGrounded' BY DEF TypeOK, Grounded, EditsGrounded
  <2>13. Grounded' BY <2>11, <2>12, <2>e DEF Grounded
  <2>14. ReadyJustified' BY <2>6, <2>v DEF ReadyJustified
  <2> QED BY <2>9, <2>10, <2>13, <2>14
<1>24. ASSUME NEW p \in Procs, Verified(p) PROVE IInv'
  <2> USE <1>24 DEF Verified, Exit, Goto
  <2>1. Transition(mem[p], "VERIFIED") /\ mem[p] \in Data
    BY DEF CommandsTyped
  <2>2. /\ state' \in Data /\ state' # None
        /\ state' = [mem[p] EXCEPT !.status = "VERIFIED"]
        /\ state'.handoff = mem[p].handoff /\ state'.verdict = mem[p].verdict
        /\ state'.evidence = mem[p].evidence /\ state'.target = mem[p].target
        /\ state'.cycle = mem[p].cycle
    BY <2>1, TransitionTyped
  <2>3. Vouched(mem[p]) /\ (meddling = "none" => UnderBoundContract(mem[p]))
    BY DEF Grounded, CommandGrounded
  <2>4. Vouched(state')
    BY <2>2, <2>3, VouchedFor
  <2>5. meddling = "none" => UnderBoundContract(state')
    BY <2>2, <2>3 DEF UnderBoundContract
  <2>6. mem' = [mem EXCEPT ![p] = None]
    OBVIOUS
  <2>7. TypeOK'
    <3>1. mem' \in [Procs -> Data \cup {None}]
      <4>1. mem \in [Procs -> Data \cup {None}]
        BY DEF TypeOK
      <4> QED BY <2>2, <2>6, <4>1, MemoryTyped
    <3>2. state' \in Data \cup {None}
      BY <2>2
    <3> QED BY <2>2, <2>5, <3>1, <3>2 DEF TypeOK, UnderBoundContract
  <2>8. CommandsTyped'
    BY <2>2, <2>6 DEF TypeOK, CommandsTyped
  <2>9. ASSUME NEW q \in Procs PROVE CommandGrounded(q)'
    <3>1. CASE q = p
      BY <2>2, <2>4, <2>5, <2>6, <3>1 DEF TypeOK, CommandGrounded, Vouched,
            UnderBoundContract, VerifiedCommits
    <3>2. CASE q # p
      BY <3>2 DEF TypeOK, Grounded, CommandGrounded, Vouched,
            UnderBoundContract, VerifiedCommits
    <3> QED BY <3>1, <3>2
  <2>e. EditsGrounded'
    BY DEF TypeOK, Grounded, EditsGrounded
  <2>10. Grounded'
    BY <2>2, <2>4, <2>5, <2>9, <2>e DEF Grounded, StateGrounded, Vouched,
          UnderBoundContract
  <2>11. ReadyJustified' BY DEF ReadyJustified, VerifiedCommits
  <2> QED BY <2>7, <2>8, <2>10, <2>11
<1>25. ASSUME NEW p \in Procs, VerificationFailed(p) PROVE IInv'
  <2> USE <1>25 DEF VerificationFailed, Continue, Goto
  <2> DEFINE data == [mem[p] EXCEPT !.target = None, !.verdict = None,
                               !.evidence = None]
  <2>1. Transition(data, "VERIFICATION_FAILED") /\ mem[p] \in Data /\ mem[p] \in Data
    BY DEF CommandsTyped
  <2>2. /\ data \in Data
        /\ data.handoff = mem[p].handoff /\ data.verdict = None
        /\ data.evidence = None /\ data.cycle = mem[p].cycle
    BY <2>1 DEF Data, Package
  <2> HIDE DEF data
  <2>3. /\ state' \in Data /\ state' # None
        /\ state' = [data EXCEPT !.status = "VERIFICATION_FAILED"]
        /\ state'.handoff = data.handoff /\ state'.verdict = data.verdict
        /\ state'.evidence = data.evidence /\ state'.target = data.target
        /\ state'.cycle = data.cycle
    BY <2>1, <2>2, TransitionTyped
  <2>4. Vouched(state')
    BY <2>2, <2>3 DEF Grounded, CommandGrounded, Vouched
  <2>5. meddling = "none" => UnderBoundContract(state')
    BY <2>2, <2>3 DEF Grounded, CommandGrounded, UnderBoundContract
  <2>6. mem' = [mem EXCEPT ![p] = state']
    BY <2>2, <2>3 DEF data
  <2>7. TypeOK'
    <3>1. mem' \in [Procs -> Data \cup {None}]
      <4>1. mem \in [Procs -> Data \cup {None}]
        BY DEF TypeOK
      <4> QED BY <2>2, <2>3, <2>6, <4>1, MemoryTyped
    <3>2. state' \in Data \cup {None}
      BY <2>2, <2>3
    <3> QED BY <2>2, <2>5, <3>1, <3>2 DEF TypeOK, UnderBoundContract
  <2>8. CommandsTyped'
    BY <2>2, <2>3, <2>6 DEF TypeOK, CommandsTyped
  <2>9. ASSUME NEW q \in Procs PROVE CommandGrounded(q)'
    <3>1. CASE q = p
      BY <2>2, <2>3, <2>4, <2>5, <2>6, <3>1 DEF TypeOK, CommandGrounded, Vouched,
            UnderBoundContract, VerifiedCommits
    <3>2. CASE q # p
      BY <3>2 DEF TypeOK, Grounded, CommandGrounded, Vouched,
            UnderBoundContract, VerifiedCommits
    <3> QED BY <3>1, <3>2
  <2>e. EditsGrounded'
    BY DEF TypeOK, Grounded, EditsGrounded
  <2>10. Grounded'
    BY <2>2, <2>3, <2>4, <2>5, <2>9, <2>e DEF Grounded, StateGrounded, Vouched,
          UnderBoundContract
  <2>11. ReadyJustified' BY DEF ReadyJustified, VerifiedCommits
  <2> QED BY <2>7, <2>8, <2>10, <2>11
<1>26. ASSUME NEW p \in Procs, ReturnToBuilder(p) PROVE IInv'
  <2> USE <1>26 DEF ReturnToBuilder, Exit, Goto
  <2>1. Transition(mem[p], "BUILDING") /\ mem[p] \in Data
    BY DEF CommandsTyped
  <2>2. /\ state' \in Data /\ state' # None
        /\ state' = [mem[p] EXCEPT !.status = "BUILDING"]
        /\ state'.handoff = mem[p].handoff /\ state'.verdict = mem[p].verdict
        /\ state'.evidence = mem[p].evidence /\ state'.target = mem[p].target
        /\ state'.cycle = mem[p].cycle
    BY <2>1, TransitionTyped
  <2>3. Vouched(mem[p]) /\ (meddling = "none" => UnderBoundContract(mem[p]))
    BY DEF Grounded, CommandGrounded
  <2>4. Vouched(state')
    BY <2>2, <2>3, VouchedFor
  <2>5. meddling = "none" => UnderBoundContract(state')
    BY <2>2, <2>3 DEF UnderBoundContract
  <2>6. mem' = [mem EXCEPT ![p] = None]
    OBVIOUS
  <2>7. TypeOK'
    <3>1. mem' \in [Procs -> Data \cup {None}]
      <4>1. mem \in [Procs -> Data \cup {None}]
        BY DEF TypeOK
      <4> QED BY <2>2, <2>6, <4>1, MemoryTyped
    <3>2. state' \in Data \cup {None}
      BY <2>2
    <3> QED BY <2>2, <2>5, <3>1, <3>2 DEF TypeOK, UnderBoundContract
  <2>8. CommandsTyped'
    BY <2>2, <2>6 DEF TypeOK, CommandsTyped
  <2>9. ASSUME NEW q \in Procs PROVE CommandGrounded(q)'
    <3>1. CASE q = p
      BY <2>2, <2>4, <2>5, <2>6, <3>1 DEF TypeOK, CommandGrounded, Vouched,
            UnderBoundContract, VerifiedCommits
    <3>2. CASE q # p
      BY <3>2 DEF TypeOK, Grounded, CommandGrounded, Vouched,
            UnderBoundContract, VerifiedCommits
    <3> QED BY <3>1, <3>2
  <2>e. EditsGrounded'
    BY DEF TypeOK, Grounded, EditsGrounded
  <2>10. Grounded'
    BY <2>2, <2>4, <2>5, <2>9, <2>e DEF Grounded, StateGrounded, Vouched,
          UnderBoundContract
  <2>11. ReadyJustified' BY DEF ReadyJustified, VerifiedCommits
  <2> QED BY <2>7, <2>8, <2>10, <2>11
<1>27. ASSUME NEW p \in Procs, CheckReady(p) PROVE IInv'
  <2> USE <1>27 DEF CheckReady, Shippable, HandoffStands, EvidenceIdentities,
        GuardianIdentities, Goto
  <2>1. TypeOK' BY DEF TypeOK
  <2>t. mem[p].target \in Commits
    BY DEF TypeOK, Package
  <2>2. CommandsTyped' BY <2>t DEF TypeOK, CommandsTyped
  <2>3. EditsGrounded' BY DEF TypeOK, Grounded, EditsGrounded
  <2>4. StateGrounded'
    BY DEF Grounded, StateGrounded, Vouched, UnderBoundContract
  <2>c. /\ Vouched(mem[p])
        /\ meddling # "undone" => UnderBoundContract(mem[p])
    BY DEF TypeOK, Grounded, CommandGrounded
  <2>d. /\ mem[p].target \in accepted
        /\ meddling # "undone" => mem[p].target \in InScope
    BY <2>c DEF Vouched, UnderBoundContract
  <2>f. /\ [commit |-> mem[p].target, checks |-> contract] \in passed
        /\ meddling # "undone" => contract = "bound"
    BY <2>c DEF Vouched, UnderBoundContract
  <2>g. mem[p].target \in VerifiedCommits
    BY <2>f DEF VerifiedCommits
  <2>h. [commit |-> mem[p].target, session |-> mem[p].session] \in approvals
    BY <2>c DEF Vouched
  <2>5. ASSUME NEW q \in Procs PROVE CommandGrounded(q)'
    <3>1. CASE q = p
      <4>1. pc'[p] = "ready"
        BY DEF TypeOK
      <4> QED BY <2>c, <2>d, <2>f, <2>g, <2>h, <3>1, <4>1 DEF CommandGrounded,
                 Vouched, UnderBoundContract, VerifiedCommits
    <3>2. CASE q # p
      BY <3>2 DEF TypeOK, Grounded, CommandGrounded, Vouched,
            UnderBoundContract, VerifiedCommits
    <3> QED BY <3>1, <3>2
  <2>6. Grounded' BY <2>3, <2>4, <2>5 DEF Grounded
  <2>7. ReadyJustified' BY DEF ReadyJustified, VerifiedCommits
  <2> QED BY <2>1, <2>2, <2>6, <2>7
<1>28. ASSUME NEW p \in Procs, WriteReady(p) PROVE IInv'
  <2> USE <1>28 DEF WriteReady, Goto
  <2>1. TypeOK'
    <3>1. [commit |-> mem[p].target, session |-> mem[p].session] \in approvals
      BY DEF Grounded, CommandGrounded
    <3>2. readyFile' \in Ready
      BY <3>1 DEF TypeOK
    <3> QED BY <3>2 DEF TypeOK
  <2>2. CommandsTyped' BY DEF TypeOK, CommandsTyped
  <2>3. EditsGrounded' BY DEF TypeOK, Grounded, EditsGrounded
  <2>4. StateGrounded'
    BY DEF Grounded, StateGrounded, Vouched, UnderBoundContract
  <2>5. ASSUME NEW q \in Procs PROVE CommandGrounded(q)'
    BY DEF TypeOK, CommandsTyped, Grounded, CommandGrounded, Vouched,
       UnderBoundContract, VerifiedCommits
  <2>6. Grounded' BY <2>3, <2>4, <2>5 DEF Grounded
  <2>7. CommandGrounded(p)
    BY DEF Grounded
  <2>8. /\ readyFile'.commit = mem[p].target
        /\ readyFile' = [commit |-> mem[p].target, session |-> mem[p].session]
    OBVIOUS
  <2>9. ReadyJustified'
    BY <2>7, <2>8 DEF ReadyJustified, CommandGrounded, VerifiedCommits
  <2> QED BY <2>1, <2>2, <2>6, <2>9
<1>29. ASSUME NEW p \in Procs, Ship(p) PROVE IInv'
  <2> USE <1>29 DEF Ship, Exit, Goto
  <2>1. Transition(mem[p], "READY_TO_SHIP") /\ mem[p] \in Data
    BY DEF CommandsTyped
  <2>2. /\ state' \in Data /\ state' # None
        /\ state' = [mem[p] EXCEPT !.status = "READY_TO_SHIP"]
        /\ state'.handoff = mem[p].handoff /\ state'.verdict = mem[p].verdict
        /\ state'.evidence = mem[p].evidence /\ state'.target = mem[p].target
        /\ state'.cycle = mem[p].cycle
    BY <2>1, TransitionTyped
  <2>3. Vouched(mem[p]) /\ (meddling = "none" => UnderBoundContract(mem[p]))
    BY DEF Grounded, CommandGrounded
  <2>4. Vouched(state')
    BY <2>2, <2>3, VouchedFor
  <2>5. meddling = "none" => UnderBoundContract(state')
    BY <2>2, <2>3 DEF UnderBoundContract
  <2>6. mem' = [mem EXCEPT ![p] = None]
    OBVIOUS
  <2>7. TypeOK'
    <3>1. mem' \in [Procs -> Data \cup {None}]
      <4>1. mem \in [Procs -> Data \cup {None}]
        BY DEF TypeOK
      <4> QED BY <2>2, <2>6, <4>1, MemoryTyped
    <3>2. state' \in Data \cup {None}
      BY <2>2
    <3> QED BY <2>2, <2>5, <3>1, <3>2 DEF TypeOK, UnderBoundContract
  <2>8. CommandsTyped'
    BY <2>2, <2>6 DEF TypeOK, CommandsTyped
  <2>9. ASSUME NEW q \in Procs PROVE CommandGrounded(q)'
    <3>1. CASE q = p
      BY <2>2, <2>4, <2>5, <2>6, <3>1 DEF TypeOK, CommandGrounded, Vouched,
            UnderBoundContract, VerifiedCommits
    <3>2. CASE q # p
      BY <3>2 DEF TypeOK, Grounded, CommandGrounded, Vouched,
            UnderBoundContract, VerifiedCommits
    <3> QED BY <3>1, <3>2
  <2>e. EditsGrounded'
    BY DEF TypeOK, Grounded, EditsGrounded
  <2>10. Grounded'
    BY <2>2, <2>4, <2>5, <2>9, <2>e DEF Grounded, StateGrounded, Vouched,
          UnderBoundContract
  <2>11. ReadyJustified' BY DEF ReadyJustified, VerifiedCommits
  <2> QED BY <2>7, <2>8, <2>10, <2>11
<1>30. ASSUME NEW p \in Procs, Refused(p) PROVE IInv'
  <2> USE <1>30 DEF Refused, Exit, Goto
  <2>1. TypeOK' BY DEF TypeOK
  <2>2. CommandsTyped' BY DEF TypeOK, CommandsTyped
  <2>3. EditsGrounded' BY DEF TypeOK, Grounded, EditsGrounded
  <2>4. StateGrounded'
    BY DEF Grounded, StateGrounded, Vouched, UnderBoundContract
  <2>5. ASSUME NEW q \in Procs PROVE CommandGrounded(q)'
    BY DEF TypeOK, CommandsTyped, Grounded, CommandGrounded, Vouched,
       UnderBoundContract, VerifiedCommits
  <2>6. Grounded' BY <2>3, <2>4, <2>5 DEF Grounded
  <2>7. ReadyJustified' BY DEF ReadyJustified, VerifiedCommits
  <2> QED BY <2>1, <2>2, <2>6, <2>7
<1>31. ASSUME NEW p \in Procs, Crash(p) PROVE IInv'
  <2> USE <1>31 DEF Crash, Exit, Goto
  <2>1. TypeOK' BY DEF TypeOK
  <2>2. CommandsTyped' BY DEF TypeOK, CommandsTyped
  <2>3. EditsGrounded' BY DEF TypeOK, Grounded, EditsGrounded
  <2>4. StateGrounded'
    BY DEF Grounded, StateGrounded, Vouched, UnderBoundContract
  <2>5. ASSUME NEW q \in Procs PROVE CommandGrounded(q)'
    BY DEF TypeOK, CommandsTyped, Grounded, CommandGrounded, Vouched,
       UnderBoundContract, VerifiedCommits
  <2>6. Grounded' BY <2>3, <2>4, <2>5 DEF Grounded
  <2>7. ReadyJustified' BY DEF ReadyJustified, VerifiedCommits
  <2> QED BY <2>1, <2>2, <2>6, <2>7
<1>32. ASSUME NEW w \in Worktrees, TouchWorktree(w) PROVE IInv'
  <2> USE <1>32 DEF TouchWorktree
  <2>1. TypeOK' BY DEF TypeOK
  <2>2. CommandsTyped' BY DEF TypeOK, CommandsTyped
  <2>3. EditsGrounded' BY DEF TypeOK, Grounded, EditsGrounded
  <2>4. StateGrounded'
    BY DEF Grounded, StateGrounded, Vouched, UnderBoundContract
  <2>5. ASSUME NEW q \in Procs PROVE CommandGrounded(q)'
    BY DEF TypeOK, CommandsTyped, Grounded, CommandGrounded, Vouched,
       UnderBoundContract, VerifiedCommits
  <2>6. Grounded' BY <2>3, <2>4, <2>5 DEF Grounded
  <2>7. ReadyJustified' BY DEF ReadyJustified, VerifiedCommits
  <2> QED BY <2>1, <2>2, <2>6, <2>7
<1>33. ASSUME EditContract PROVE IInv'
  <2> USE <1>33 DEF EditContract
  <2>1. TypeOK' BY DEF TypeOK
  <2>2. CommandsTyped' BY DEF TypeOK, CommandsTyped
  <2>3. EditsGrounded' BY DEF TypeOK, Grounded, EditsGrounded
  <2>4. StateGrounded'
    BY DEF Grounded, StateGrounded, Vouched, UnderBoundContract
  <2>5. ASSUME NEW q \in Procs PROVE CommandGrounded(q)'
    BY DEF TypeOK, CommandsTyped, Grounded, EditsGrounded, StateGrounded,
       CommandGrounded, Vouched, UnderBoundContract, VerifiedCommits
  <2>6. Grounded' BY <2>3, <2>4, <2>5 DEF Grounded
  <2>7. ReadyJustified' BY DEF ReadyJustified, VerifiedCommits
  <2> QED BY <2>1, <2>2, <2>6, <2>7
<1>35. ASSUME RestoreContract PROVE IInv'
  <2> USE <1>35 DEF RestoreContract
  <2>1. TypeOK' BY DEF TypeOK
  <2>2. CommandsTyped' BY DEF TypeOK, CommandsTyped
  <2>3. EditsGrounded' BY DEF TypeOK, Grounded, EditsGrounded
  <2>4. StateGrounded'
    BY DEF Grounded, StateGrounded, Vouched, UnderBoundContract
  <2>5. ASSUME NEW q \in Procs PROVE CommandGrounded(q)'
    BY DEF TypeOK, CommandsTyped, Grounded, EditsGrounded, StateGrounded,
       CommandGrounded, Vouched, UnderBoundContract, VerifiedCommits
  <2>6. Grounded' BY <2>3, <2>4, <2>5 DEF Grounded
  <2>7. ReadyJustified' BY DEF ReadyJustified, VerifiedCommits
  <2> QED BY <2>1, <2>2, <2>6, <2>7
<1>34. CASE UNCHANGED vars
  BY <1>34 DEF vars, TypeOK, CommandsTyped, Grounded, EditsGrounded, StateGrounded,
         CommandGrounded, Vouched, UnderBoundContract, VerifiedCommits,
         ReadyJustified
<1> QED BY <1>1, <1>2, <1>3, <1>4, <1>5, <1>6, <1>7, <1>8, <1>9, <1>10, <1>11,
     <1>12, <1>13, <1>14, <1>15, <1>16, <1>17, <1>18, <1>19, <1>20, <1>21,
     <1>22, <1>23, <1>24, <1>25, <1>26, <1>27, <1>28, <1>29, <1>30, <1>31,
     <1>32, <1>33, <1>34, <1>35, <1>36
  DEF Next, BuildStep, HandoffStep, ReviewStep, VerifyStep, GateStep

(* Everything a command relies on holds at every point of every command.    *)
THEOREM GroundedInvariant == Spec => []IInv
<1> QED BY InitGrounded, StepGrounded, PTL DEF Spec

(* state.json, the artifacts and the memory of every command keep their     *)
(* shape, and the review cycle never passes max_review_cycles unless        *)
(* contract.json was edited under a command.                                *)
THEOREM TypeCorrect == Spec => []TypeOK
<1>1. IInv => TypeOK BY DEF IInv
<1> QED BY GroundedInvariant, <1>1, PTL

(* Whatever commands overlap, are killed, or find contract.json edited      *)
(* under them and restored, ready.json names a commit that was handed in,   *)
(* that the session it names approved, and that passed final checks; it is  *)
(* in the bound scope and passed the bound final checks unless an edit made *)
(* while a command was at work was undone.                                  *)
THEOREM ReadyIsJustified == Spec => []ReadyJustified
<1>1. IInv => ReadyJustified BY DEF IInv
<1> QED BY GroundedInvariant, <1>1, PTL

(* The three facts it rests on, as the runs check them.                     *)
THEOREM ReadyIsGrounded == Spec => []ReadyGrounded
<1>1. IInv => ReadyGrounded BY DEF IInv, ReadyGrounded
<1> QED BY GroundedInvariant, <1>1, PTL

-----------------------------------------------------------------------------
(* Commands that do not overlap.                                            *)

(* What the command under way knows of the files: its memory is state.json  *)
(* as it stands, except for evidence it has stored and not yet recorded,    *)
(* and the status there is the one its program point belongs to.            *)
CommandCurrent(p) ==
  /\ pc[p] = "created" => exists /\ state = None
  /\ pc[p] \notin {"idle", "created", "evidence"} => mem[p] = state
  /\ pc[p] = "evidence" =>
       /\ state # None /\ mem[p] = [state EXCEPT !.evidence = evidenceFile]
       /\ evidenceFile # None /\ evidenceFile.commit = state.target
  /\ pc[p] \in {"building", "built"} => state.status = "BUILDING"
  /\ pc[p] \in {"checks", "store", "stored"} => Admitted(state)
  /\ pc[p] = "stored" => handoffFile = package[p]
  /\ pc[p] \in {"dispatch", "reviewing", "reviewed", "verdict"} =>
       state.status = "AWAITING_REVIEW"
  /\ pc[p] = "verdict" =>
       /\ verdictFile = verdict[p] /\ verdict[p].target = state.target
       /\ verdict[p].session = session[p]
  /\ pc[p] \in {"verifying", "evidence"} => state.status = "VERIFYING"
  /\ pc[p] = "returning" =>
       state.status = "VERIFICATION_FAILED" /\ state.target = None
  /\ pc[p] \in {"ready", "shipping"} =>
       /\ state.status = "VERIFIED"
       /\ [commit |-> state.target, session |-> state.session] \in approvals
       /\ state.target \in VerifiedCommits

FilesStand == ArtifactsStand /\ (~exists => state = None)

Sequential == FilesStand /\ \A p \in Procs : CommandCurrent(p)

(* While a command is at work, or starts to be, every other one is idle.    *)
LEMMA OthersIdle ==
  ASSUME NEW p \in Procs, NEW label, TypeOK, OneAtATime, OneAtATime',
         Goto(p, label), pc[p] # "idle" \/ label # "idle"
  PROVE  /\ pc'[p] = label
         /\ \A q \in Procs \ {p} : pc'[q] = "idle"
<1>1. pc'[p] = label /\ \A q \in Procs \ {p} : pc'[q] = pc[q]
  BY DEF Goto, TypeOK
<1>2. ASSUME NEW q \in Procs \ {p} PROVE pc'[q] = "idle"
  BY <1>1 DEF OneAtATime
<1> QED BY <1>1, <1>2

(* So the facts about one command and the files are all there is to show    *)
(* when it moves on, ...                                                    *)
LEMMA MovesOn ==
  ASSUME NEW p \in Procs, NEW label, TypeOK, OneAtATime, OneAtATime',
         Goto(p, label), label # "idle",
         FilesStand', CommandCurrent(p)'
  PROVE  Sequential'
<1>1. \A q \in Procs \ {p} : pc'[q] = "idle"
  BY OthersIdle
<1>2. \A q \in Procs \ {p} : CommandCurrent(q)'
  BY <1>1 DEF CommandCurrent
<1> QED BY <1>2 DEF Sequential

(* ... and the facts about the files alone when it ends.                    *)
LEMMA MovesOut ==
  ASSUME NEW p \in Procs, TypeOK, OneAtATime, OneAtATime',
         Exit(p), pc[p] # "idle", FilesStand'
  PROVE  Sequential'
<1>1. Goto(p, "idle")
  BY DEF Exit
<1>2. \A q \in Procs : pc'[q] = "idle"
  BY <1>1, OthersIdle
<1>3. \A q \in Procs : CommandCurrent(q)'
  BY <1>2 DEF CommandCurrent
<1> QED BY <1>3 DEF Sequential

(* The memory of a command that transitions and goes on is state.json.      *)
LEMMA ContinuesCurrent ==
  ASSUME NEW p \in Procs, NEW data \in Data, NEW status \in Statuses,
         NEW label, TypeOK, Continue(p, data, status, label)
  PROVE  /\ Goto(p, label) /\ pc'[p] = label
         /\ mem'[p] = state' /\ state' # None
         /\ state' = [data EXCEPT !.status = status]
         /\ state'.status = status
<1>1. Transition(data, status) /\ Goto(p, label)
  BY DEF Continue
<1>2. state' # None /\ state' = [data EXCEPT !.status = status]
  BY <1>1, TransitionTyped
<1>3. mem'[p] = state' /\ pc'[p] = label
  BY <1>2 DEF Continue, Goto, TypeOK
<1>4. state'.status = status
  BY <1>2 DEF Data
<1> QED BY <1>1, <1>2, <1>3, <1>4

(* The empty task directory and idle commands satisfy it.                   *)
LEMMA InitSequential == Init => Sequential
  BY DEF Init, Sequential, FilesStand, ArtifactsStand, CommandCurrent

(* Every step of a run whose commands do not overlap keeps those facts.     *)
LEMMA StepSequential ==
  IInv /\ IInv' /\ OneAtATime /\ OneAtATime' /\ Sequential /\ [Next]_vars
  => Sequential'
<1> SUFFICES ASSUME IInv, IInv', OneAtATime, OneAtATime', Sequential, [Next]_vars
             PROVE  Sequential'
  OBVIOUS
<1> TypeOK /\ FilesStand /\ \A p \in Procs : CommandCurrent(p)
  BY DEF IInv, Sequential
<1>1. ASSUME NEW p \in Procs, MakeDirectory(p) PROVE Sequential'
  <2> USE <1>1 DEF MakeDirectory
  <2>1. Goto(p, "created") /\ pc'[p] = "created"
    BY OthersIdle
  <2>2. FilesStand' BY DEF FilesStand, ArtifactsStand
  <2>3. CommandCurrent(p)' BY <2>1 DEF CommandCurrent, FilesStand
  <2> QED BY <2>1, <2>2, <2>3, MovesOn
<1>2. ASSUME NEW p \in Procs, SaveInitial(p) PROVE Sequential'
  <2> USE <1>2 DEF SaveInitial
  <2>1. exists
    BY DEF CommandCurrent, FilesStand
  <2>2. FilesStand' BY <2>1 DEF FilesStand, ArtifactsStand
  <2> QED BY <2>2, MovesOut
<1>3. ASSUME NEW p \in Procs, NEW command \in {"build", "assert", "verify", "gate", "handoff"},
             Open(p, command)
      PROVE  Sequential'
  <2> USE <1>3 DEF Open
  <2>1. Goto(p, command) /\ pc'[p] = command /\ mem'[p] = state
    BY OthersIdle DEF TypeOK
  <2>2. FilesStand' BY DEF FilesStand, ArtifactsStand, GuardianIdentities
  <2>3. CommandCurrent(p)' BY <2>1 DEF CommandCurrent
  <2> QED BY <2>1, <2>2, <2>3, MovesOn
<1>5. ASSUME NEW p \in Procs, StartBuilder(p) PROVE Sequential'
  <2> USE <1>5 DEF StartBuilder
  <2>1. mem[p] \in Data /\ exists
    BY DEF IInv, CommandsTyped, CommandCurrent, FilesStand
  <2>2. /\ Goto(p, "building") /\ pc'[p] = "building"
        /\ mem'[p] = state' /\ state' # None /\ state'.status = "BUILDING"
    BY <2>1, ContinuesCurrent
  <2>3. FilesStand' BY <2>1, <2>2 DEF FilesStand, ArtifactsStand
  <2>4. CommandCurrent(p)' BY <2>2 DEF CommandCurrent
  <2> QED BY <2>2, <2>3, <2>4, MovesOn
<1>6. ASSUME NEW p \in Procs, BuilderAnswers(p) PROVE Sequential'
  <2> USE <1>6 DEF BuilderAnswers
  <2>1. Goto(p, "built") /\ pc'[p] = "built"
    BY OthersIdle
  <2>2. FilesStand' BY DEF FilesStand, ArtifactsStand, GuardianIdentities
  <2>3. CommandCurrent(p)' BY <2>1 DEF CommandCurrent
  <2> QED BY <2>1, <2>2, <2>3, MovesOn
<1>7. ASSUME NEW p \in Procs,
             BuilderFailed(p) \/ RevisionLimitReached(p) \/ GuardianBlocked(p)
      PROVE  Sequential'
  <2> USE <1>7 DEF BuilderFailed, RevisionLimitReached, LimitReached,
        GuardianBlocked
  <2>1. mem[p] \in Data /\ mem[p] = state
    BY DEF IInv, CommandsTyped, CommandCurrent
  <2>2. Transition(mem[p], "BLOCKED") /\ Exit(p) /\ exists' = exists
    OBVIOUS
  <2>3. state' # None /\ state'.status = "BLOCKED" /\ state # None
    BY <2>1, <2>2, TransitionTyped DEF Data
  <2>4. exists BY <2>3 DEF FilesStand
  <2>5. FilesStand' BY <2>2, <2>3, <2>4 DEF FilesStand, ArtifactsStand
  <2> QED BY <2>2, <2>5, MovesOut
<1>8. ASSUME NEW p \in Procs, CompleteBuilder(p) PROVE Sequential'
  <2> USE <1>8 DEF CompleteBuilder
  <2>1. Goto(p, "handoff") /\ pc'[p] = "handoff"
    BY OthersIdle
  <2>2. FilesStand' BY DEF FilesStand, ArtifactsStand, GuardianIdentities
  <2>3. CommandCurrent(p)' BY <2>1 DEF CommandCurrent
  <2> QED BY <2>1, <2>2, <2>3, MovesOn
<1>9. ASSUME NEW p \in Procs, CheckHandoff(p) PROVE Sequential'
  <2> USE <1>9 DEF CheckHandoff, Acceptable
  <2>1. Goto(p, "checks") /\ pc'[p] = "checks"
    BY OthersIdle
  <2>2. FilesStand' BY DEF FilesStand, ArtifactsStand, GuardianIdentities
  <2>3. CommandCurrent(p)' BY <2>1 DEF CommandCurrent, Admitted
  <2> QED BY <2>1, <2>2, <2>3, MovesOn
<1>10. ASSUME NEW p \in Procs, BuilderChecksPass(p) PROVE Sequential'
  <2> USE <1>10 DEF BuilderChecksPass
  <2>1. Goto(p, "store") /\ pc'[p] = "store"
    BY OthersIdle
  <2>2. FilesStand' BY DEF FilesStand, ArtifactsStand, GuardianIdentities
  <2>3. CommandCurrent(p)' BY <2>1 DEF CommandCurrent, Admitted
  <2> QED BY <2>1, <2>2, <2>3, MovesOn
<1>11. ASSUME NEW p \in Procs, StoreHandoff(p) PROVE Sequential'
  <2> USE <1>11 DEF StoreHandoff
  <2>1. Goto(p, "stored") /\ pc'[p] = "stored"
    BY OthersIdle
  <2>2. Admitted(state) BY DEF CommandCurrent
  <2>3. FilesStand'
    BY <2>2 DEF FilesStand, ArtifactsStand, Admitted
  <2>4. CommandCurrent(p)' BY <2>1 DEF CommandCurrent, Admitted
  <2> QED BY <2>1, <2>3, <2>4, MovesOn
<1>12. ASSUME NEW p \in Procs, AwaitReview(p) PROVE Sequential'
  <2> USE <1>12 DEF AwaitReview
  <2> DEFINE data == [mem[p] EXCEPT !.target = package[p].target,
                                    !.handoff = package[p]]
  <2>1. mem[p] \in Data /\ package[p] \in Package /\ handoffFile = package[p]
        /\ exists
    BY DEF IInv, CommandsTyped, CommandCurrent, FilesStand
  <2>2. /\ data \in Data /\ data.handoff = package[p]
        /\ data.target = package[p].target
    BY <2>1 DEF Data, Package
  <2>3. Continue(p, data, "AWAITING_REVIEW", "assert")
    OBVIOUS
  <2> HIDE DEF data
  <2>4. /\ Goto(p, "assert") /\ pc'[p] = "assert"
        /\ mem'[p] = state' /\ state' # None
        /\ state' = [data EXCEPT !.status = "AWAITING_REVIEW"]
        /\ state'.status = "AWAITING_REVIEW"
    BY <2>2, <2>3, ContinuesCurrent
  <2>5. state'.handoff = handoffFile /\ handoffFile.target = state'.target
    BY <2>1, <2>2, <2>4 DEF Data
  <2>6. FilesStand' BY <2>1, <2>4, <2>5 DEF FilesStand, ArtifactsStand
  <2>7. CommandCurrent(p)' BY <2>4 DEF CommandCurrent
  <2> QED BY <2>4, <2>6, <2>7, MovesOn
<1>31. ASSUME NEW p \in Procs, AssertReviewable(p) PROVE Sequential'
  <2> USE <1>31 DEF AssertReviewable, Reviewable
  <2>1. Goto(p, "dispatch") /\ pc'[p] = "dispatch"
    BY OthersIdle
  <2>2. FilesStand' BY DEF FilesStand, ArtifactsStand, GuardianIdentities
  <2>3. CommandCurrent(p)' BY <2>1 DEF CommandCurrent
  <2> QED BY <2>1, <2>2, <2>3, MovesOn
<1>13. ASSUME NEW p \in Procs, StartReview(p) PROVE Sequential'
  <2> USE <1>13 DEF StartReview
  <2>1. Goto(p, "reviewing") /\ pc'[p] = "reviewing"
    BY OthersIdle
  <2>2. FilesStand' BY DEF FilesStand, ArtifactsStand, GuardianIdentities
  <2>3. CommandCurrent(p)' BY <2>1 DEF CommandCurrent
  <2> QED BY <2>1, <2>2, <2>3, MovesOn
<1>14. ASSUME NEW p \in Procs, GuardianAnswers(p) PROVE Sequential'
  <2> USE <1>14 DEF GuardianAnswers
  <2>1. Goto(p, "reviewed") /\ pc'[p] = "reviewed"
    BY OthersIdle
  <2>2. FilesStand' BY DEF FilesStand, ArtifactsStand, GuardianIdentities
  <2>3. CommandCurrent(p)' BY <2>1 DEF CommandCurrent
  <2> QED BY <2>1, <2>2, <2>3, MovesOn
<1>15. ASSUME NEW p \in Procs, RecordVerdict(p) PROVE Sequential'
  <2> USE <1>15 DEF RecordVerdict, VerdictIsOwn
  <2>1. Goto(p, "verdict") /\ pc'[p] = "verdict" /\ verdict'[p] = guardianOutput
    BY OthersIdle DEF TypeOK
  <2>2. state.status = "AWAITING_REVIEW" /\ mem[p] = state
    BY DEF CommandCurrent
  <2>3. FilesStand' BY <2>2 DEF FilesStand, ArtifactsStand
  <2>4. CommandCurrent(p)' BY <2>1, <2>2 DEF CommandCurrent
  <2> QED BY <2>1, <2>3, <2>4, MovesOn
<1>16. ASSUME NEW p \in Procs, ApproveGuardian(p) PROVE Sequential'
  <2> USE <1>16 DEF ApproveGuardian, ApplyVerdict
  <2> DEFINE bound == [mem[p] EXCEPT !.verdict = verdict[p], !.session = session[p]]
             data  == [bound EXCEPT !.cycle = @ + 1]
  <2>1. /\ mem[p] \in Data /\ mem[p] = state
        /\ verdict[p] \in Verdict /\ session[p] \in 0 .. MaxSessions
        /\ state.status = "AWAITING_REVIEW" /\ exists
        /\ verdictFile = verdict[p] /\ verdict[p].target = state.target
        /\ verdict[p].session = session[p] /\ verdict[p].verdict = "APPROVED"
    BY DEF IInv, TypeOK, CommandsTyped, CommandCurrent, FilesStand
  <2>2. /\ bound \in Data /\ bound.verdict = verdict[p]
        /\ bound.session = session[p] /\ bound.handoff = mem[p].handoff
        /\ bound.target = mem[p].target
    BY <2>1 DEF Data
  <2>3. Transition(data, "GUARDIAN_APPROVED") /\ Exit(p) /\ pc[p] # "idle"
    OBVIOUS
  <2> HIDE DEF bound
  <2>4. /\ data \in Data /\ data.verdict = verdict[p]
        /\ data.handoff = mem[p].handoff /\ data.session = session[p]
        /\ data.target = mem[p].target
    BY <2>2, CycleCounted DEF Data
  <2> HIDE DEF data
  <2>5. /\ state' # None /\ state'.handoff = data.handoff
        /\ state'.verdict = data.verdict /\ state'.target = data.target
        /\ state'.session = data.session /\ state'.status = "GUARDIAN_APPROVED"
    BY <2>3, <2>4, TransitionTyped DEF Data
  <2>6. handoffFile = state.handoff /\ handoffFile.target = state.target
    BY <2>1, NoneIsNoRecord DEF FilesStand, ArtifactsStand
  <2>7. GuardianIdentities(state)'
    BY <2>1, <2>4, <2>5 DEF GuardianIdentities
  <2>8. FilesStand'
    BY <2>1, <2>4, <2>5, <2>6, <2>7 DEF FilesStand, ArtifactsStand
  <2> QED BY <2>3, <2>8, MovesOut
<1>17. ASSUME NEW p \in Procs, RequestChanges(p) \/ ReviewBlocked(p)
       PROVE  Sequential'
  <2> USE <1>17 DEF RequestChanges, ReviewBlocked, ApplyVerdict
  <2>1. /\ mem[p] \in Data /\ mem[p] = state
        /\ exists /\ pc[p] # "idle" /\ Exit(p) /\ exists' = exists
    BY DEF IInv, CommandsTyped, CommandCurrent, FilesStand
  <2>2. PICK data \in Data, status \in {"BUILDING", "BLOCKED"} :
          Transition(data, status)
    <3>1. CASE RequestChanges(p)
      <4> DEFINE data == [mem[p] EXCEPT !.target = None, !.verdict = None]
      <4>1. data \in Data
        BY <2>1 DEF Data
      <4>2. Transition([data EXCEPT !.cycle = @ + 1], "BUILDING")
        BY <3>1
      <4> HIDE DEF data
      <4>3. [data EXCEPT !.cycle = @ + 1] \in Data
        BY <4>1, CycleCounted
      <4> QED BY <4>2, <4>3
    <3>2. CASE ReviewBlocked(p)
      <4>1. Transition([mem[p] EXCEPT !.cycle = @ + 1], "BLOCKED")
        BY <3>2
      <4>2. [mem[p] EXCEPT !.cycle = @ + 1] \in Data
        BY <2>1, CycleCounted
      <4> QED BY <4>1, <4>2
    <3> QED BY <3>1, <3>2
  <2>3. state' # None /\ state'.status \in {"BUILDING", "BLOCKED"}
    BY <2>2, TransitionTyped DEF Data
  <2>4. FilesStand' BY <2>1, <2>3 DEF FilesStand, ArtifactsStand
  <2> QED BY <2>1, <2>4, MovesOut
<1>18. ASSUME NEW p \in Procs, StartVerification(p) PROVE Sequential'
  <2> USE <1>18 DEF StartVerification, Verifiable
  <2>1. /\ mem[p] \in Data /\ mem[p] = state /\ state # None /\ exists
        /\ state.status = "GUARDIAN_APPROVED"
    BY DEF IInv, CommandsTyped, CommandCurrent, FilesStand
  <2>2. /\ Goto(p, "verifying") /\ pc'[p] = "verifying"
        /\ mem'[p] = state' /\ state' # None
        /\ state' = [state EXCEPT !.status = "VERIFYING"]
        /\ state'.status = "VERIFYING"
    BY <2>1, ContinuesCurrent
  <2>3. /\ state'.handoff = state.handoff /\ state'.verdict = state.verdict
        /\ state'.target = state.target /\ state'.session = state.session
    BY <2>1, <2>2 DEF Data
  <2>4. FilesStand'
    BY <2>1, <2>2, <2>3 DEF FilesStand, ArtifactsStand, GuardianIdentities
  <2>5. CommandCurrent(p)' BY <2>2 DEF CommandCurrent
  <2> QED BY <2>2, <2>4, <2>5, MovesOn
<1>19. ASSUME NEW p \in Procs, CheckoutFails(p) \/ Refused(p) \/ Crash(p)
       PROVE  Sequential'
  <2> USE <1>19 DEF CheckoutFails, Refused, Crash
  <2>1. Exit(p) /\ pc[p] # "idle"
    OBVIOUS
  <2>2. FilesStand' BY DEF FilesStand, ArtifactsStand, GuardianIdentities
  <2> QED BY <2>1, <2>2, MovesOut
<1>20. ASSUME NEW p \in Procs, RunChecks(p) PROVE Sequential'
  <2> USE <1>20 DEF RunChecks
  <2>1. /\ Goto(p, "evidence") /\ pc'[p] = "evidence"
    BY OthersIdle
  <2>2. /\ mem[p] \in Data /\ mem[p] = state /\ state # None
        /\ state.status = "VERIFYING"
    BY DEF IInv, CommandsTyped, CommandCurrent
  <2>3. PICK result \in BOOLEAN :
          /\ evidenceFile' = [commit |-> mem[p].target, passed |-> result,
                              checks |-> contract]
          /\ mem' = [mem EXCEPT ![p].evidence =
                       [commit |-> mem[p].target, passed |-> result,
                        checks |-> contract]]
    OBVIOUS
  <2>4. mem'[p] = [state EXCEPT !.evidence = evidenceFile']
    BY <2>2, <2>3 DEF TypeOK
  <2>5. evidenceFile' # None
    BY <2>1 DEF IInv, CommandsTyped, TypeOK
  <2>6. FilesStand' BY <2>2 DEF FilesStand, ArtifactsStand, GuardianIdentities
  <2>7. CommandCurrent(p)'
    BY <2>1, <2>2, <2>3, <2>4, <2>5 DEF CommandCurrent
  <2> QED BY <2>1, <2>6, <2>7, MovesOn
<1>21. ASSUME NEW p \in Procs, Verified(p) PROVE Sequential'
  <2> USE <1>21 DEF Verified
  <2>1. /\ mem[p] \in Data /\ state # None /\ exists
        /\ mem[p] = [state EXCEPT !.evidence = evidenceFile]
        /\ evidenceFile # None /\ evidenceFile.commit = state.target
        /\ state.status = "VERIFYING" /\ state \in Data
    BY DEF IInv, TypeOK, CommandsTyped, CommandCurrent, FilesStand
  <2>2. /\ mem[p].evidence = evidenceFile /\ mem[p].target = state.target
        /\ mem[p].handoff = state.handoff /\ mem[p].verdict = state.verdict
        /\ mem[p].session = state.session
    BY <2>1 DEF Data
  <2>3. Transition(mem[p], "VERIFIED") /\ Exit(p) /\ pc[p] # "idle"
    OBVIOUS
  <2>4. /\ state' # None /\ state'.evidence = mem[p].evidence
        /\ state'.target = mem[p].target /\ state'.handoff = mem[p].handoff
        /\ state'.verdict = mem[p].verdict /\ state'.session = mem[p].session
        /\ state'.status = "VERIFIED"
    BY <2>1, <2>3, TransitionTyped DEF Data
  <2>5. FilesStand'
    BY <2>1, <2>2, <2>4 DEF FilesStand, ArtifactsStand, GuardianIdentities
  <2> QED BY <2>3, <2>5, MovesOut
<1>22. ASSUME NEW p \in Procs, VerificationFailed(p) PROVE Sequential'
  <2> USE <1>22 DEF VerificationFailed
  <2> DEFINE data == [mem[p] EXCEPT !.target = None, !.verdict = None,
                                    !.evidence = None]
  <2>1. mem[p] \in Data /\ exists
    BY DEF IInv, CommandsTyped, CommandCurrent, FilesStand
  <2>2. data \in Data /\ data.target = None
    BY <2>1 DEF Data
  <2>3. Continue(p, data, "VERIFICATION_FAILED", "returning")
    OBVIOUS
  <2> HIDE DEF data
  <2>4. /\ Goto(p, "returning") /\ pc'[p] = "returning"
        /\ mem'[p] = state' /\ state' # None
        /\ state' = [data EXCEPT !.status = "VERIFICATION_FAILED"]
        /\ state'.status = "VERIFICATION_FAILED"
    BY <2>2, <2>3, ContinuesCurrent
  <2>5. state'.target = None
    BY <2>2, <2>4 DEF Data
  <2>6. FilesStand' BY <2>1, <2>4 DEF FilesStand, ArtifactsStand
  <2>7. CommandCurrent(p)' BY <2>4, <2>5 DEF CommandCurrent
  <2> QED BY <2>4, <2>6, <2>7, MovesOn
<1>23. ASSUME NEW p \in Procs, ReturnToBuilder(p) PROVE Sequential'
  <2> USE <1>23 DEF ReturnToBuilder
  <2>1. mem[p] \in Data /\ exists
    BY DEF IInv, CommandsTyped, CommandCurrent, FilesStand
  <2>2. Transition(mem[p], "BUILDING") /\ Exit(p) /\ pc[p] # "idle"
    OBVIOUS
  <2>3. state' # None /\ state'.status = "BUILDING"
    BY <2>1, <2>2, TransitionTyped DEF Data
  <2>4. FilesStand' BY <2>1, <2>3 DEF FilesStand, ArtifactsStand
  <2> QED BY <2>2, <2>4, MovesOut
<1>24. ASSUME NEW p \in Procs, CheckReady(p) PROVE Sequential'
  <2> USE <1>24 DEF CheckReady, Shippable
  <2>1. Goto(p, "ready") /\ pc'[p] = "ready"
    BY OthersIdle
  <2>2. mem[p] = state
    BY DEF CommandCurrent
  <2>v. VerifiedCommits' = VerifiedCommits
    BY DEF VerifiedCommits
  <2>3. [commit |-> mem[p].target, session |-> mem[p].session] \in approvals
        /\ mem[p].target \in VerifiedCommits
    BY <2>1, <2>v DEF IInv, Grounded, CommandGrounded
  <2>4. FilesStand' BY DEF FilesStand, ArtifactsStand, GuardianIdentities
  <2>5. CommandCurrent(p)' BY <2>1, <2>2, <2>3, <2>v DEF CommandCurrent
  <2> QED BY <2>1, <2>4, <2>5, MovesOn
<1>25. ASSUME NEW p \in Procs, WriteReady(p) PROVE Sequential'
  <2> USE <1>25 DEF WriteReady
  <2>1. Goto(p, "shipping") /\ pc'[p] = "shipping"
    BY OthersIdle
  <2>2. FilesStand' BY DEF FilesStand, ArtifactsStand, GuardianIdentities
  <2>3. CommandCurrent(p)' BY <2>1 DEF CommandCurrent, VerifiedCommits
  <2> QED BY <2>1, <2>2, <2>3, MovesOn
<1>26. ASSUME NEW p \in Procs, Ship(p) PROVE Sequential'
  <2> USE <1>26 DEF Ship
  <2>1. /\ mem[p] \in Data /\ mem[p] = state /\ state # None /\ exists
        /\ state.status = "VERIFIED"
    BY DEF IInv, CommandsTyped, CommandCurrent, FilesStand
  <2>2. Transition(mem[p], "READY_TO_SHIP") /\ Exit(p) /\ pc[p] # "idle"
    OBVIOUS
  <2>3. /\ state' # None /\ state'.evidence = mem[p].evidence
        /\ state'.target = mem[p].target /\ state'.handoff = mem[p].handoff
        /\ state'.verdict = mem[p].verdict /\ state'.session = mem[p].session
        /\ state'.status = "READY_TO_SHIP"
    BY <2>1, <2>2, TransitionTyped DEF Data
  <2>4. FilesStand'
    BY <2>1, <2>3 DEF FilesStand, ArtifactsStand, GuardianIdentities
  <2> QED BY <2>2, <2>4, MovesOut
<1>27. ASSUME NEW w \in Worktrees, TouchWorktree(w) PROVE Sequential'
  BY <1>27 DEF TouchWorktree, Sequential, FilesStand, ArtifactsStand,
     CommandCurrent, GuardianIdentities, Admitted, VerifiedCommits
<1>28. CASE EditContract \/ RestoreContract
  BY <1>28 DEF EditContract, RestoreContract, Sequential, FilesStand,
     ArtifactsStand, CommandCurrent, GuardianIdentities, Admitted,
     VerifiedCommits
<1>29. CASE UNCHANGED vars
  BY <1>29 DEF vars, Sequential, FilesStand, ArtifactsStand,
     CommandCurrent, GuardianIdentities, Admitted, VerifiedCommits
<1>30. ASSUME NEW p \in Procs, OpenCommand(p) \/ \E given \in Package : OpenHandoff(p, given)
       PROVE  Sequential'
  BY <1>3, <1>30 DEF OpenCommand, OpenHandoff
<1> QED BY <1>1, <1>2, <1>30, <1>5, <1>6, <1>7, <1>8, <1>9, <1>10, <1>11,
     <1>12, <1>13, <1>14, <1>15, <1>16, <1>17, <1>18, <1>19, <1>20, <1>21,
     <1>22, <1>23, <1>24, <1>25, <1>26, <1>27, <1>28, <1>29, <1>31
  DEF Next, BuildStep, HandoffStep, ReviewStep, VerifyStep, GateStep

(* A run whose commands do not overlap stays so described.                  *)
LEMMA SequentialInvariant == Spec /\ []OneAtATime => [](IInv /\ Sequential)
<1>1. IInv /\ IInv' /\ OneAtATime /\ OneAtATime' /\ Sequential /\ [Next]_vars
      => Sequential'
  BY StepSequential
<1> QED BY <1>1, InitSequential, GroundedInvariant, PTL DEF Spec

(* From approval on, the artifacts in the task directory are those that     *)
(* state.json is bound to, and about one target - whatever the Builder and  *)
(* the Guardian answer, wherever commands are killed and whatever happens   *)
(* to worktrees and contract, as long as no two commands overlap.           *)
THEOREM ArtifactsStandSequentially == Spec /\ []OneAtATime => []ArtifactsStand
<1>1. Sequential => ArtifactsStand BY DEF Sequential, FilesStand
<1> QED BY <1>1, SequentialInvariant, PTL

-----------------------------------------------------------------------------
(* The state of the abstract task is that of state.json.                    *)
LEMMA PhaseOnFile ==
  ASSUME state # None
  PROVE  DeliveryPhase = state.status /\ DeliveryTarget = state.target
  BY DEF DeliveryPhase, DeliveryTarget

LEMMA PhaseWritten ==
  ASSUME NEW data \in Data, NEW status \in Statuses, Transition(data, status)
  PROVE  DeliveryPhase' = status /\ DeliveryTarget' = data.target
<1>1. /\ state' # None /\ state'.target = data.target
      /\ state' = [data EXCEPT !.status = status]
  BY TransitionTyped
<1>2. state'.status = status
  BY <1>1 DEF Data
<1> QED BY <1>1, <1>2 DEF DeliveryPhase, DeliveryTarget

LEMMA PhaseKept ==
  ASSUME UNCHANGED <<state, approvals, passed>>
  PROVE  UNCHANGED Delivery!deliveryVars
  BY DEF Delivery!deliveryVars, DeliveryPhase, DeliveryTarget, VerifiedCommits

(* Every step of such a run is a step of Delivery, or leaves it as it was.  *)
LEMMA StepDelivers ==
  ASSUME IInv, Sequential, [Next]_vars
  PROVE  [Delivery!Next]_(Delivery!deliveryVars)
<1> /\ TypeOK /\ CommandsTyped /\ Grounded
    /\ \A p \in Procs : CommandCurrent(p)
  BY DEF IInv, Sequential
<1> UNCHANGED passed => UNCHANGED VerifiedCommits
  BY DEF VerifiedCommits
<1> USE DEF Delivery!Move
<1>1. ASSUME NEW p \in Procs, SaveInitial(p) PROVE Delivery!Next
  <2>1. DeliveryPhase = "NONE" /\ DeliveryTarget = None
    BY <1>1 DEF SaveInitial, CommandCurrent, DeliveryPhase, DeliveryTarget
  <2>2. state' \in Data /\ state'.status = "CONTRACT_READY" /\ state'.target = None
    BY <1>1 DEF SaveInitial, Data
  <2>3. DeliveryPhase' = "CONTRACT_READY" /\ DeliveryTarget' = None
    BY <2>2 DEF DeliveryPhase, DeliveryTarget
  <2>4. Delivery!Contract
    BY <1>1, <2>1, <2>3 DEF SaveInitial, Delivery!Contract
  <2> QED BY <2>4 DEF Delivery!Next
<1>2. ASSUME NEW p \in Procs, StartBuilder(p)
      PROVE  [Delivery!Next]_(Delivery!deliveryVars)
  <2> USE <1>2 DEF StartBuilder, MayBuild, Admitted, Continue
  <2>1. /\ mem[p] \in Data /\ mem[p] = state /\ state # None
        /\ state.status \in {"CONTRACT_READY", "BUILDING"}
        /\ Transition(mem[p], "BUILDING") /\ UNCHANGED <<approvals, passed>>
    BY DEF CommandsTyped, CommandCurrent
  <2>2. /\ DeliveryPhase = state.status /\ DeliveryTarget = state.target
        /\ DeliveryPhase' = "BUILDING" /\ DeliveryTarget' = state.target
    BY <2>1, PhaseOnFile, PhaseWritten
  <2>3. CASE state.status = "CONTRACT_READY"
    <3>1. Delivery!Build BY <2>1, <2>2, <2>3 DEF Delivery!Build
    <3> QED BY <3>1 DEF Delivery!Next
  <2>4. CASE state.status = "BUILDING"
    BY <2>1, <2>2, <2>4 DEF Delivery!deliveryVars
  <2> QED BY <2>1, <2>3, <2>4
<1>3. ASSUME NEW p \in Procs,
             BuilderFailed(p) \/ RevisionLimitReached(p) \/ GuardianBlocked(p)
      PROVE  Delivery!Next
  <2> USE <1>3 DEF BuilderFailed, RevisionLimitReached, LimitReached,
        GuardianBlocked
  <2>1. /\ mem[p] \in Data /\ mem[p] = state /\ state # None
        /\ state.status \in {"BUILDING", "AWAITING_REVIEW"}
        /\ Transition(mem[p], "BLOCKED") /\ UNCHANGED <<approvals, passed>>
    BY DEF CommandsTyped, CommandCurrent
  <2>2. /\ DeliveryPhase = state.status /\ DeliveryTarget = state.target
        /\ DeliveryPhase' = "BLOCKED" /\ DeliveryTarget' = state.target
    BY <2>1, PhaseOnFile, PhaseWritten
  <2>3. Delivery!Block BY <2>1, <2>2 DEF Delivery!Block
  <2> QED BY <2>3 DEF Delivery!Next
<1>4. ASSUME NEW p \in Procs, AwaitReview(p) PROVE Delivery!Next
  <2> USE <1>4 DEF AwaitReview, Continue
  <2> DEFINE data == [mem[p] EXCEPT !.target = package[p].target,
                                    !.handoff = package[p]]
  <2>1. /\ mem[p] \in Data /\ mem[p] = state /\ state # None
        /\ package[p] \in Package
        /\ state.status \in {"CONTRACT_READY", "BUILDING"}
        /\ Transition(data, "AWAITING_REVIEW") /\ UNCHANGED <<approvals, passed>>
    BY DEF CommandsTyped, CommandCurrent, Admitted
  <2>2. data \in Data /\ data.target = package[p].target
    BY <2>1 DEF Data, Package
  <2> HIDE DEF data
  <2>3. /\ DeliveryPhase = state.status
        /\ DeliveryPhase' = "AWAITING_REVIEW"
        /\ DeliveryTarget' = package[p].target
    BY <2>1, <2>2, PhaseOnFile, PhaseWritten
  <2>4. Delivery!Submit(package[p].target) /\ package[p].target \in Commits
    BY <2>1, <2>3 DEF Delivery!Submit, Package
  <2> QED BY <2>4 DEF Delivery!Next
<1>5. ASSUME NEW p \in Procs, RecordVerdict(p)
      PROVE  [Delivery!Next]_(Delivery!deliveryVars)
  <2> USE <1>5 DEF RecordVerdict
  <2>1. /\ mem[p] \in Data /\ mem[p] = state /\ state # None
        /\ state.status = "AWAITING_REVIEW" /\ session[p] \in 1 .. MaxSessions
        /\ UNCHANGED <<state, passed>>
    BY DEF CommandsTyped, CommandCurrent
  <2>2. /\ DeliveryPhase = "AWAITING_REVIEW" /\ DeliveryTarget = mem[p].target
        /\ UNCHANGED <<DeliveryPhase, DeliveryTarget>>
    BY <2>1 DEF DeliveryPhase, DeliveryTarget
  <2>3. CASE guardianOutput.verdict = "APPROVED"
    <3>1. Delivery!Review(session[p])
      BY <2>1, <2>2, <2>3 DEF Delivery!Review
    <3> QED BY <2>1, <3>1 DEF Delivery!Next
  <2>4. CASE guardianOutput.verdict # "APPROVED"
    BY <2>1, <2>4, PhaseKept
  <2> QED BY <2>3, <2>4
<1>6. ASSUME NEW p \in Procs, ApproveGuardian(p) PROVE Delivery!Next
  <2> USE <1>6 DEF ApproveGuardian, ApplyVerdict
  <2> DEFINE bound == [mem[p] EXCEPT !.verdict = verdict[p], !.session = session[p]]
             data  == [bound EXCEPT !.cycle = @ + 1]
  <2>1. /\ mem[p] \in Data /\ mem[p] = state
        /\ verdict[p] \in Verdict /\ session[p] \in 0 .. MaxSessions
        /\ state # None /\ state.status = "AWAITING_REVIEW"
        /\ verdict[p].target = state.target
        /\ Transition(data, "GUARDIAN_APPROVED") /\ UNCHANGED <<approvals, passed>>
    BY DEF TypeOK, CommandsTyped, CommandCurrent
  <2>2. [commit |-> state.target, session |-> verdict[p].session] \in approvals
    BY <2>1 DEF Grounded, CommandGrounded
  <2>3. bound \in Data /\ bound.target = state.target
    BY <2>1 DEF Data
  <2> HIDE DEF bound
  <2>4. data \in Data /\ data.target = state.target
    BY <2>3, CycleCounted DEF Data
  <2> HIDE DEF data
  <2>5. /\ DeliveryPhase = "AWAITING_REVIEW" /\ DeliveryTarget = state.target
        /\ DeliveryPhase' = "GUARDIAN_APPROVED" /\ DeliveryTarget' = state.target
    BY <2>1, <2>4, PhaseOnFile, PhaseWritten
  <2>6. Delivery!Approved
    BY <2>1, <2>2, <2>5 DEF Delivery!Approved, Verdict
  <2>7. Delivery!Approve
    BY <2>1, <2>5, <2>6 DEF Delivery!Approve
  <2> QED BY <2>7 DEF Delivery!Next
<1>7. ASSUME NEW p \in Procs, RequestChanges(p) PROVE Delivery!Next
  <2> USE <1>7 DEF RequestChanges, ApplyVerdict
  <2> DEFINE bare == [mem[p] EXCEPT !.target = None, !.verdict = None]
             data == [bare EXCEPT !.cycle = @ + 1]
  <2>1. /\ mem[p] \in Data /\ mem[p] = state
        /\ state # None /\ state.status = "AWAITING_REVIEW"
        /\ Transition(data, "BUILDING") /\ UNCHANGED <<approvals, passed>>
    BY DEF CommandsTyped, CommandCurrent
  <2>2. bare \in Data /\ bare.target = None
    BY <2>1 DEF Data
  <2> HIDE DEF bare
  <2>3. data \in Data /\ data.target = None
    BY <2>2, CycleCounted DEF Data
  <2> HIDE DEF data
  <2>4. /\ DeliveryPhase = "AWAITING_REVIEW"
        /\ DeliveryPhase' = "BUILDING" /\ DeliveryTarget' = None
    BY <2>1, <2>3, PhaseOnFile, PhaseWritten
  <2>5. Delivery!Return
    BY <2>1, <2>4 DEF Delivery!Return
  <2> QED BY <2>5 DEF Delivery!Next
<1>8. ASSUME NEW p \in Procs, ReviewBlocked(p) PROVE Delivery!Next
  <2> USE <1>8 DEF ReviewBlocked, ApplyVerdict
  <2> DEFINE data == [mem[p] EXCEPT !.cycle = @ + 1]
  <2>1. /\ mem[p] \in Data /\ mem[p] = state
        /\ state # None /\ state.status = "AWAITING_REVIEW"
        /\ Transition(data, "BLOCKED") /\ UNCHANGED <<approvals, passed>>
    BY DEF CommandsTyped, CommandCurrent
  <2>2. data \in Data /\ data.target = state.target
    BY <2>1, CycleCounted DEF Data
  <2> HIDE DEF data
  <2>3. /\ DeliveryPhase = "AWAITING_REVIEW" /\ DeliveryTarget = state.target
        /\ DeliveryPhase' = "BLOCKED" /\ DeliveryTarget' = state.target
    BY <2>1, <2>2, PhaseOnFile, PhaseWritten
  <2>4. Delivery!Block
    BY <2>1, <2>3 DEF Delivery!Block
  <2> QED BY <2>4 DEF Delivery!Next
<1>9. ASSUME NEW p \in Procs, StartVerification(p) PROVE Delivery!Next
  <2> USE <1>9 DEF StartVerification, Verifiable, Continue
  <2>1. /\ mem[p] \in Data /\ mem[p] = state /\ state # None
        /\ state.status = "GUARDIAN_APPROVED"
        /\ Transition(mem[p], "VERIFYING") /\ UNCHANGED <<approvals, passed>>
    BY DEF CommandsTyped, CommandCurrent
  <2>2. /\ DeliveryPhase = "GUARDIAN_APPROVED" /\ DeliveryTarget = state.target
        /\ DeliveryPhase' = "VERIFYING" /\ DeliveryTarget' = state.target
    BY <2>1, PhaseOnFile, PhaseWritten
  <2>3. Delivery!Verify BY <2>1, <2>2 DEF Delivery!Verify
  <2> QED BY <2>3 DEF Delivery!Next
<1>10. ASSUME NEW p \in Procs, RunChecks(p)
       PROVE  [Delivery!Next]_(Delivery!deliveryVars)
  <2> USE <1>10 DEF RunChecks
  <2>1. /\ mem[p] \in Data /\ mem[p] = state /\ state # None
        /\ state.status = "VERIFYING" /\ UNCHANGED <<state, approvals>>
    BY DEF CommandsTyped, CommandCurrent
  <2>2. /\ DeliveryPhase = "VERIFYING" /\ DeliveryTarget = mem[p].target
        /\ UNCHANGED <<DeliveryPhase, DeliveryTarget>>
    BY <2>1 DEF DeliveryPhase, DeliveryTarget
  <2>3. \/ passed' = passed \cup {[commit |-> mem[p].target, checks |-> contract]}
        \/ passed' = passed
    OBVIOUS
  <2>4. CASE passed' = passed \cup {[commit |-> mem[p].target, checks |-> contract]}
    <3>0. VerifiedCommits' = VerifiedCommits \cup {mem[p].target}
      <4> DEFINE run == [commit |-> mem[p].target, checks |-> contract]
      <4>1. run.commit = mem[p].target /\ passed' = passed \cup {run}
        BY <2>4
      <4> HIDE DEF run
      <4>2. ASSUME NEW c
            PROVE  c \in VerifiedCommits' <=>
                     c \in VerifiedCommits \/ c = mem[p].target
        BY <4>1, Zenon DEF VerifiedCommits
      <4> QED BY <4>2
    <3>1. Delivery!Check BY <2>1, <2>2, <3>0 DEF Delivery!Check
    <3> QED BY <3>1 DEF Delivery!Next
  <2>5. CASE passed' = passed
    BY <2>1, <2>5, PhaseKept
  <2> QED BY <2>3, <2>4, <2>5
<1>11. ASSUME NEW p \in Procs, Verified(p) PROVE Delivery!Next
  <2> USE <1>11 DEF Verified
  <2>1. /\ mem[p] \in Data /\ state # None /\ state \in Data
        /\ mem[p] = [state EXCEPT !.evidence = evidenceFile]
        /\ state.status = "VERIFYING"
        /\ Transition(mem[p], "VERIFIED") /\ UNCHANGED <<approvals, passed>>
    BY DEF TypeOK, CommandsTyped, CommandCurrent
  <2>2. mem[p].target = state.target
    BY <2>1 DEF Data
  <2>3. /\ DeliveryPhase = "VERIFYING" /\ DeliveryTarget = state.target
        /\ DeliveryPhase' = "VERIFIED" /\ DeliveryTarget' = state.target
    BY <2>1, <2>2, PhaseOnFile, PhaseWritten
  <2>4. Delivery!Pass BY <2>1, <2>3 DEF Delivery!Pass
  <2> QED BY <2>4 DEF Delivery!Next
<1>12. ASSUME NEW p \in Procs, VerificationFailed(p) PROVE Delivery!Next
  <2> USE <1>12 DEF VerificationFailed, Continue
  <2> DEFINE data == [mem[p] EXCEPT !.target = None, !.verdict = None,
                                    !.evidence = None]
  <2>1. /\ mem[p] \in Data /\ state # None /\ state.status = "VERIFYING"
        /\ Transition(data, "VERIFICATION_FAILED")
        /\ UNCHANGED <<approvals, passed>>
    BY DEF CommandsTyped, CommandCurrent
  <2>2. data \in Data /\ data.target = None
    BY <2>1 DEF Data
  <2> HIDE DEF data
  <2>3. /\ DeliveryPhase = "VERIFYING"
        /\ DeliveryPhase' = "VERIFICATION_FAILED" /\ DeliveryTarget' = None
    BY <2>1, <2>2, PhaseOnFile, PhaseWritten
  <2>4. Delivery!Return BY <2>1, <2>3 DEF Delivery!Return
  <2> QED BY <2>4 DEF Delivery!Next
<1>13. ASSUME NEW p \in Procs, ReturnToBuilder(p) PROVE Delivery!Next
  <2> USE <1>13 DEF ReturnToBuilder
  <2>1. /\ mem[p] \in Data /\ mem[p] = state /\ state # None
        /\ state.status = "VERIFICATION_FAILED" /\ state.target = None
        /\ Transition(mem[p], "BUILDING") /\ UNCHANGED <<approvals, passed>>
    BY DEF CommandsTyped, CommandCurrent
  <2>2. /\ DeliveryPhase = "VERIFICATION_FAILED"
        /\ DeliveryPhase' = "BUILDING" /\ DeliveryTarget' = None
    BY <2>1, PhaseOnFile, PhaseWritten
  <2>3. Delivery!Return BY <2>1, <2>2 DEF Delivery!Return
  <2> QED BY <2>3 DEF Delivery!Next
<1>14. ASSUME NEW p \in Procs, Ship(p) PROVE Delivery!Next
  <2> USE <1>14 DEF Ship
  <2>1. /\ mem[p] \in Data /\ mem[p] = state /\ state # None
        /\ state.status = "VERIFIED" /\ state.target \in VerifiedCommits
        /\ [commit |-> state.target, session |-> state.session] \in approvals
        /\ Transition(mem[p], "READY_TO_SHIP") /\ UNCHANGED <<approvals, passed>>
    BY DEF CommandsTyped, CommandCurrent
  <2>2. /\ DeliveryPhase = "VERIFIED" /\ DeliveryTarget = state.target
        /\ DeliveryPhase' = "READY_TO_SHIP" /\ DeliveryTarget' = state.target
    BY <2>1, PhaseOnFile, PhaseWritten
  <2>3. state.session \in 1 .. MaxSessions
    BY <2>1 DEF TypeOK, Ready
  <2>4. Delivery!Approved
    BY <2>1, <2>2, <2>3 DEF Delivery!Approved
  <2>5. Delivery!Ship
    BY <2>1, <2>2, <2>4 DEF Delivery!Ship
  <2> QED BY <2>5 DEF Delivery!Next
<1>15. CASE UNCHANGED <<state, approvals, passed>>
  BY <1>15, PhaseKept
<1>16. UNCHANGED <<state, approvals, passed>>
       \/ \E p \in Procs :
            \/ SaveInitial(p) \/ StartBuilder(p) \/ BuilderFailed(p)
            \/ RevisionLimitReached(p) \/ GuardianBlocked(p) \/ AwaitReview(p)
            \/ RecordVerdict(p) \/ ApproveGuardian(p) \/ RequestChanges(p)
            \/ ReviewBlocked(p) \/ StartVerification(p) \/ RunChecks(p)
            \/ Verified(p) \/ VerificationFailed(p) \/ ReturnToBuilder(p)
            \/ Ship(p)
  BY DEF Next, vars, BuildStep, HandoffStep, ReviewStep, VerifyStep, GateStep,
     MakeDirectory, OpenCommand, OpenHandoff, Open, BuilderAnswers,
     CompleteBuilder, CheckHandoff, BuilderChecksPass, StoreHandoff,
     AssertReviewable, StartReview, GuardianAnswers, CheckoutFails, CheckReady,
     WriteReady, Refused, Crash, TouchWorktree, EditContract, RestoreContract
<1> QED BY <1>1, <1>2, <1>3, <1>4, <1>5, <1>6, <1>7, <1>8, <1>9, <1>10, <1>11,
     <1>12, <1>13, <1>14, <1>15, <1>16

(* A run whose commands do not overlap follows the state flow: a target is  *)
(* submitted, reviewed, approved, verified and shipped, in this order, and  *)
(* ships only approved and verified as it stands.                           *)
THEOREM DeliveryImplemented == Spec /\ []OneAtATime => ImplementsDelivery
<1>1. Init => Delivery!Init
  BY DEF Init, Delivery!Init, DeliveryPhase, DeliveryTarget, VerifiedCommits
<1>2. IInv /\ Sequential /\ [Next]_vars => [Delivery!Next]_(Delivery!deliveryVars)
  BY StepDelivers
<1> QED BY <1>1, <1>2, SequentialInvariant, PTL
    DEF Spec, ImplementsDelivery, Delivery!Spec

(* Once the gate has written READY_TO_SHIP, no later command moves          *)
(* state.json, ready.json or the handoff it rests on.                       *)
LEMMA StepStands ==
  ASSUME IInv, Sequential, [Next]_vars, state # None,
         state.status = "READY_TO_SHIP"
  PROVE  UNCHANGED <<state, readyFile, handoffFile>>
<1>1. ASSUME NEW p \in Procs
      PROVE  /\ pc[p] \in {"idle", "build", "handoff", "assert", "verify", "gate"}
             /\ pc[p] # "idle" => mem[p] = state
             /\ ~Admitted(state)
  BY DEF IInv, Sequential, TypeOK, CommandCurrent, Admitted
<1>2. ASSUME NEW p \in Procs, BuildStep(p) \/ HandoffStep(p)
      PROVE  FALSE
  BY <1>1, <1>2 DEF BuildStep, HandoffStep, StartBuilder, MayBuild,
     BuilderAnswers, BuilderFailed, CompleteBuilder, CheckHandoff, Acceptable,
     BuilderChecksPass, StoreHandoff, AwaitReview
<1>3. ASSUME NEW p \in Procs, ReviewStep(p) \/ VerifyStep(p) \/ GateStep(p)
      PROVE  FALSE
  BY <1>1, <1>3 DEF ReviewStep, VerifyStep, GateStep, AssertReviewable,
     StartReview, Reviewable, RevisionLimitReached, LimitReached,
     GuardianAnswers, GuardianBlocked, RecordVerdict,
     ApproveGuardian, RequestChanges, ReviewBlocked, ApplyVerdict,
     StartVerification, Verifiable, CheckoutFails, RunChecks, Verified,
     VerificationFailed, ReturnToBuilder, CheckReady, Shippable, WriteReady, Ship
<1>4. ASSUME NEW p \in Procs, SaveInitial(p) PROVE FALSE
  BY <1>1, <1>4 DEF SaveInitial
<1> QED BY <1>2, <1>3, <1>4 DEF Next, vars, MakeDirectory, OpenCommand,
     OpenHandoff, Open, Refused, Crash, TouchWorktree, EditContract,
     RestoreContract

(* "ready evidence cannot be superseded by a later handoff": true of        *)
(* commands that do not overlap.                                            *)
THEOREM ReadyStandsSequentially == Spec /\ []OneAtATime => ReadyStands
<1>1. IInv /\ Sequential /\ [Next]_vars =>
        [state # None /\ state.status = "READY_TO_SHIP" =>
           UNCHANGED <<state, readyFile, handoffFile>>]_vars
  BY StepStands
<1> QED BY <1>1, SequentialInvariant, PTL DEF Spec, ReadyStands

(* It is enough that there is one process to run them.                      *)
THEOREM OneProcessIsEnough ==
  ASSUME NEW c, Procs = {c}
  PROVE  Spec => []OneAtATime
<1>1. OneAtATime BY DEF OneAtATime
<1> QED BY <1>1, PTL

(* What the abstract flow is good for: while state.json says READY_TO_SHIP, *)
(* its target is approved by a session and has passed the final checks of   *)
(* contract.json as it then was, whatever happened since.                   *)
ShippedDelivered ==
  DeliveryPhase = "READY_TO_SHIP" =>
    Delivery!Approved /\ DeliveryTarget \in VerifiedCommits

(* ShippedDelivered, for commands one after another: it holds of the        *)
(* abstract flow, which the coordinator implements.                         *)
THEOREM ShippedIsDelivered == Spec /\ []OneAtATime => []ShippedDelivered
<1>1. Delivery!Init => ShippedDelivered
  BY DEF Delivery!Init, ShippedDelivered
<1>2. ShippedDelivered /\ [Delivery!Next]_(Delivery!deliveryVars)
      => ShippedDelivered'
  BY DEF ShippedDelivered, Delivery!Next, Delivery!deliveryVars,
     Delivery!Approved, Delivery!Move, Delivery!Contract, Delivery!Build,
     Delivery!Submit, Delivery!Review, Delivery!Approve, Delivery!Verify,
     Delivery!Check, Delivery!Pass, Delivery!Return, Delivery!Block,
     Delivery!Ship
<1> QED BY <1>1, <1>2, DeliveryImplemented, PTL
    DEF ImplementsDelivery, Delivery!Spec
=============================================================================
