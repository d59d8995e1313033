-------------------------- MODULE WriterClaimProofs --------------------------
(***************************************************************************)
(* Proofs about WriterClaim, for any sets of invocations, sessions, heads  *)
(* and operators and any bounds.                                           *)
(***************************************************************************)
EXTENDS WriterClaim, TLAPS

USE NoSessionAssumption, FreeAssumption, NoTxnAssumption
    DEF Labels, LockedLabels, TakeoverLabels, files, work, callers, locals

(* The types and the agreement of files and invocations hold each other up: *)
(* a takeover writes a well-formed event only because it knows its writer,  *)
(* so neither is inductive without the other.                               *)
IInv == TypeOK /\ ClaimConsistent

-----------------------------------------------------------------------------
(* The empty task directory and idle invocations satisfy the invariant.     *)
LEMMA InitConsistent == Init => IInv
<1> SUFFICES ASSUME Init PROVE IInv
  OBVIOUS
<1>1. TypeOK
  <2> USE DEF Init
  <2>1. lock \in BOOLEAN /\ stray \in BOOLEAN /\ dirty \in BOOLEAN
    OBVIOUS
  <2>2. owner \in Sessions \cup {NoSession} /\ oplock \in Procs \cup {Free}
    OBVIOUS
  <2>3. txn \in Displacement \cup {NoTxn} /\ traj \in Seq(Displacement)
    OBVIOUS
  <2>4. head \in Heads /\ evidence \in Heads \cup {NoEvidence}
    OBVIOUS
  <2>5. /\ running \subseteq Sessions /\ holds \subseteq Sessions
        /\ stopped \subseteq Sessions
    OBVIOUS
  <2>6. pc \in [Procs -> Labels] /\ idHead \in [Procs -> Heads]
    OBVIOUS
  <2>7. /\ sess \in [Procs -> Sessions \cup {NoSession}]
        /\ prev \in [Procs -> Sessions \cup {NoSession}]
        /\ seen \in [Procs -> Sessions \cup {NoSession}]
    OBVIOUS
  <2>8. faults \in Nat
    OBVIOUS
  <2> QED BY <2>1, <2>2, <2>3, <2>4, <2>5, <2>6, <2>7, <2>8 DEF TypeOK
<1>2. ClaimConsistent
  BY DEF Init, ClaimConsistent, LockMatchesLabels, FilesNested, AcquirerAlone,
         OwnerOperationsAligned, TakeoverAligned
<1> QED BY <1>1, <1>2 DEF IInv

(* Every step of an invocation, of a caller or of an interruption keeps the *)
(* types and the agreement of the claim's files with the invocations.       *)
LEMMA StepConsistent == IInv /\ [Next]_vars => IInv'
<1> SUFFICES ASSUME IInv, [Next]_vars PROVE IInv'
  OBVIOUS
<1> USE DEF IInv, ClaimConsistent
<1>1. ASSUME NEW p \in Procs, NEW s \in Sessions, AcquireMkdir(p, s) PROVE IInv'
  <2> USE <1>1 DEF AcquireMkdir, Goto
  <2>1. TypeOK' BY DEF TypeOK
  <2>2. LockMatchesLabels' BY DEF TypeOK, LockMatchesLabels
  <2>3. FilesNested' BY DEF TypeOK, FilesNested
  <2>4. AcquirerAlone' BY DEF TypeOK, AcquirerAlone, FilesNested,
        OwnerOperationsAligned
  <2>5. OwnerOperationsAligned' BY DEF TypeOK, OwnerOperationsAligned
  <2>6. TakeoverAligned' BY DEF TypeOK, TakeoverAligned, DisplacementBy
  <2> QED BY <2>1, <2>2, <2>3, <2>4, <2>5, <2>6
<1>2. ASSUME NEW p \in Procs, NEW s \in Sessions, HeartbeatCheck(p, s) PROVE IInv'
  <2> USE <1>2 DEF HeartbeatCheck, Goto, AcquireOpLock, Trusted
  <2>1. TypeOK' BY DEF TypeOK
  <2>2. LockMatchesLabels' BY DEF TypeOK, LockMatchesLabels
  <2>3. FilesNested' BY DEF TypeOK, FilesNested
  <2>4. AcquirerAlone' BY DEF TypeOK, AcquirerAlone
  <2>5. OwnerOperationsAligned' BY DEF TypeOK, OwnerOperationsAligned
  <2>6. TakeoverAligned' BY DEF TypeOK, TakeoverAligned, DisplacementBy
  <2> QED BY <2>1, <2>2, <2>3, <2>4, <2>5, <2>6
<1>3. ASSUME NEW p \in Procs, NEW s \in Sessions, ReleaseCheck(p, s) PROVE IInv'
  <2> USE <1>3 DEF ReleaseCheck, Goto, AcquireOpLock, Trusted
  <2>1. TypeOK' BY DEF TypeOK
  <2>2. LockMatchesLabels' BY DEF TypeOK, LockMatchesLabels
  <2>3. FilesNested' BY DEF TypeOK, FilesNested
  <2>4. AcquirerAlone' BY DEF TypeOK, AcquirerAlone
  <2>5. OwnerOperationsAligned' BY DEF TypeOK, OwnerOperationsAligned
  <2>6. TakeoverAligned' BY DEF TypeOK, TakeoverAligned, DisplacementBy
  <2> QED BY <2>1, <2>2, <2>3, <2>4, <2>5, <2>6
<1>4. ASSUME NEW p \in Procs, NEW s \in Sessions, OrderTakeover(p, s) PROVE IInv'
  <2> USE <1>4 DEF OrderTakeover, Goto, Trusted
  <2>1. TypeOK' BY DEF TypeOK, DisplacementBy, Displacement
  <2>2. LockMatchesLabels' BY DEF TypeOK, LockMatchesLabels
  <2>3. FilesNested' BY DEF TypeOK, FilesNested
  <2>4. AcquirerAlone' BY DEF TypeOK, AcquirerAlone
  <2>5. OwnerOperationsAligned' BY DEF TypeOK, OwnerOperationsAligned
  <2>6. TakeoverAligned' BY DEF TypeOK, TakeoverAligned, DisplacementBy
  <2> QED BY <2>1, <2>2, <2>3, <2>4, <2>5, <2>6
<1>5. ASSUME NEW p \in Procs, AcquireWriteClaim(p) PROVE IInv'
  <2> USE <1>5 DEF AcquireWriteClaim, Goto
  <2>1. TypeOK' BY DEF TypeOK, AcquirerAlone
  <2>2. LockMatchesLabels' BY DEF TypeOK, LockMatchesLabels
  <2>3. FilesNested' BY DEF TypeOK, FilesNested, AcquirerAlone
  <2>4. AcquirerAlone' BY DEF TypeOK, AcquirerAlone
  <2>5. OwnerOperationsAligned' BY DEF TypeOK, OwnerOperationsAligned,
        AcquirerAlone
  <2>6. TakeoverAligned' BY DEF TypeOK, TakeoverAligned, DisplacementBy,
        AcquirerAlone
  <2> QED BY <2>1, <2>2, <2>3, <2>4, <2>5, <2>6
<1>6. ASSUME NEW p \in Procs, InspectTransaction(p) PROVE IInv'
  <2> USE <1>6 DEF InspectTransaction, Goto
  <2>1. TypeOK' BY DEF TypeOK
  <2>2. LockMatchesLabels' BY DEF TypeOK, LockMatchesLabels
  <2>3. FilesNested' BY DEF TypeOK, FilesNested
  <2>4. AcquirerAlone' BY DEF TypeOK, AcquirerAlone
  <2>5. OwnerOperationsAligned' BY DEF TypeOK, OwnerOperationsAligned
  <2>6. TakeoverAligned' BY DEF TypeOK, TakeoverAligned, DisplacementBy
  <2> QED BY <2>1, <2>2, <2>3, <2>4, <2>5, <2>6
<1>7. ASSUME NEW p \in Procs, InspectOwner(p) PROVE IInv'
  <2> USE <1>7 DEF InspectOwner, Goto
  <2>1. TypeOK' BY DEF TypeOK
  <2>2. LockMatchesLabels' BY DEF TypeOK, LockMatchesLabels
  <2>3. FilesNested' BY DEF TypeOK, FilesNested
  <2>4. AcquirerAlone' BY DEF TypeOK, AcquirerAlone
  <2>5. OwnerOperationsAligned' BY DEF TypeOK, OwnerOperationsAligned
  <2>6. TakeoverAligned' BY DEF TypeOK, TakeoverAligned, DisplacementBy
  <2> QED BY <2>1, <2>2, <2>3, <2>4, <2>5, <2>6
<1>8. ASSUME NEW p \in Procs, HeartbeatWrite(p) PROVE IInv'
  <2> USE <1>8 DEF HeartbeatWrite, Goto, ReleaseOpLock
  <2>1. TypeOK' BY DEF TypeOK, OwnerOperationsAligned
  <2>2. LockMatchesLabels' BY DEF TypeOK, LockMatchesLabels
  <2>3. FilesNested' BY DEF TypeOK, FilesNested, OwnerOperationsAligned
  <2>4. AcquirerAlone' BY DEF TypeOK, AcquirerAlone, OwnerOperationsAligned
  <2>5. OwnerOperationsAligned' BY DEF TypeOK, OwnerOperationsAligned
  <2>6. TakeoverAligned' BY DEF TypeOK, TakeoverAligned, DisplacementBy,
        OwnerOperationsAligned
  <2> QED BY <2>1, <2>2, <2>3, <2>4, <2>5, <2>6
<1>9. ASSUME NEW p \in Procs, ReleaseUnlink(p) PROVE IInv'
  <2> USE <1>9 DEF ReleaseUnlink, Goto
  <2>1. TypeOK' BY DEF TypeOK
  <2>2. LockMatchesLabels' BY DEF TypeOK, LockMatchesLabels
  <2>3. FilesNested' BY DEF TypeOK, FilesNested, OwnerOperationsAligned
  <2>4. AcquirerAlone' BY DEF TypeOK, AcquirerAlone, OwnerOperationsAligned
  <2>5. OwnerOperationsAligned' BY DEF TypeOK, OwnerOperationsAligned,
        LockMatchesLabels, FilesNested
  <2>6. TakeoverAligned' BY DEF TypeOK, TakeoverAligned, DisplacementBy,
        LockMatchesLabels
  <2> QED BY <2>1, <2>2, <2>3, <2>4, <2>5, <2>6
<1>10. ASSUME NEW p \in Procs, ReleaseRmdir(p) PROVE IInv'
  <2> USE <1>10 DEF ReleaseRmdir, Goto, ReleaseOpLock
  <2>1. TypeOK' BY DEF TypeOK
  <2>2. LockMatchesLabels' BY DEF TypeOK, LockMatchesLabels
  <2>3. FilesNested' BY DEF TypeOK, FilesNested, OwnerOperationsAligned
  <2>4. AcquirerAlone' BY DEF TypeOK, AcquirerAlone
  <2>5. OwnerOperationsAligned' BY DEF TypeOK, OwnerOperationsAligned,
        LockMatchesLabels
  <2>6. TakeoverAligned' BY DEF TypeOK, TakeoverAligned, DisplacementBy
  <2> QED BY <2>1, <2>2, <2>3, <2>4, <2>5, <2>6
<1>11. ASSUME NEW p \in Procs, TakeoverCheck(p) PROVE IInv'
  <2> USE <1>11 DEF TakeoverCheck, Goto, AcquireOpLock, Trusted
  <2>1. TypeOK' BY DEF TypeOK, DisplacementBy, Displacement
  <2>2. LockMatchesLabels' BY DEF TypeOK, LockMatchesLabels
  <2>3. FilesNested' BY DEF TypeOK, FilesNested
  <2>4. AcquirerAlone' BY DEF TypeOK, AcquirerAlone
  <2>5. OwnerOperationsAligned' BY DEF TypeOK, OwnerOperationsAligned
  <2>6. TakeoverAligned' BY DEF TypeOK, TakeoverAligned, DisplacementBy
  <2> QED BY <2>1, <2>2, <2>3, <2>4, <2>5, <2>6
<1>12. ASSUME NEW p \in Procs, TakeoverGit(p) PROVE IInv'
  <2> USE <1>12 DEF TakeoverGit, Goto, Reconcile
  <2>1. TypeOK' BY DEF TypeOK, DisplacementBy, Displacement
  <2>2. LockMatchesLabels' BY DEF TypeOK, LockMatchesLabels
  <2>3. FilesNested' BY DEF TypeOK, FilesNested
  <2>4. AcquirerAlone' BY DEF TypeOK, AcquirerAlone
  <2>5. OwnerOperationsAligned' BY DEF TypeOK, OwnerOperationsAligned
  <2>6. TakeoverAligned' BY DEF TypeOK, TakeoverAligned, DisplacementBy
  <2> QED BY <2>1, <2>2, <2>3, <2>4, <2>5, <2>6
<1>13. ASSUME NEW p \in Procs, TakeoverScan(p) PROVE IInv'
  <2> USE <1>13 DEF TakeoverScan, Goto, Reconcile, NoActiveProcesses
  <2>1. TypeOK' BY DEF TypeOK, DisplacementBy, Displacement
  <2>2. LockMatchesLabels' BY DEF TypeOK, LockMatchesLabels
  <2>3. FilesNested' BY DEF TypeOK, FilesNested
  <2>4. AcquirerAlone' BY DEF TypeOK, AcquirerAlone
  <2>5. OwnerOperationsAligned' BY DEF TypeOK, OwnerOperationsAligned
  <2>6. TakeoverAligned' BY DEF TypeOK, TakeoverAligned, DisplacementBy
  <2> QED BY <2>1, <2>2, <2>3, <2>4, <2>5, <2>6
<1>14. ASSUME NEW p \in Procs, TakeoverEvidence(p) PROVE IInv'
  <2> USE <1>14 DEF TakeoverEvidence, Goto, Reconcile
  <2>1. TypeOK' BY DEF TypeOK, DisplacementBy, Displacement
  <2>2. LockMatchesLabels' BY DEF TypeOK, LockMatchesLabels
  <2>3. FilesNested' BY DEF TypeOK, FilesNested
  <2>4. AcquirerAlone' BY DEF TypeOK, AcquirerAlone
  <2>5. OwnerOperationsAligned' BY DEF TypeOK, OwnerOperationsAligned
  <2>6. TakeoverAligned' BY DEF TypeOK, TakeoverAligned, DisplacementBy
  <2> QED BY <2>1, <2>2, <2>3, <2>4, <2>5, <2>6
<1>15. ASSUME NEW p \in Procs, TakeoverRefused(p) PROVE IInv'
  <2> USE <1>15 DEF TakeoverRefused, Goto
  <2>1. TypeOK' BY DEF TypeOK, DisplacementBy, Displacement
  <2>2. LockMatchesLabels' BY DEF TypeOK, LockMatchesLabels
  <2>3. FilesNested' BY DEF TypeOK, FilesNested
  <2>4. AcquirerAlone' BY DEF TypeOK, AcquirerAlone
  <2>5. OwnerOperationsAligned' BY DEF TypeOK, OwnerOperationsAligned
  <2>6. TakeoverAligned' BY DEF TypeOK, TakeoverAligned, DisplacementBy
  <2> QED BY <2>1, <2>2, <2>3, <2>4, <2>5, <2>6
<1>16. ASSUME NEW p \in Procs, TakeoverWriteTransaction(p) PROVE IInv'
  <2> USE <1>16 DEF TakeoverWriteTransaction, Goto
  <2>1. TypeOK' BY DEF TypeOK, DisplacementBy, Displacement, TakeoverAligned
  <2>2. LockMatchesLabels' BY DEF TypeOK, LockMatchesLabels
  <2>3. FilesNested' BY DEF TypeOK, FilesNested, TakeoverAligned
  <2>4. AcquirerAlone' BY DEF TypeOK, AcquirerAlone
  <2>5. OwnerOperationsAligned' BY DEF TypeOK, OwnerOperationsAligned,
        LockMatchesLabels
  <2>6. TakeoverAligned' BY DEF TypeOK, TakeoverAligned, DisplacementBy,
        LockMatchesLabels
  <2> QED BY <2>1, <2>2, <2>3, <2>4, <2>5, <2>6
<1>17. ASSUME NEW p \in Procs, TakeoverInstall(p) PROVE IInv'
  <2> USE <1>17 DEF TakeoverInstall, Goto
  <2>1. TypeOK' BY DEF TypeOK, DisplacementBy, Displacement
  <2>2. LockMatchesLabels' BY DEF TypeOK, LockMatchesLabels
  <2>3. FilesNested' BY DEF TypeOK, FilesNested, TakeoverAligned
  <2>4. AcquirerAlone' BY DEF TypeOK, AcquirerAlone, TakeoverAligned
  <2>5. OwnerOperationsAligned' BY DEF TypeOK, OwnerOperationsAligned,
        LockMatchesLabels
  <2>6. TakeoverAligned' BY DEF TypeOK, TakeoverAligned, DisplacementBy,
        LockMatchesLabels
  <2> QED BY <2>1, <2>2, <2>3, <2>4, <2>5, <2>6
<1>18. ASSUME NEW p \in Procs, TakeoverAppendTrajectory(p) PROVE IInv'
  <2> USE <1>18 DEF TakeoverAppendTrajectory, Goto
  <2>1. TypeOK' BY DEF TypeOK, DisplacementBy, Displacement, TakeoverAligned
  <2>2. LockMatchesLabels' BY DEF TypeOK, LockMatchesLabels
  <2>3. FilesNested' BY DEF TypeOK, FilesNested
  <2>4. AcquirerAlone' BY DEF TypeOK, AcquirerAlone
  <2>5. OwnerOperationsAligned' BY DEF TypeOK, OwnerOperationsAligned
  <2>6. TakeoverAligned' BY DEF TypeOK, TakeoverAligned, DisplacementBy,
        LockMatchesLabels, FilesNested, AcquirerAlone, OwnerOperationsAligned,
        Displacement
  <2> QED BY <2>1, <2>2, <2>3, <2>4, <2>5, <2>6
<1>19. ASSUME NEW p \in Procs, TakeoverClearTransaction(p) PROVE IInv'
  <2> USE <1>19 DEF TakeoverClearTransaction, Goto, ReleaseOpLock
  <2>1. TypeOK' BY DEF TypeOK, DisplacementBy, Displacement, TakeoverAligned
  <2>2. LockMatchesLabels' BY DEF TypeOK, LockMatchesLabels
  <2>3. FilesNested' BY DEF TypeOK, FilesNested
  <2>4. AcquirerAlone' BY DEF TypeOK, AcquirerAlone
  <2>5. OwnerOperationsAligned' BY DEF TypeOK, OwnerOperationsAligned
  <2>6. TakeoverAligned' BY DEF TypeOK, TakeoverAligned, DisplacementBy,
        LockMatchesLabels
  <2> QED BY <2>1, <2>2, <2>3, <2>4, <2>5, <2>6
<1>20. ASSUME NEW p \in Procs, Interrupt(p) PROVE IInv'
  <2> USE <1>20 DEF Interrupt, Goto, WritingInLock
  <2>1. TypeOK'
    <3> USE DEF TypeOK
    <3>1. stray' \in BOOLEAN OBVIOUS
    <3>2. oplock' \in Procs \cup {Free} OBVIOUS
    <3>3. pc' \in [Procs -> {"idle"} \cup Labels] OBVIOUS
    <3>4. faults' \in Nat OBVIOUS
    <3> QED BY <3>1, <3>2, <3>3, <3>4
  <2>2. LockMatchesLabels' BY DEF TypeOK, LockMatchesLabels
  <2>3. FilesNested' BY DEF TypeOK, FilesNested
  <2>4. AcquirerAlone' BY DEF TypeOK, AcquirerAlone
  <2>5. OwnerOperationsAligned' BY DEF TypeOK, OwnerOperationsAligned
  <2>6. TakeoverAligned' BY DEF TypeOK, TakeoverAligned, DisplacementBy
  <2> QED BY <2>1, <2>2, <2>3, <2>4, <2>5, <2>6
<1>21. ASSUME NEW s \in Sessions, StartWork(s) PROVE IInv'
  <2> USE <1>21 DEF StartWork
  <2>1. TypeOK' BY DEF TypeOK
  <2>2. ClaimConsistent' BY DEF LockMatchesLabels, FilesNested, AcquirerAlone,
        OwnerOperationsAligned, TakeoverAligned, DisplacementBy
  <2> QED BY <2>1, <2>2
<1>22. ASSUME NEW s \in Sessions, StopWork(s) PROVE IInv'
  <2> USE <1>22 DEF StopWork
  <2>1. TypeOK' BY DEF TypeOK
  <2>2. ClaimConsistent' BY DEF LockMatchesLabels, FilesNested, AcquirerAlone,
        OwnerOperationsAligned, TakeoverAligned, DisplacementBy
  <2> QED BY <2>1, <2>2
<1>23. ASSUME NEW s \in Sessions, EditWorktree(s) PROVE IInv'
  <2> USE <1>23 DEF EditWorktree
  <2>1. TypeOK' BY DEF TypeOK
  <2>2. ClaimConsistent' BY DEF LockMatchesLabels, FilesNested, AcquirerAlone,
        OwnerOperationsAligned, TakeoverAligned, DisplacementBy
  <2> QED BY <2>1, <2>2
<1>24. ASSUME NEW s \in Sessions, RecordEvidence(s) PROVE IInv'
  <2> USE <1>24 DEF RecordEvidence
  <2>1. TypeOK' BY DEF TypeOK
  <2>2. ClaimConsistent' BY DEF LockMatchesLabels, FilesNested, AcquirerAlone,
        OwnerOperationsAligned, TakeoverAligned, DisplacementBy
  <2> QED BY <2>1, <2>2
<1>25. ASSUME NEW s \in Sessions, ConfirmStopped(s) PROVE IInv'
  <2> USE <1>25 DEF ConfirmStopped
  <2>1. TypeOK' BY DEF TypeOK
  <2>2. ClaimConsistent' BY DEF LockMatchesLabels, FilesNested, AcquirerAlone,
        OwnerOperationsAligned, TakeoverAligned, DisplacementBy
  <2> QED BY <2>1, <2>2
<1>26. CASE UNCHANGED vars
  BY <1>26 DEF vars, TypeOK, LockMatchesLabels, FilesNested, AcquirerAlone,
         OwnerOperationsAligned, TakeoverAligned, DisplacementBy
<1> QED BY <1>1, <1>2, <1>3, <1>4, <1>5, <1>6, <1>7, <1>8, <1>9, <1>10, <1>11,
     <1>12, <1>13, <1>14, <1>15, <1>16, <1>17, <1>18, <1>19, <1>20, <1>21,
     <1>22, <1>23, <1>24, <1>25, <1>26
  DEF Next, Invoke, Step, Caller

(* The types and the agreement of files and invocations hold throughout.    *)
THEOREM ClaimInvariant == Spec => []IInv
<1> QED BY InitConsistent, StepConsistent, PTL DEF Spec

(* The files of the task directory and the locals of every invocation keep  *)
(* their shape, whatever the invocations do and wherever they are killed.   *)
THEOREM TypeCorrect == Spec => []TypeOK
<1>1. IInv => TypeOK BY DEF IInv
<1> QED BY ClaimInvariant, <1>1, PTL

(* The files of the claim agree with the invocations at work on them.       *)
THEOREM ClaimConsistency == Spec => []ClaimConsistent
<1>1. IInv => ClaimConsistent BY DEF IInv
<1> QED BY ClaimInvariant, <1>1, PTL

-----------------------------------------------------------------------------
(* With takeovers ordered one at a time, every step keeps the discipline    *)
(* that lets only the owner write.                                          *)
LEMMA StepDisciplined ==
  ASSUME OneOperator, IInv, IInv', OwnerDiscipline, [Next]_vars
  PROVE  OwnerDiscipline'
<1> USE DEF IInv, ClaimConsistent, OwnerDiscipline
<1>1. ASSUME NEW p \in Procs, NEW s \in Sessions, AcquireMkdir(p, s) PROVE OwnerDiscipline'
  <2> USE <1>1 DEF AcquireMkdir, Goto
  <2>1. LiveHolderOwns' BY DEF TypeOK, LiveHolderOwns
  <2>2. OnlyOwnerWrites' BY DEF TypeOK, OnlyOwnerWrites
  <2>3. InvocationsRespectOwner' BY DEF TypeOK, InvocationsRespectOwner
  <2> QED BY <2>1, <2>2, <2>3
<1>2. ASSUME NEW p \in Procs, NEW s \in Sessions, HeartbeatCheck(p, s) PROVE OwnerDiscipline'
  <2> USE <1>2 DEF HeartbeatCheck, Goto, AcquireOpLock, Trusted
  <2>1. LiveHolderOwns' BY DEF TypeOK, LiveHolderOwns
  <2>2. OnlyOwnerWrites' BY DEF TypeOK, OnlyOwnerWrites
  <2>3. InvocationsRespectOwner' BY DEF TypeOK, InvocationsRespectOwner
  <2> QED BY <2>1, <2>2, <2>3
<1>3. ASSUME NEW p \in Procs, NEW s \in Sessions, ReleaseCheck(p, s) PROVE OwnerDiscipline'
  <2> USE <1>3 DEF ReleaseCheck, Goto, AcquireOpLock, Trusted
  <2>1. LiveHolderOwns' BY DEF TypeOK, LiveHolderOwns
  <2>2. OnlyOwnerWrites' BY DEF TypeOK, OnlyOwnerWrites
  <2>3. InvocationsRespectOwner' BY DEF TypeOK, InvocationsRespectOwner
  <2> QED BY <2>1, <2>2, <2>3
<1>4. ASSUME NEW p \in Procs, NEW s \in Sessions, OrderTakeover(p, s) PROVE OwnerDiscipline'
  <2> USE <1>4 DEF OrderTakeover, Goto, Trusted
  <2>1. LiveHolderOwns' BY DEF TypeOK, LiveHolderOwns
  <2>2. OnlyOwnerWrites' BY DEF TypeOK, OnlyOwnerWrites
  <2>3. InvocationsRespectOwner' BY DEF TypeOK, InvocationsRespectOwner
  <2> QED BY <2>1, <2>2, <2>3
<1>5. ASSUME NEW p \in Procs, AcquireWriteClaim(p) PROVE OwnerDiscipline'
  <2> USE <1>5 DEF AcquireWriteClaim, Goto
  <2>1. LiveHolderOwns' BY DEF TypeOK, LiveHolderOwns, AcquirerAlone
  <2>2. OnlyOwnerWrites' BY DEF TypeOK, OnlyOwnerWrites, AcquirerAlone
  <2>3. InvocationsRespectOwner' BY DEF TypeOK, InvocationsRespectOwner,
        AcquirerAlone, OwnerOperationsAligned
  <2> QED BY <2>1, <2>2, <2>3
<1>6. ASSUME NEW p \in Procs, InspectTransaction(p) PROVE OwnerDiscipline'
  <2> USE <1>6 DEF InspectTransaction, Goto
  <2>1. LiveHolderOwns' BY DEF TypeOK, LiveHolderOwns
  <2>2. OnlyOwnerWrites' BY DEF TypeOK, OnlyOwnerWrites
  <2>3. InvocationsRespectOwner' BY DEF TypeOK, InvocationsRespectOwner
  <2> QED BY <2>1, <2>2, <2>3
<1>7. ASSUME NEW p \in Procs, InspectOwner(p) PROVE OwnerDiscipline'
  <2> USE <1>7 DEF InspectOwner, Goto
  <2>1. LiveHolderOwns' BY DEF TypeOK, LiveHolderOwns
  <2>2. OnlyOwnerWrites' BY DEF TypeOK, OnlyOwnerWrites
  <2>3. InvocationsRespectOwner' BY DEF TypeOK, InvocationsRespectOwner
  <2> QED BY <2>1, <2>2, <2>3
<1>8. ASSUME NEW p \in Procs, HeartbeatWrite(p) PROVE OwnerDiscipline'
  <2> USE <1>8 DEF HeartbeatWrite, Goto, ReleaseOpLock
  <2>1. LiveHolderOwns' BY DEF TypeOK, LiveHolderOwns, OwnerOperationsAligned
  <2>2. OnlyOwnerWrites' BY DEF TypeOK, OnlyOwnerWrites,
        OwnerOperationsAligned
  <2>3. InvocationsRespectOwner' BY DEF TypeOK, InvocationsRespectOwner,
        LockMatchesLabels, OwnerOperationsAligned
  <2> QED BY <2>1, <2>2, <2>3
<1>9. ASSUME NEW p \in Procs, ReleaseUnlink(p) PROVE OwnerDiscipline'
  <2> USE <1>9 DEF ReleaseUnlink, Goto
  <2>1. LiveHolderOwns' BY DEF TypeOK, LiveHolderOwns,
        InvocationsRespectOwner, OwnerOperationsAligned
  <2>2. OnlyOwnerWrites' BY DEF TypeOK, OnlyOwnerWrites,
        InvocationsRespectOwner, OwnerOperationsAligned
  <2>3. InvocationsRespectOwner' BY DEF TypeOK, InvocationsRespectOwner,
        OwnerOperationsAligned
  <2> QED BY <2>1, <2>2, <2>3
<1>10. ASSUME NEW p \in Procs, ReleaseRmdir(p) PROVE OwnerDiscipline'
  <2> USE <1>10 DEF ReleaseRmdir, Goto, ReleaseOpLock
  <2>1. LiveHolderOwns' BY DEF TypeOK, LiveHolderOwns
  <2>2. OnlyOwnerWrites' BY DEF TypeOK, OnlyOwnerWrites
  <2>3. InvocationsRespectOwner' BY DEF TypeOK, InvocationsRespectOwner
  <2> QED BY <2>1, <2>2, <2>3
<1>11. ASSUME NEW p \in Procs, TakeoverCheck(p) PROVE OwnerDiscipline'
  <2> USE <1>11 DEF TakeoverCheck, Goto, AcquireOpLock, Trusted
  <2>1. LiveHolderOwns' BY DEF TypeOK, LiveHolderOwns
  <2>2. OnlyOwnerWrites' BY DEF TypeOK, OnlyOwnerWrites
  <2>3. InvocationsRespectOwner' BY DEF TypeOK, InvocationsRespectOwner
  <2> QED BY <2>1, <2>2, <2>3
<1>12. ASSUME NEW p \in Procs, TakeoverGit(p) PROVE OwnerDiscipline'
  <2> USE <1>12 DEF TakeoverGit, Goto, Reconcile
  <2>1. LiveHolderOwns' BY DEF TypeOK, LiveHolderOwns
  <2>2. OnlyOwnerWrites' BY DEF TypeOK, OnlyOwnerWrites
  <2>3. InvocationsRespectOwner' BY DEF TypeOK, InvocationsRespectOwner
  <2> QED BY <2>1, <2>2, <2>3
<1>13. ASSUME NEW p \in Procs, TakeoverScan(p) PROVE OwnerDiscipline'
  <2> USE <1>13 DEF TakeoverScan, Goto, Reconcile, NoActiveProcesses
  <2>1. LiveHolderOwns' BY DEF TypeOK, LiveHolderOwns
  <2>2. OnlyOwnerWrites' BY DEF TypeOK, OnlyOwnerWrites
  <2>3. InvocationsRespectOwner' BY DEF TypeOK, InvocationsRespectOwner,
        OnlyOwnerWrites, TakeoverAligned
  <2> QED BY <2>1, <2>2, <2>3
<1>14. ASSUME NEW p \in Procs, TakeoverEvidence(p) PROVE OwnerDiscipline'
  <2> USE <1>14 DEF TakeoverEvidence, Goto, Reconcile
  <2>1. LiveHolderOwns' BY DEF TypeOK, LiveHolderOwns
  <2>2. OnlyOwnerWrites' BY DEF TypeOK, OnlyOwnerWrites
  <2>3. InvocationsRespectOwner' BY DEF TypeOK, InvocationsRespectOwner
  <2> QED BY <2>1, <2>2, <2>3
<1>15. ASSUME NEW p \in Procs, TakeoverRefused(p) PROVE OwnerDiscipline'
  <2> USE <1>15 DEF TakeoverRefused, Goto
  <2>1. LiveHolderOwns' BY DEF TypeOK, LiveHolderOwns
  <2>2. OnlyOwnerWrites' BY DEF TypeOK, OnlyOwnerWrites
  <2>3. InvocationsRespectOwner' BY DEF TypeOK, InvocationsRespectOwner
  <2> QED BY <2>1, <2>2, <2>3
<1>16. ASSUME NEW p \in Procs, TakeoverWriteTransaction(p) PROVE OwnerDiscipline'
  <2> USE <1>16 DEF TakeoverWriteTransaction, Goto
  <2>1. LiveHolderOwns' BY DEF TypeOK, LiveHolderOwns
  <2>2. OnlyOwnerWrites' BY DEF TypeOK, OnlyOwnerWrites
  <2>3. InvocationsRespectOwner' BY DEF TypeOK, InvocationsRespectOwner
  <2> QED BY <2>1, <2>2, <2>3
<1>17. ASSUME NEW p \in Procs, TakeoverInstall(p) PROVE OwnerDiscipline'
  <2> USE <1>17 DEF TakeoverInstall, Goto
  <2>1. LiveHolderOwns' BY DEF TypeOK, LiveHolderOwns,
        InvocationsRespectOwner, TakeoverAligned
  <2>2. OnlyOwnerWrites' BY DEF TypeOK, OnlyOwnerWrites,
        InvocationsRespectOwner
  <2>3. InvocationsRespectOwner' BY DEF TypeOK, InvocationsRespectOwner,
        TakeoverAligned, OneOperator
  <2> QED BY <2>1, <2>2, <2>3
<1>18. ASSUME NEW p \in Procs, TakeoverAppendTrajectory(p) PROVE OwnerDiscipline'
  <2> USE <1>18 DEF TakeoverAppendTrajectory, Goto
  <2>1. LiveHolderOwns' BY DEF TypeOK, LiveHolderOwns
  <2>2. OnlyOwnerWrites' BY DEF TypeOK, OnlyOwnerWrites
  <2>3. InvocationsRespectOwner' BY DEF TypeOK, InvocationsRespectOwner
  <2> QED BY <2>1, <2>2, <2>3
<1>19. ASSUME NEW p \in Procs, TakeoverClearTransaction(p) PROVE OwnerDiscipline'
  <2> USE <1>19 DEF TakeoverClearTransaction, Goto, ReleaseOpLock
  <2>1. LiveHolderOwns' BY DEF TypeOK, LiveHolderOwns, TakeoverAligned
  <2>2. OnlyOwnerWrites' BY DEF TypeOK, OnlyOwnerWrites
  <2>3. InvocationsRespectOwner' BY DEF TypeOK, InvocationsRespectOwner,
        OwnerOperationsAligned, TakeoverAligned
  <2> QED BY <2>1, <2>2, <2>3
<1>20. ASSUME NEW p \in Procs, Interrupt(p) PROVE OwnerDiscipline'
  <2> USE <1>20 DEF Interrupt, Goto, WritingInLock
  <2>1. LiveHolderOwns' BY DEF TypeOK, LiveHolderOwns
  <2>2. OnlyOwnerWrites' BY DEF TypeOK, OnlyOwnerWrites
  <2>3. InvocationsRespectOwner' BY DEF TypeOK, InvocationsRespectOwner
  <2> QED BY <2>1, <2>2, <2>3
<1>21. ASSUME NEW s \in Sessions, StartWork(s) PROVE OwnerDiscipline'
  <2> USE <1>21 DEF StartWork
  <2>1. LiveHolderOwns' BY DEF TypeOK, LiveHolderOwns
  <2>2. OnlyOwnerWrites' BY DEF TypeOK, OnlyOwnerWrites, LiveHolderOwns
  <2>3. InvocationsRespectOwner' BY DEF TypeOK, InvocationsRespectOwner,
        LiveHolderOwns, TakeoverAligned
  <2> QED BY <2>1, <2>2, <2>3
<1>22. ASSUME NEW s \in Sessions, StopWork(s) PROVE OwnerDiscipline'
  <2> USE <1>22 DEF StopWork
  <2>1. LiveHolderOwns' BY DEF TypeOK, LiveHolderOwns
  <2>2. OnlyOwnerWrites' BY DEF TypeOK, OnlyOwnerWrites
  <2>3. InvocationsRespectOwner' BY DEF TypeOK, InvocationsRespectOwner
  <2> QED BY <2>1, <2>2, <2>3
<1>23. ASSUME NEW s \in Sessions, EditWorktree(s) PROVE OwnerDiscipline'
  <2> USE <1>23 DEF EditWorktree
  <2>1. LiveHolderOwns' BY DEF TypeOK, LiveHolderOwns
  <2>2. OnlyOwnerWrites' BY DEF TypeOK, OnlyOwnerWrites
  <2>3. InvocationsRespectOwner' BY DEF TypeOK, InvocationsRespectOwner
  <2> QED BY <2>1, <2>2, <2>3
<1>24. ASSUME NEW s \in Sessions, RecordEvidence(s) PROVE OwnerDiscipline'
  <2> USE <1>24 DEF RecordEvidence
  <2>1. LiveHolderOwns' BY DEF TypeOK, LiveHolderOwns
  <2>2. OnlyOwnerWrites' BY DEF TypeOK, OnlyOwnerWrites
  <2>3. InvocationsRespectOwner' BY DEF TypeOK, InvocationsRespectOwner
  <2> QED BY <2>1, <2>2, <2>3
<1>25. ASSUME NEW s \in Sessions, ConfirmStopped(s) PROVE OwnerDiscipline'
  <2> USE <1>25 DEF ConfirmStopped
  <2>1. LiveHolderOwns' BY DEF TypeOK, LiveHolderOwns
  <2>2. OnlyOwnerWrites' BY DEF TypeOK, OnlyOwnerWrites
  <2>3. InvocationsRespectOwner' BY DEF TypeOK, InvocationsRespectOwner
  <2> QED BY <2>1, <2>2, <2>3
<1>26. CASE UNCHANGED vars
  BY <1>26 DEF vars, LiveHolderOwns, OnlyOwnerWrites, InvocationsRespectOwner
<1> QED BY <1>1, <1>2, <1>3, <1>4, <1>5, <1>6, <1>7, <1>8, <1>9, <1>10, <1>11,
     <1>12, <1>13, <1>14, <1>15, <1>16, <1>17, <1>18, <1>19, <1>20, <1>21,
     <1>22, <1>23, <1>24, <1>25, <1>26
  DEF Next, Invoke, Step, Caller

(* SPEC section 8, "One task has exactly one active writer": when takeovers *)
(* are ordered through one invocation at a time, processes run in the       *)
(* worktree only for the session owner.json names.                          *)
THEOREM SingleWriter ==
  ASSUME OneOperator
  PROVE  Spec => []OnlyOwnerWrites
<1>1. Init => OwnerDiscipline
  BY DEF Init, OwnerDiscipline, LiveHolderOwns, OnlyOwnerWrites,
         InvocationsRespectOwner
<1>2. IInv /\ IInv' /\ OwnerDiscipline /\ [Next]_vars => OwnerDiscipline'
  BY StepDisciplined, OneOperator
<1>3. OwnerDiscipline => OnlyOwnerWrites
  BY DEF OwnerDiscipline
<1> QED BY <1>1, <1>2, <1>3, ClaimInvariant, PTL DEF Spec

-----------------------------------------------------------------------------
(* A takeover installs its successor over the claim it reconciled, and the  *)
(* transaction file it wrote names that claim.                              *)
THEOREM TakeoverOverReconciled == Spec => InstallsOverReconciled
<1>1. IInv /\ [Next]_vars =>
        [\A p \in Procs : pc[p] = "install" /\ pc'[p] = "append"
                         => owner = prev[p] /\ txn.previous = owner]_vars
  BY DEF IInv, ClaimConsistent, TakeoverAligned, DisplacementBy
<1> QED BY <1>1, ClaimInvariant, PTL DEF Spec, InstallsOverReconciled

(* An incomplete takeover fails closed: with a transaction file and no      *)
(* takeover at work, no step changes the claim or its record.               *)
THEOREM IncompleteTakeoverFailsClosed == Spec => IncompleteTakeoverFrozen
<1> DEFINE Abandoned ==
      txn # NoTxn /\ \A p \in Procs : pc[p] \notin TakeoverLabels
<1>1. IInv /\ [Next]_vars =>
        [Abandoned => UNCHANGED <<lock, owner, txn, traj>>]_vars
  <2> SUFFICES ASSUME IInv, Abandoned, Next
               PROVE  UNCHANGED <<lock, owner, txn, traj>>
    OBVIOUS
  <2> USE DEF IInv, ClaimConsistent, TypeOK, FilesNested, AcquirerAlone,
              OwnerOperationsAligned
  <2>1. ASSUME NEW p \in Procs, NEW s \in Sessions, Invoke(p, s)
       PROVE  UNCHANGED <<lock, owner, txn, traj>>
    BY <2>1 DEF Invoke, AcquireMkdir, HeartbeatCheck, ReleaseCheck,
               OrderTakeover
  <2>2. ASSUME NEW p \in Procs, Step(p)
       PROVE  UNCHANGED <<lock, owner, txn, traj>>
    BY <2>2 DEF Step, AcquireWriteClaim, InspectOwner, HeartbeatWrite,
               ReleaseUnlink, ReleaseRmdir, TakeoverCheck, TakeoverGit,
               TakeoverScan, TakeoverEvidence, TakeoverRefused,
               TakeoverWriteTransaction, TakeoverInstall,
               TakeoverAppendTrajectory, TakeoverClearTransaction, Reconcile,
               Trusted
  <2>3. ASSUME NEW p \in Procs, InspectTransaction(p) \/ Interrupt(p)
       PROVE  UNCHANGED <<lock, owner, txn, traj>>
    BY <2>3 DEF InspectTransaction, Interrupt
  <2>4. ASSUME NEW s \in Sessions, Caller(s)
       PROVE  UNCHANGED <<lock, owner, txn, traj>>
    BY <2>4 DEF Caller, StartWork, StopWork, EditWorktree, RecordEvidence,
               ConfirmStopped
  <2> QED BY <2>1, <2>2, <2>3, <2>4 DEF Next
<1> QED BY <1>1, ClaimInvariant, PTL DEF Spec, IncompleteTakeoverFrozen

-----------------------------------------------------------------------------
(* Every step is a step of the ownership a task promises, or changes nothing *)
(* of it.                                                                    *)
LEMMA StepImplements ==
  ASSUME IInv, [Next]_vars
  PROVE  [Ownership!Next]_(Ownership!ownershipVars)
<1> USE DEF IInv, ClaimConsistent, TypeOK, Audit, Ownership!ownershipVars
<1>1. ASSUME NEW p \in Procs, NEW s \in Sessions, AcquireMkdir(p, s)
     PROVE  [Ownership!Next]_(Ownership!ownershipVars)
  BY <1>1 DEF AcquireMkdir, Goto, Ownership!Next, Ownership!Reserve
<1>2. ASSUME NEW p \in Procs, NEW s \in Sessions, HeartbeatCheck(p, s)
     PROVE  [Ownership!Next]_(Ownership!ownershipVars)
  BY <1>2 DEF HeartbeatCheck, Goto, AcquireOpLock, Trusted
<1>3. ASSUME NEW p \in Procs, NEW s \in Sessions, ReleaseCheck(p, s)
     PROVE  [Ownership!Next]_(Ownership!ownershipVars)
  BY <1>3 DEF ReleaseCheck, Goto, AcquireOpLock, Trusted
<1>4. ASSUME NEW p \in Procs, NEW s \in Sessions, OrderTakeover(p, s)
     PROVE  [Ownership!Next]_(Ownership!ownershipVars)
  BY <1>4 DEF OrderTakeover, Goto, Trusted
<1>5. ASSUME NEW p \in Procs, AcquireWriteClaim(p)
     PROVE  [Ownership!Next]_(Ownership!ownershipVars)
  BY <1>5 DEF AcquireWriteClaim, Goto, Ownership!Next, Ownership!Grant,
         AcquirerAlone, FilesNested
<1>6. ASSUME NEW p \in Procs, InspectTransaction(p)
     PROVE  [Ownership!Next]_(Ownership!ownershipVars)
  BY <1>6 DEF InspectTransaction, Goto
<1>7. ASSUME NEW p \in Procs, InspectOwner(p)
     PROVE  [Ownership!Next]_(Ownership!ownershipVars)
  BY <1>7 DEF InspectOwner, Goto
<1>8. ASSUME NEW p \in Procs, HeartbeatWrite(p)
     PROVE  [Ownership!Next]_(Ownership!ownershipVars)
  BY <1>8 DEF HeartbeatWrite, Goto, ReleaseOpLock, OwnerOperationsAligned,
         FilesNested
<1>9. ASSUME NEW p \in Procs, ReleaseUnlink(p)
     PROVE  [Ownership!Next]_(Ownership!ownershipVars)
  BY <1>9 DEF ReleaseUnlink, Goto, Ownership!Next, Ownership!Withdraw,
         OwnerOperationsAligned
<1>10. ASSUME NEW p \in Procs, ReleaseRmdir(p)
     PROVE  [Ownership!Next]_(Ownership!ownershipVars)
  BY <1>10 DEF ReleaseRmdir, Goto, ReleaseOpLock, Ownership!Next,
         Ownership!Vacate, OwnerOperationsAligned
<1>11. ASSUME NEW p \in Procs, TakeoverCheck(p)
     PROVE  [Ownership!Next]_(Ownership!ownershipVars)
  BY <1>11 DEF TakeoverCheck, Goto, AcquireOpLock, Trusted
<1>12. ASSUME NEW p \in Procs, TakeoverGit(p)
     PROVE  [Ownership!Next]_(Ownership!ownershipVars)
  BY <1>12 DEF TakeoverGit, Goto, Reconcile
<1>13. ASSUME NEW p \in Procs, TakeoverScan(p)
     PROVE  [Ownership!Next]_(Ownership!ownershipVars)
  BY <1>13 DEF TakeoverScan, Goto, Reconcile, NoActiveProcesses
<1>14. ASSUME NEW p \in Procs, TakeoverEvidence(p)
     PROVE  [Ownership!Next]_(Ownership!ownershipVars)
  BY <1>14 DEF TakeoverEvidence, Goto, Reconcile
<1>15. ASSUME NEW p \in Procs, TakeoverRefused(p)
     PROVE  [Ownership!Next]_(Ownership!ownershipVars)
  BY <1>15 DEF TakeoverRefused, Goto
<1>16. ASSUME NEW p \in Procs, TakeoverWriteTransaction(p)
     PROVE  [Ownership!Next]_(Ownership!ownershipVars)
  BY <1>16 DEF TakeoverWriteTransaction, Goto, TakeoverAligned, DisplacementBy
<1>17. ASSUME NEW p \in Procs, TakeoverInstall(p)
     PROVE  [Ownership!Next]_(Ownership!ownershipVars)
  <2> USE <1>17 DEF TakeoverInstall, Goto, TakeoverAligned, DisplacementBy
  <2>1. /\ txn = [at |-> Len(traj), previous |-> owner, successor |-> sess[p]]
        /\ owner \in Sessions /\ sess[p] \in Sessions /\ owner # sess[p]
    OBVIOUS
  <2>2. Audit = traj
    BY <2>1
  <2>3. txn \in Displacement /\ txn # NoTxn
    BY <2>1 DEF Displacement
  <2>4. Audit' = Append(traj, txn)
    <3>1. txn' = txn /\ traj' = traj /\ owner' = sess[p]
      OBVIOUS
    <3>2. txn.at = Len(traj) /\ txn.successor = sess[p]
      BY <2>1
    <3> QED BY <2>3, <3>1, <3>2
  <2>5. Ownership!Displace(sess[p])
    BY <2>1, <2>2, <2>4 DEF Ownership!Displace
  <2> QED BY <2>1, <2>5 DEF Ownership!Next
<1>18. ASSUME NEW p \in Procs, TakeoverAppendTrajectory(p)
     PROVE  [Ownership!Next]_(Ownership!ownershipVars)
  BY <1>18 DEF TakeoverAppendTrajectory, Goto, TakeoverAligned,
         DisplacementBy, Displacement
<1>19. ASSUME NEW p \in Procs, TakeoverClearTransaction(p)
     PROVE  [Ownership!Next]_(Ownership!ownershipVars)
  BY <1>19 DEF TakeoverClearTransaction, Goto, ReleaseOpLock, TakeoverAligned
<1>20. ASSUME NEW p \in Procs, Interrupt(p)
     PROVE  [Ownership!Next]_(Ownership!ownershipVars)
  BY <1>20 DEF Interrupt, Goto, WritingInLock
<1>21. ASSUME NEW s \in Sessions, StartWork(s)
     PROVE  [Ownership!Next]_(Ownership!ownershipVars)
  BY <1>21 DEF StartWork
<1>22. ASSUME NEW s \in Sessions, StopWork(s)
     PROVE  [Ownership!Next]_(Ownership!ownershipVars)
  BY <1>22 DEF StopWork
<1>23. ASSUME NEW s \in Sessions, EditWorktree(s)
     PROVE  [Ownership!Next]_(Ownership!ownershipVars)
  BY <1>23 DEF EditWorktree
<1>24. ASSUME NEW s \in Sessions, RecordEvidence(s)
     PROVE  [Ownership!Next]_(Ownership!ownershipVars)
  BY <1>24 DEF RecordEvidence
<1>25. ASSUME NEW s \in Sessions, ConfirmStopped(s)
     PROVE  [Ownership!Next]_(Ownership!ownershipVars)
  BY <1>25 DEF ConfirmStopped
<1>26. CASE UNCHANGED vars
  BY <1>26 DEF vars
<1> QED BY <1>1, <1>2, <1>3, <1>4, <1>5, <1>6, <1>7, <1>8, <1>9, <1>10, <1>11,
     <1>12, <1>13, <1>14, <1>15, <1>16, <1>17, <1>18, <1>19, <1>20, <1>21,
     <1>22, <1>23, <1>24, <1>25, <1>26
  DEF Next, Invoke, Step, Caller

(* The claim manager implements the ownership a task promises: one holder,  *)
(* granted after a reservation, and no displacement that is not on record.  *)
THEOREM OwnershipImplemented == Spec => ImplementsOwnership
<1>1. Init => Ownership!Init
  BY DEF Init, Ownership!Init, Audit
<1>2. IInv /\ [Next]_vars => [Ownership!Next]_(Ownership!ownershipVars)
  BY StepImplements
<1> QED BY <1>1, <1>2, ClaimInvariant, PTL
        DEF Spec, Ownership!Spec, ImplementsOwnership

(* No session loses the claim to another off the record: a step in which    *)
(* owner.json comes to name another session puts just that displacement on  *)
(* record, and no step takes one back, whatever takeover was interrupted    *)
(* where (_commit_takeover).                                                *)
DisplacementsRecorded ==
  [][/\ owner # NoSession /\ owner' \notin {NoSession, owner}
          => Audit' = Append(Audit, [at |-> Len(Audit), previous |-> owner,
                                     successor |-> owner'])
     /\ SubSeq(Audit', 1, Len(Audit)) = Audit]_vars

(* DisplacementsRecorded, from the ownership the claim implements.          *)
THEOREM NoSilentDisplacement == Spec => DisplacementsRecorded
<1> DEFINE Recorded == /\ owner # NoSession /\ owner' \notin {NoSession, owner}
                            => Audit' = Append(Audit, [at |-> Len(Audit), previous |-> owner,
                                                       successor |-> owner'])
                       /\ SubSeq(Audit', 1, Len(Audit)) = Audit
<1>1. ASSUME IInv, [Next]_vars PROVE Recorded
  <2>1. \E S : Audit \in Seq(S)
    <3>1. traj \in Seq(Displacement) /\ txn \in Displacement \cup {NoTxn}
      BY <1>1 DEF IInv, TypeOK
    <3>2. Audit \in Seq(Displacement)
      BY <3>1 DEF Audit
    <3> QED BY <3>2
  <2>2. /\ Len(Audit) \in Nat /\ SubSeq(Audit, 1, Len(Audit)) = Audit
        /\ \A x : SubSeq(Append(Audit, x), 1, Len(Audit)) = Audit
    BY <2>1
  <2>3. [Ownership!Next]_(Ownership!ownershipVars)
    BY <1>1, StepImplements
  <2> DEFINE before == Audit
             after == Audit'
  <2>4. /\ before = Audit /\ after = Audit'
        /\ SubSeq(before, 1, Len(before)) = before
        /\ \A x : SubSeq(Append(before, x), 1, Len(before)) = before
    BY <2>2
  <2> HIDE DEF before, after
  <2>5. \/ owner' = owner /\ after = before
        \/ owner = NoSession /\ after = before
        \/ owner' = NoSession /\ after = before
        \/ after = Append(before, [at |-> Len(before), previous |-> owner, successor |-> owner'])
    BY <2>3, <2>4
       DEF Ownership!Next, Ownership!ownershipVars, Ownership!Reserve, Ownership!Withdraw,
           Ownership!Vacate, Ownership!Grant, Ownership!Displace
  <2> QED BY <2>4, <2>5
<1>2. IInv /\ [Next]_vars => [Recorded]_vars
  BY <1>1
<1> QED BY <1>2, ClaimInvariant, PTL DEF Spec, DisplacementsRecorded

=============================================================================
