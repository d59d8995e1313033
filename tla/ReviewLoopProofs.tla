---------------------------- MODULE ReviewLoopProofs ----------------------------
(***************************************************************************)
(* Proofs about ReviewLoop, for any number of commits, agents, events and  *)
(* reports: types, and that what is shipped was reviewed, and the review is*)
(* on record, that findings stay bound, and the gates the telemetry makes. *)
(***************************************************************************)
EXTENDS ReviewLoop, TLAPS

(* The evidence of a workflow is one it took, and who it waits for is who   *)
(* raised the findings: whatever it took is theirs and the engineer's.      *)
Bound ==
    workflow # Nothing =>
        /\ workflow.evidence # Nothing => workflow.evidence \in taken
        /\ \A e \in taken :
              /\ e.engineer = workflow.engineer
              /\ e.reviewer = IF workflow.evidence # Nothing THEN workflow.evidence.reviewer
                              ELSE workflow.requires

Approved(head) == \E e \in reviews : e.verdict = "APPROVE" /\ e.head = head

(* What was looked up may be stale, but it was approved once; and a review  *)
(* that was returned is on record, as is the work it is about.              *)
LookedUp == probe # Nothing /\ probe.approved # Nothing => Approved(probe.approved)
AllOnRecord == \A e \in reviews : OnRecord(e)
Backed == LookedUp /\ AllOnRecord

(* Nothing is done before what it needs is on record.                       *)
Gated ==
    /\ capability => activation
    /\ activation => Canary \in UsedIds
    /\ (\E e \in events : e.role = "software_engineer") => activation
    /\ \A x \in returned : x.event \in UsedIds
    /\ dispatched => capability

IInv ==
    /\ TypeOK /\ Bound /\ Backed /\ Gated
    /\ FindingsStayBound /\ ShippedWasReviewed /\ TelemetryGates

-----------------------------------------------------------------------------
(* The initial state.                                                       *)
LEMMA InitIInv == Init => IInv
<1> SUFFICES ASSUME Init PROVE IInv
  OBVIOUS
<1>1. TypeOK
  BY DEF Init, TypeOK, Idle
<1>2. Bound /\ Backed /\ Gated
  BY DEF Init, Bound, Backed, LookedUp, AllOnRecord, Gated
<1>3. FindingsStayBound /\ ShippedWasReviewed /\ TelemetryGates
  BY DEF Init, FindingsStayBound, ShippedWasReviewed, TelemetryGates
<1> QED BY <1>1, <1>2, <1>3 DEF IInv

(* An event that is recorded is a new one of the telemetry.                 *)
LEMMA Recording ==
  ASSUME TypeOK, NEW id \in Ids, NEW role \in {"orchestrator", "software_engineer",
         "code_reviewer", "verifier"}, NEW who \in Engineers \cup Reviewers \cup Verifiers \cup {Nothing},
         Recorded(id, role, who)
  PROVE  /\ events' \subseteq Event /\ events \subseteq events'
         /\ id \notin UsedIds /\ UsedIds' = UsedIds \cup {id}
         /\ \A e \in events' \ events : e.role = role /\ e.who = who /\ e.id = id
<1> DEFINE new == [id |-> id, role |-> role, who |-> who]
<1>1. new \in Event /\ new.id = id /\ new.role = role /\ new.who = who
  BY DEF Event
<1>2. events' = events \cup {new} /\ id \notin UsedIds
  BY DEF Recorded
<1> HIDE DEF new
<1>3. UsedIds' = UsedIds \cup {id}
  BY <1>1, <1>2 DEF UsedIds
<1> QED BY <1>1, <1>2, <1>3 DEF TypeOK

-----------------------------------------------------------------------------
(* Types.                                                                   *)
LEMMA TypeStep ==
  ASSUME TypeOK, Next
  PROVE  TypeOK'
<1> USE DEF boundary, loop, verification
<1>1. ASSUME NEW w \in Heads \cup {Uncommitted}, Touch(w) PROVE TypeOK'
  BY <1>1 DEF Touch, TypeOK
<1>2. ASSUME RecordCanary PROVE TypeOK'
  <2>1. events' \subseteq Event
    BY <1>2, Recording DEF RecordCanary, Ids
  <2> QED BY <1>2, <2>1 DEF RecordCanary, TypeOK
<1>3. ASSUME Activate \/ Restart PROVE TypeOK'
  BY <1>3 DEF Activate, Restart, TypeOK
<1>4. ASSUME NEW g \in Engineers, NEW h \in Heads, EngineerWork(g, h) PROVE TypeOK'
  <2>1. events' \subseteq Event
    BY <1>4, Recording DEF EngineerWork, Ids, TypeOK
  <2> QED BY <1>4, <2>1 DEF EngineerWork, TypeOK
<1>5. ASSUME NEW g \in Engineers, NEW h \in Heads, RecordFix(g, h) PROVE TypeOK'
  <2>1. /\ workflow \in Workflow /\ workflow.evidence \in ReviewEvidence
        /\ workflow.evidence.reviewer \in Reviewers
    BY <1>5 DEF RecordFix, TypeOK, Workflow, ReviewEvidence
  <2>2. /\ workflow' \in Workflow /\ workflow'.evidence = Nothing /\ workflow'.requires # Nothing
    BY <1>5, <2>1, NothingIsNone DEF RecordFix, Workflow
  <2> QED BY <1>5, <2>2 DEF RecordFix, TypeOK
<1>6. ASSUME NEW g \in Engineers, NEW r \in Reviewers, NEW v \in Verdicts, NEW id \in ReviewIds,
             CodeReviewed(g, r, v, id)
      PROVE  TypeOK'
  <2>1. events' \subseteq Event
    BY <1>6, Recording DEF CodeReviewed, Ids
  <2>2. reviews \subseteq reviews' /\ reviews' \subseteq ReviewEvidence
    BY <1>6 DEF CodeReviewed, TypeOK, ReviewEvidence
  <2> QED BY <1>6, <2>1, <2>2 DEF CodeReviewed, TypeOK
<1>7. ASSUME NEW e \in reviews, StartWorkflow(e) \/ AcceptTargetedRereview(e) PROVE TypeOK'
  <2>1. e \in ReviewEvidence /\ e # Nothing /\ e.head \in Heads /\ e.event \in ReviewIds
        /\ e.engineer \in Engineers
    BY NothingIsNone DEF TypeOK, ReviewEvidence
  <2>2. /\ workflow' \in Workflow /\ workflow'.evidence = e /\ workflow'.requires = Nothing
        /\ workflow'.head = e.head
    <3>1. CASE StartWorkflow(e)
      BY <2>1, <3>1 DEF StartWorkflow, Workflow
    <3>2. CASE AcceptTargetedRereview(e)
      <4>1. workflow \in Workflow /\ workflow.head = e.head
        BY <3>2 DEF AcceptTargetedRereview, TypeOK
      <4> QED BY <2>1, <3>2, <4>1 DEF AcceptTargetedRereview, Workflow
    <3> QED BY <1>7, <3>1, <3>2
  <2>3. taken' \subseteq reviews'
    BY <1>7 DEF StartWorkflow, AcceptTargetedRereview, TypeOK
  <2> QED BY <1>7, <2>1, <2>2, <2>3 DEF StartWorkflow, AcceptTargetedRereview, TypeOK
<1>8. ASSUME NEW v \in Verifiers, NEW id \in VerifierIds, StartVerifier(v, id) PROVE TypeOK'
  <2>1. worktree \in Heads
    BY <1>8 DEF StartVerifier
  <2>2. dispatch' \in [Verifiers -> Run \cup {Idle}]
    BY <1>8, <2>1 DEF StartVerifier, TypeOK, Run
  <2> QED BY <1>8, <2>2 DEF StartVerifier, TypeOK
<1>9. ASSUME NEW v \in Verifiers, VerifierRan(v) PROVE TypeOK'
  <2>1. dispatch[v] \in Run
    BY <1>9 DEF VerifierRan, At, TypeOK, Idle
  <2>2. dispatch' \in [Verifiers -> Run \cup {Idle}]
    BY <1>9, <2>1 DEF VerifierRan, Stop, TypeOK, Run
  <2> QED BY <1>9, <2>2 DEF VerifierRan, TypeOK
<1>10. ASSUME NEW v \in Verifiers, FinishVerifier(v) \/ AbortVerifier(v) PROVE TypeOK'
  <2>1. /\ dispatch[v] \in Run /\ dispatch[v].event \in VerifierIds /\ dispatch[v].target \in Heads
    BY <1>10 DEF FinishVerifier, AbortVerifier, At, TypeOK, Idle, Run
  <2>2. dispatch' \in [Verifiers -> Run \cup {Idle}]
    BY <1>10 DEF FinishVerifier, AbortVerifier, Stop, TypeOK
  <2>3. events' \subseteq Event
    BY <1>10, <2>1, Recording DEF FinishVerifier, AbortVerifier, Ids, TypeOK
  <2>4. returned' \subseteq Execution
    BY <1>10, <2>1 DEF FinishVerifier, AbortVerifier, Execution, TypeOK
  <2> QED BY <1>10, <2>2, <2>3, <2>4 DEF FinishVerifier, AbortVerifier, TypeOK
<1>11. ASSUME LookUp PROVE TypeOK'
  <2>1. probe' \in Probe
    BY <1>11 DEF LookUp, ApprovedHead, Probe, TypeOK, Workflow
  <2> QED BY <1>11, <2>1 DEF LookUp, TypeOK
<1>12. ASSUME ReadEvidence PROVE TypeOK'
  BY <1>12 DEF ReadEvidence, TypeOK
<1>13. ASSUME NEW h \in Heads, NEW payload \in Payloads,
              WriteEvidence(h, payload) \/ ReplaceEvidence(h, payload)
       PROVE  TypeOK'
  <2>1. file' \in Evidence
    BY <1>13 DEF WriteEvidence, ReplaceEvidence, Evidence
  <2> QED BY <1>13, <2>1 DEF WriteEvidence, ReplaceEvidence, TypeOK
<1> QED BY <1>1, <1>2, <1>3, <1>4, <1>5, <1>6, <1>7, <1>8, <1>9, <1>10, <1>11, <1>12, <1>13 DEF Next

-----------------------------------------------------------------------------
(* Findings stay with who raised and who answers them.                      *)
LEMMA BoundStep ==
  ASSUME TypeOK, Bound, FindingsStayBound, Next
  PROVE  Bound' /\ FindingsStayBound'
<1> USE DEF boundary, loop, verification
<1>1. CASE UNCHANGED loop
  BY <1>1 DEF Bound, FindingsStayBound
<1>2. ASSUME NEW g \in Engineers, NEW h \in Heads, RecordFix(g, h)
      PROVE  Bound' /\ FindingsStayBound'
  <2>1. workflow \in Workflow /\ workflow.evidence # Nothing /\ taken' = taken
    BY <1>2 DEF RecordFix, TypeOK
  <2>2. /\ workflow'.evidence = Nothing /\ workflow'.requires = workflow.evidence.reviewer
        /\ workflow'.engineer = workflow.engineer
    BY <1>2, <2>1 DEF RecordFix, Workflow
  <2> QED BY <1>2, <2>1, <2>2 DEF Bound, FindingsStayBound, RecordFix
<1>3. ASSUME NEW e \in reviews, StartWorkflow(e) PROVE Bound' /\ FindingsStayBound'
  <2>1. e # Nothing
    BY NothingIsNone DEF TypeOK
  <2> QED BY <1>3, <2>1 DEF StartWorkflow, Bound, FindingsStayBound
<1>4. ASSUME NEW e \in reviews, AcceptTargetedRereview(e) PROVE Bound' /\ FindingsStayBound'
  <2>1. /\ workflow \in Workflow /\ workflow.evidence = Nothing
        /\ e.engineer = workflow.engineer /\ e.reviewer = workflow.requires
        /\ taken' = taken \cup {e} /\ workflow # Nothing
    BY <1>4 DEF AcceptTargetedRereview, TypeOK
  <2>2. workflow'.evidence = e /\ workflow'.engineer = workflow.engineer
    BY <1>4, <2>1 DEF AcceptTargetedRereview, Workflow
  <2>3. e # Nothing
    BY NothingIsNone DEF TypeOK
  <2>4. \A f \in taken' : f.engineer = e.engineer /\ f.reviewer = e.reviewer
    BY <2>1 DEF Bound
  <2> QED BY <2>1, <2>2, <2>3, <2>4 DEF Bound, FindingsStayBound
<1> QED BY <1>1, <1>2, <1>3, <1>4
        DEF Next, Touch, RecordCanary, Activate, Restart, EngineerWork, CodeReviewed,
            StartVerifier, VerifierRan, FinishVerifier, AbortVerifier, LookUp, ReadEvidence,
            WriteEvidence, ReplaceEvidence

-----------------------------------------------------------------------------
(* What is shipped was reviewed: nothing of a review is taken back.         *)
LEMMA ApprovedIsReviewed ==
  ASSUME TypeOK, Bound, ApprovedHead # Nothing
  PROVE  Approved(ApprovedHead)
<1>1. /\ workflow # Nothing /\ workflow.evidence # Nothing
      /\ workflow.evidence.verdict = "APPROVE" /\ ApprovedHead = workflow.head
  BY DEF ApprovedHead
<1>2. workflow.evidence \in reviews /\ workflow.evidence.head = workflow.head
  BY <1>1 DEF TypeOK, Bound
<1> QED BY <1>1, <1>2 DEF Approved

(* Reviews and events are never removed.                                    *)
LEMMA EvidenceGrows ==
  ASSUME Next
  PROVE  reviews \subseteq reviews' /\ events \subseteq events'
  BY DEF Next, Touch, RecordCanary, Activate, Restart, EngineerWork, RecordFix, CodeReviewed,
         StartWorkflow, AcceptTargetedRereview, StartVerifier, VerifierRan, FinishVerifier,
         AbortVerifier, LookUp, ReadEvidence, WriteEvidence, ReplaceEvidence, verification, Recorded

(* What is on record stays on record, and what is approved stays approved.  *)
LEMMA RecordStands ==
  ASSUME Next
  PROVE  /\ \A e : OnRecord(e) => OnRecord(e)'
         /\ \A h : Approved(h) => Approved(h)'
         /\ ShippedWasReviewed /\ shipped' = shipped => ShippedWasReviewed'
<1>1. reviews \subseteq reviews' /\ events \subseteq events'
  BY EvidenceGrows
<1>2. \A e : OnRecord(e) => OnRecord(e)'
  BY <1>1 DEF OnRecord
<1>3. \A h : Approved(h) => Approved(h)'
  BY <1>1 DEF Approved
<1>4. ShippedWasReviewed /\ shipped' = shipped => ShippedWasReviewed'
  BY <1>1, <1>2 DEF ShippedWasReviewed
<1> QED BY <1>2, <1>3, <1>4

LEMMA BackedStep ==
  ASSUME TypeOK, Bound, Backed, ShippedWasReviewed, Next
  PROVE  Backed' /\ ShippedWasReviewed'
<1> USE DEF boundary, loop, verification
<1>1. CASE UNCHANGED <<reviews, probe, shipped>>
  BY <1>1, RecordStands DEF Backed, LookedUp, AllOnRecord
<1>2. ASSUME NEW g \in Engineers, NEW r \in Reviewers, NEW v \in Verdicts, NEW id \in ReviewIds,
             CodeReviewed(g, r, v, id)
      PROVE  Backed' /\ ShippedWasReviewed'
  <2> DEFINE new == [head |-> worktree, engineer |-> g, reviewer |-> r, verdict |-> v, event |-> id]
             event == [id |-> id, role |-> "code_reviewer", who |-> r]
  <2>1. /\ new.engineer = g /\ new.reviewer = r /\ new.event = id
        /\ reviews' = reviews \cup {new} /\ probe' = probe /\ shipped' = shipped
    BY <1>2 DEF CodeReviewed
  <2>2. /\ \E t \in events' : t.id = id /\ t.role = "code_reviewer" /\ t.who = r
        /\ \E t \in events' : t.role = "software_engineer" /\ t.who = g
    <3>1. event.id = id /\ event.role = "code_reviewer" /\ event.who = r
      OBVIOUS
    <3>2. events' = events \cup {event}
      BY <1>2 DEF CodeReviewed, Recorded
    <3>3. PICK t \in events : t.role = "software_engineer" /\ t.who = g
      BY <1>2 DEF CodeReviewed
    <3> HIDE DEF event
    <3> QED BY <3>1, <3>2, <3>3
  <2>3. AllOnRecord'
    <3> SUFFICES ASSUME NEW e \in reviews' PROVE OnRecord(e)'
      BY DEF AllOnRecord
    <3>1. CASE e \in reviews
      BY <3>1, RecordStands DEF Backed, AllOnRecord
    <3>2. CASE e \notin reviews
      <4>1. e.engineer = g /\ e.reviewer = r /\ e.event = id
        BY <2>1, <3>2
      <4> QED BY <2>2, <4>1 DEF OnRecord
    <3> QED BY <3>1, <3>2
  <2>4. LookedUp'
    BY <2>1 DEF Backed, LookedUp, Approved
  <2>5. ShippedWasReviewed'
    BY <2>1, RecordStands
  <2> QED BY <2>3, <2>4, <2>5 DEF Backed
<1>3. CASE LookUp
  <2>1. probe'.approved = ApprovedHead /\ reviews' = reviews /\ shipped' = shipped
    BY <1>3 DEF LookUp
  <2> QED BY <2>1, RecordStands, ApprovedIsReviewed DEF Backed, LookedUp, AllOnRecord
<1>4. CASE ReadEvidence
  <2>1. /\ file # Nothing /\ Fresh(file.head) /\ file.head \in Heads
        /\ "FAIL" \notin file.payload.tiers /\ file.payload.sandbox
    BY <1>4 DEF ReadEvidence, TypeOK, Evidence, ValidVerdict
  <2>2. \E e \in reviews : e.verdict = "APPROVE" /\ e.head = file.head /\ OnRecord(e)
    BY <2>1, NothingIsNone DEF Backed, LookedUp, AllOnRecord, Fresh, Approved
  <2>3. /\ shipped' = shipped \cup {file} /\ reviews' = reviews /\ events' = events
        /\ probe' = Nothing
    BY <1>4 DEF ReadEvidence
  <2>4. ShippedWasReviewed'
    BY <2>1, <2>2, <2>3 DEF ShippedWasReviewed, OnRecord
  <2> QED BY <2>3, <2>4, RecordStands DEF Backed, LookedUp, AllOnRecord
<1>5. ASSUME NEW h \in Heads, NEW payload \in Payloads, WriteEvidence(h, payload)
      PROVE  Backed' /\ ShippedWasReviewed'
  <2>1. probe' = Nothing /\ shipped' = shipped /\ reviews' = reviews
    BY <1>5 DEF WriteEvidence
  <2> QED BY <2>1, RecordStands DEF Backed, LookedUp, AllOnRecord
<1> QED BY <1>1, <1>2, <1>3, <1>4, <1>5
        DEF Next, Touch, RecordCanary, Activate, Restart, EngineerWork, RecordFix,
            StartWorkflow, AcceptTargetedRereview, StartVerifier, VerifierRan, FinishVerifier,
            AbortVerifier, ReplaceEvidence

-----------------------------------------------------------------------------
(* The gates.                                                               *)
LEMMA GatedStep ==
  ASSUME TypeOK, Gated, TelemetryGates, Next
  PROVE  Gated' /\ TelemetryGates'
<1> USE DEF boundary, loop, verification
<1>1. CASE UNCHANGED <<events, activation, returned, dispatched, capability>>
  BY <1>1 DEF Gated, TelemetryGates, UsedIds
<1>2. ASSUME NEW id \in Ids, NEW role \in {"orchestrator", "code_reviewer", "verifier"},
             NEW who \in Engineers \cup Reviewers \cup Verifiers \cup {Nothing},
             Recorded(id, role, who), UNCHANGED <<boundary, returned>>
      PROVE  Gated' /\ TelemetryGates'
  <2>1. /\ events \subseteq events' /\ UsedIds' = UsedIds \cup {id}
        /\ \A e \in events' \ events : e.role # "software_engineer"
    BY <1>2, Recording
  <2> QED BY <1>2, <2>1 DEF Gated, TelemetryGates
<1>3. CASE RecordCanary
  BY <1>2, <1>3 DEF RecordCanary, Ids
<1>4. CASE Activate
  <2>1. /\ Canary \in UsedIds /\ events' = events /\ activation' = TRUE /\ returned' = returned
        /\ dispatched' = dispatched /\ (capability' = capability \/ capability' = TRUE)
    BY <1>4 DEF Activate, UsedIds
  <2>2. UsedIds' = UsedIds
    BY <2>1 DEF UsedIds
  <2>3. CASE capability' = TRUE
    BY <2>1, <2>2, <2>3 DEF Gated, TelemetryGates
  <2>4. CASE UNCHANGED capability
    BY <2>1, <2>2, <2>4 DEF Gated, TelemetryGates
  <2> QED BY <2>1, <2>3, <2>4
<1>5. ASSUME NEW g \in Engineers, NEW h \in Heads, EngineerWork(g, h)
      PROVE  Gated' /\ TelemetryGates'
  <2>1. capability /\ activation /\ UNCHANGED <<capability, activation, returned>>
    BY <1>5 DEF EngineerWork, Gated
  <2>2. events \subseteq events' /\ UsedIds \subseteq UsedIds'
    BY <1>5 DEF EngineerWork, Recorded, UsedIds
  <2> QED BY <2>1, <2>2 DEF Gated, TelemetryGates
<1>6. ASSUME NEW g \in Engineers, NEW r \in Reviewers, NEW v \in Verdicts, NEW id \in ReviewIds,
             CodeReviewed(g, r, v, id)
      PROVE  Gated' /\ TelemetryGates'
  BY <1>2, <1>6 DEF CodeReviewed, Ids
<1>7. ASSUME NEW v \in Verifiers, FinishVerifier(v) \/ AbortVerifier(v)
      PROVE  Gated' /\ TelemetryGates'
  <2>1. dispatch[v].event \in VerifierIds
    BY <1>7 DEF FinishVerifier, AbortVerifier, At, TypeOK, Idle, Run
  <2>2. CASE UNCHANGED <<events, returned>>
    BY <1>1, <1>7, <2>2 DEF FinishVerifier, AbortVerifier
  <2>3. CASE Recorded(dispatch[v].event, "verifier", v) /\ returned' = returned
    BY <1>2, <1>7, <2>1, <2>3 DEF FinishVerifier, AbortVerifier, Ids
  <2>4. CASE /\ Recorded(dispatch[v].event, "verifier", v) /\ FinishVerifier(v)
             /\ \E x : x.event = dispatch[v].event /\ returned' = returned \cup {x}
    <3>1. /\ events \subseteq events' /\ UsedIds' = UsedIds \cup {dispatch[v].event}
          /\ \A e \in events' \ events : e.role # "software_engineer"
          /\ dispatch[v].event \notin UsedIds
      BY <2>1, <2>4, Recording DEF Ids
    <3>2. \A x, y \in returned' : x.event = y.event => x = y
      BY <2>4, <3>1 DEF Gated, TelemetryGates
    <3>3. UNCHANGED <<capability, activation, dispatched>>
      BY <2>4 DEF FinishVerifier
    <3>4. Gated'
      BY <2>4, <3>1, <3>3 DEF Gated
    <3>5. TelemetryGates'
      BY <3>1, <3>2, <3>3 DEF Gated, TelemetryGates
    <3> QED BY <3>4, <3>5
  <2> QED BY <1>7, <2>2, <2>3, <2>4 DEF FinishVerifier, AbortVerifier
<1>8. CASE Restart
  BY <1>8 DEF Restart, Gated, TelemetryGates, UsedIds
<1> QED BY <1>1, <1>3, <1>4, <1>5, <1>6, <1>7, <1>8
        DEF Next, Touch, RecordFix, StartWorkflow, AcceptTargetedRereview, StartVerifier,
            VerifierRan, LookUp, ReadEvidence, WriteEvidence, ReplaceEvidence

-----------------------------------------------------------------------------
LEMMA NextIInv == IInv /\ [Next]_vars => IInv'
<1>1. ASSUME IInv, Next PROVE IInv'
  BY <1>1, TypeStep, BoundStep, BackedStep, GatedStep DEF IInv
<1>2. ASSUME IInv, UNCHANGED vars PROVE IInv'
  BY <1>2 DEF vars, IInv, TypeOK, Bound, Backed, Gated, FindingsStayBound, UsedIds,
              ShippedWasReviewed, TelemetryGates, Approved, OnRecord, LookedUp,
              AllOnRecord
<1> QED BY <1>1, <1>2

(* The invariant of every behaviour.                                        *)
THEOREM Invariance == Spec => []IInv
  BY InitIInv, NextIInv, PTL DEF Spec

(* The types of the variables: see TypeOK.                                  *)
THEOREM TypeCorrect == Spec => []TypeOK
<1>1. IInv => TypeOK
  BY DEF IInv
<1> QED BY <1>1, Invariance, PTL

(* What is read as verified is of a commit that a review on record approved: *)
(* see ShippedWasReviewed.                                                  *)
THEOREM ShippedIsReviewed == Spec => []ShippedWasReviewed
<1>1. IInv => ShippedWasReviewed
  BY DEF IInv
<1> QED BY <1>1, Invariance, PTL

(* One reviewer and one engineer, over any number of fixes: see             *)
(* FindingsStayBound.                                                       *)
THEOREM FindingsBound == Spec => []FindingsStayBound
<1>1. IInv => FindingsStayBound
  BY DEF IInv
<1> QED BY <1>1, Invariance, PTL

(* One result for one event, no engineer's event without a canary, and no    *)
(* dispatch by a process that was not activated: see TelemetryGates.        *)
THEOREM GatesHold == Spec => []TelemetryGates
<1>1. IInv => TelemetryGates
  BY DEF IInv
<1> QED BY <1>1, Invariance, PTL

=============================================================================
