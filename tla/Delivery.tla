------------------------------- MODULE Delivery -------------------------------
(***************************************************************************)
(* What the Builder-Guardian coordinator promises of one task, without     *)
(* commands, files or processes: a target is submitted, reviewed, verified *)
(* and shipped, in this order (docs/BUILDER-GUARDIAN.md, State flow), and  *)
(* nothing ships that was not approved and verified as it stands.          *)
(***************************************************************************)
CONSTANTS Commits, Sessions, None

VARIABLES phase, target, approved, verified

deliveryVars == <<phase, target, approved, verified>>

Init == phase = "NONE" /\ target = None /\ approved = {} /\ verified = {}

Move(from, to) == phase \in from /\ phase' = to

Contract ==
  /\ Move({"NONE"}, "CONTRACT_READY")
  /\ UNCHANGED <<target, approved, verified>>

Build ==
  /\ Move({"CONTRACT_READY"}, "BUILDING")
  /\ UNCHANGED <<target, approved, verified>>

Submit(c) ==
  /\ Move({"CONTRACT_READY", "BUILDING"}, "AWAITING_REVIEW")
  /\ target' = c
  /\ UNCHANGED <<approved, verified>>

Review(s) ==
  /\ phase = "AWAITING_REVIEW"
  /\ approved' = approved \cup {[commit |-> target, session |-> s]}
  /\ UNCHANGED <<phase, target, verified>>

Approved == \E s \in Sessions : [commit |-> target, session |-> s] \in approved

Approve ==
  /\ Move({"AWAITING_REVIEW"}, "GUARDIAN_APPROVED")
  /\ Approved
  /\ UNCHANGED <<target, approved, verified>>

Verify ==
  /\ Move({"GUARDIAN_APPROVED"}, "VERIFYING")
  /\ UNCHANGED <<target, approved, verified>>

Check ==
  /\ phase = "VERIFYING"
  /\ verified' = verified \cup {target}
  /\ UNCHANGED <<phase, target, approved>>

Pass ==
  /\ Move({"VERIFYING"}, "VERIFIED")
  /\ UNCHANGED <<target, approved, verified>>

Return ==
  /\ \/ Move({"AWAITING_REVIEW"}, "BUILDING")
     \/ Move({"VERIFYING"}, "VERIFICATION_FAILED")
     \/ Move({"VERIFICATION_FAILED"}, "BUILDING")
  /\ target' = None
  /\ UNCHANGED <<approved, verified>>

Block ==
  /\ Move({"BUILDING", "AWAITING_REVIEW"}, "BLOCKED")
  /\ UNCHANGED <<target, approved, verified>>

Ship ==
  /\ Move({"VERIFIED"}, "READY_TO_SHIP")
  /\ Approved /\ target \in verified
  /\ UNCHANGED <<target, approved, verified>>

Next ==
  \/ Contract \/ Build \/ Approve \/ Verify \/ Check \/ Pass \/ Return
  \/ Block \/ Ship
  \/ \E c \in Commits : Submit(c)
  \/ \E s \in Sessions : Review(s)

Spec == Init /\ [][Next]_deliveryVars
=============================================================================
