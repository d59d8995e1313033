--------------------------- MODULE WriterOwnership ---------------------------
(***************************************************************************)
(* What a task's writer claim promises, without files, processes or locks: *)
(* at most one holder; a claim is reserved while the task is vacant, then  *)
(* granted; a holder leaves by withdrawing or by a displacement that is    *)
(* logged in the same step.                                                *)
(***************************************************************************)
EXTENDS Naturals, Sequences

CONSTANTS Sessions, NoSession

VARIABLES holder, vacant, log

ownershipVars == <<holder, vacant, log>>

Init == holder = NoSession /\ vacant = TRUE /\ log = <<>>

Reserve ==
  /\ vacant
  /\ vacant' = FALSE
  /\ UNCHANGED <<holder, log>>

Grant(s) ==
  /\ ~vacant /\ holder = NoSession
  /\ holder' = s
  /\ UNCHANGED <<vacant, log>>

Withdraw ==
  /\ holder # NoSession
  /\ holder' = NoSession
  /\ UNCHANGED <<vacant, log>>

Vacate ==
  /\ ~vacant /\ holder = NoSession
  /\ vacant' = TRUE
  /\ UNCHANGED <<holder, log>>

Displace(s) ==
  /\ holder # NoSession /\ s # holder
  /\ holder' = s
  /\ log' = Append(log, [at |-> Len(log), previous |-> holder, successor |-> s])
  /\ UNCHANGED vacant

Next ==
  \/ Reserve \/ Withdraw \/ Vacate
  \/ \E s \in Sessions : Grant(s) \/ Displace(s)

Spec == Init /\ [][Next]_ownershipVars
=============================================================================
