------------------------ MODULE FinalVerificationProofs ------------------------
(***************************************************************************)
(* Proofs about FinalVerification, for any plan, limits and times: types,  *)
(* that every command of the plan is accounted for, that a plan is only    *)
(* verified on the target it was checked against, that the deadline holds, *)
(* and that the outputs of all commands together keep within their limit.  *)
(* That an invocation ends stays with the model checker.                   *)
(***************************************************************************)
EXTENDS FinalVerification, SequenceTheorems, WellFoundedInduction, TLAPS

Result == [command : Range(Plan), exit : ExitCodes, size : Nat]

(* One result a command, in order, and all of them fine as long as the      *)
(* invocation goes on; while a command runs or waits it has none yet.       *)
ResultsOK ==
    /\ results \in Seq(Result)
    /\ Len(results) <= Len(Plan)
    /\ \A i \in DOMAIN results : results[i].command = Plan[i]
    /\ phase # "finished" => \A i \in DOMAIN results : results[i].exit = "ok"
    /\ phase \in {"running", "waiting"} => Len(results) < Len(Plan) /\ child \in Child
    /\ PlanAccounted

(* A part that has strayed is off; what the probe has read as reviewed has  *)
(* not, and once it has read all of it nothing has.                         *)
TargetOK ==
    /\ strayed \subseteq Off(worktree)
    /\ phase = "probing" /\ seen => \A i \in 1..(reading - 1) : ProbeOrder[i] \notin strayed
    /\ phase \in {"copying", "choosing", "running", "waiting"} => strayed = {}
    /\ VerifiedOnTarget

(* A command's own deadline is within the invocation's, and waiting for it  *)
(* adds no more than the grace.                                             *)
ClockOK ==
    /\ phase # "finished" => clock <= Deadline + Grace
    /\ phase = "running" => clock <= Deadline /\ child.until <= Deadline
    /\ phase = "waiting" => child.timedOut \/ child.until <= Deadline + Grace

IInv == TypeOK /\ ResultsOK /\ TargetOK /\ ClockOK

-----------------------------------------------------------------------------
(* What is kept of an output is within its limit.                           *)
LEMMA MinOfTwo ==
  ASSUME NEW a \in Int, NEW b \in Int
  PROVE  /\ Min({a, b}) = (IF a <= b THEN a ELSE b)
         /\ Max({a, b}) = (IF a <= b THEN b ELSE a)
<1> DEFINE least == IF a <= b THEN a ELSE b
           most == IF a <= b THEN b ELSE a
<1>1. \A x \in {a, b} : (\A y \in {a, b} : x <= y) <=> x = least
  OBVIOUS
<1>2. \A x \in {a, b} : (\A y \in {a, b} : x >= y) <=> x = most
  OBVIOUS
<1>3. least \in {a, b} /\ most \in {a, b}
  OBVIOUS
<1> HIDE DEF least, most
<1>4. Min({a, b}) = least
  BY <1>1, <1>3 DEF Min
<1>5. Max({a, b}) = most
  BY <1>2, <1>3 DEF Max
<1> QED BY <1>4, <1>5 DEF least, most

LEMMA BoundedWithin ==
  ASSUME NEW size \in Nat, NEW limit \in Int
  PROVE  /\ Bounded(size, limit) \in Nat
         /\ limit >= 0 => Bounded(size, limit) <= limit
<1> DEFINE room == IF 0 <= limit THEN limit ELSE 0
<1>1. Max({0, limit}) = room
  BY MinOfTwo
<1>2. room \in Nat
  OBVIOUS
<1> HIDE DEF room
<1>3. Min({size, room}) = (IF size <= room THEN size ELSE room)
  BY <1>2, MinOfTwo
<1>4. Bounded(size, limit) = (IF size <= room THEN size ELSE room)
  BY <1>1, <1>3 DEF Bounded
<1> QED BY <1>2, <1>4 DEF room

LEMMA LimitWithin ==
  ASSUME budget \in 0..TotalOutput
  PROVE  Limit \in Nat /\ Limit <= budget
  BY MinOfTwo, SizeAssumption DEF Limit

LEMMA KeptWithin ==
  ASSUME budget \in 0..TotalOutput, NEW stdout \in Nat, NEW stderr \in Nat
  PROVE  Kept(stdout, stderr) \in 0..budget
<1> DEFINE out == Bounded(stdout, Limit)
<1>1. Limit \in Nat /\ Limit <= budget
  BY LimitWithin
<1>2. out \in Nat /\ out <= Limit
  BY <1>1, BoundedWithin
<1> HIDE DEF out
<1>3. Bounded(stderr, Limit - out) \in Nat /\ Bounded(stderr, Limit - out) <= Limit - out
  BY <1>1, <1>2, BoundedWithin
<1>4. Kept(stdout, stderr) = out + Bounded(stderr, Limit - out)
  BY DEF Kept, out
<1> QED BY <1>1, <1>2, <1>3, <1>4, SizeAssumption

LEMMA DecodedWithin ==
  ASSUME budget \in 0..TotalOutput, child \in Child, NEW growth \in {1, 3}
  PROVE  DecodedSize(growth) \in 0..budget
<1>1. child.written["stdout"] \in Nat /\ child.written["stderr"] \in Nat
  BY DEF Child, Streams
<1>2. child.written["stdout"] * growth \in Nat /\ child.written["stderr"] * growth \in Nat
  BY <1>1
<1> DEFINE note == IF child.timedOut THEN TextSize ELSE 0
<1>3. note \in Nat
  BY SizeAssumption
<1>4. DecodedSize(growth)
        = Kept(child.written["stdout"] * growth, child.written["stderr"] * growth + note)
  BY DEF DecodedSize
<1> HIDE DEF note
<1>5. child.written["stderr"] * growth + note \in Nat
  BY <1>2, <1>3
<1> QED BY <1>2, <1>4, <1>5, KeptWithin

-----------------------------------------------------------------------------
(* The plan.                                                                *)
LEMMA PlanShape ==
  /\ Len(Plan) \in Nat \ {0} /\ DOMAIN Plan = 1..Len(Plan)
  /\ \A i \in 1..Len(Plan) : Plan[i] \in Range(Plan)
  BY PlanAssumption DEF Range

(* The results of what is not run: one each for the rest of the plan.       *)
LEMMA NotRunResults ==
  ASSUME NEW position \in 1..(Len(Plan) + 1), NEW limit \in Int
  PROVE  /\ NotRun(position, limit) \in Seq(Result)
         /\ Len(NotRun(position, limit)) = Len(Plan) - position + 1
         /\ \A k \in 1..(Len(Plan) - position + 1) :
               /\ NotRun(position, limit)[k].command = Plan[position + k - 1]
               /\ NotRun(position, limit)[k].exit = "none"
<1> DEFINE n == Len(Plan) - position + 1
           rest == NotRun(position, limit)
<1>1. n \in Nat
  BY PlanShape
<1>2. ASSUME NEW k \in 1..n
      PROVE  [command |-> Plan[position + k - 1], exit |-> "none",
              size |-> Bounded(TextSize, limit - (k - 1) * TextSize)] \in Result
  <2>1. position + k - 1 \in 1..Len(Plan)
    BY <1>1, PlanShape
  <2>2. TextSize \in Nat /\ k - 1 \in Int
    BY <1>1, SizeAssumption
  <2>3. (k - 1) * TextSize \in Int
    BY <2>2
  <2>4. limit - (k - 1) * TextSize \in Int
    BY <2>3
  <2>5. Bounded(TextSize, limit - (k - 1) * TextSize) \in Nat
    BY <2>2, <2>4, BoundedWithin
  <2> QED BY <2>1, <2>5, PlanShape DEF Result, ExitCodes
<1>3. rest \in [1..n -> Result]
  BY <1>2 DEF NotRun
<1>4. rest \in Seq(Result) /\ Len(rest) = n
  BY <1>1, <1>3, SeqDef
<1>5. \A k \in 1..n : rest[k].command = Plan[position + k - 1] /\ rest[k].exit = "none"
  BY DEF NotRun
<1> QED BY <1>4, <1>5

LEMMA Joined ==
  ASSUME NEW S, NEW s \in Seq(S), NEW t \in Seq(S)
  PROVE  /\ s \o t \in Seq(S) /\ Len(s \o t) = Len(s) + Len(t)
         /\ \A i \in 1..(Len(s) + Len(t)) :
               (s \o t)[i] = IF i <= Len(s) THEN s[i] ELSE t[i - Len(s)]
  BY ConcatProperties

(* Results that follow the plan, and are fine before the last.              *)
InOrder(done) == \A i \in DOMAIN done : done[i].command = Plan[i]
FineSoFar(done) == \A i \in DOMAIN done : i < Len(done) => done[i].exit = "ok"

(* Results that account for the whole plan.                                 *)
Accounted(all) ==
    /\ all \in Seq(Result)
    /\ Len(all) = Len(Plan)
    /\ InOrder(all)
    /\ \A i, j \in DOMAIN all : i < j /\ all[i].exit # "ok" => all[j].exit = "none"

(* Results that end the invocation with what is not run: one for each       *)
(* command, and none but the last of those given may have failed.           *)
LEMMA Concluded ==
  ASSUME NEW done \in Seq(Result), NEW limit \in Int,
         Len(done) <= Len(Plan), InOrder(done), FineSoFar(done)
  PROVE  Accounted(done \o NotRun(Len(done) + 1, limit))
<1> DEFINE rest == NotRun(Len(done) + 1, limit)
           d == Len(done)
           all == done \o rest
<1>1. d \in Nat /\ DOMAIN done = 1..d /\ d <= Len(Plan) /\ Len(Plan) \in Nat
  BY PlanShape
<1>2. d + 1 \in 1..(Len(Plan) + 1)
  BY <1>1
<1>3. /\ rest \in Seq(Result) /\ Len(rest) = Len(Plan) - d
      /\ \A k \in 1..(Len(Plan) - d) : rest[k].command = Plan[d + k] /\ rest[k].exit = "none"
  <2>1. Len(Plan) - (d + 1) + 1 = Len(Plan) - d /\ \A k \in Int : (d + 1) + k - 1 = d + k
    BY <1>1
  <2>2. /\ rest \in Seq(Result) /\ Len(rest) = Len(Plan) - (d + 1) + 1
        /\ \A k \in 1..(Len(Plan) - (d + 1) + 1) :
              rest[k].command = Plan[(d + 1) + k - 1] /\ rest[k].exit = "none"
    BY <1>2, NotRunResults
  <2>3. \A k \in 1..(Len(Plan) - d) : rest[k].command = Plan[d + k] /\ rest[k].exit = "none"
    <3> TAKE k \in 1..(Len(Plan) - d)
    <3>1. (d + 1) + k - 1 = d + k
      BY <1>1
    <3>2. k \in 1..(Len(Plan) - (d + 1) + 1)
      BY <2>1
    <3> QED BY <2>2, <3>1, <3>2
  <2> QED BY <2>1, <2>2, <2>3
<1> HIDE DEF rest
<1>4. all = done \o rest
  OBVIOUS
<1> HIDE DEF all
<1>5. /\ all \in Seq(Result) /\ Len(all) = Len(Plan) /\ DOMAIN all = 1..Len(Plan)
      /\ \A i \in 1..d : all[i] = done[i]
      /\ \A i \in (d + 1)..Len(Plan) : all[i] = rest[i - d]
  <2>1. /\ all \in Seq(Result) /\ Len(all) = d + Len(rest)
        /\ \A i \in 1..(d + Len(rest)) : all[i] = IF i <= d THEN done[i] ELSE rest[i - d]
    <3>1. ASSUME NEW t \in Seq(Result)
          PROVE  /\ done \o t \in Seq(Result) /\ Len(done \o t) = Len(done) + Len(t)
                 /\ \A i \in 1..(Len(done) + Len(t)) :
                       (done \o t)[i] = IF i <= Len(done) THEN done[i] ELSE t[i - Len(done)]
      BY Joined
    <3>2. /\ done \o rest \in Seq(Result) /\ Len(done \o rest) = Len(done) + Len(rest)
          /\ \A i \in 1..(Len(done) + Len(rest)) :
                (done \o rest)[i] = IF i <= Len(done) THEN done[i] ELSE rest[i - Len(done)]
      BY <1>3, <3>1
    <3> QED BY <1>4, <3>2
  <2>2. d + Len(rest) = Len(Plan)
    BY <1>1, <1>3
  <2>3. DOMAIN all = 1..Len(Plan)
    BY <2>1, <2>2, LenProperties
  <2>4. \A i \in 1..d : all[i] = done[i]
    BY <1>1, <2>1, <2>2
  <2>5. \A i \in (d + 1)..Len(Plan) : all[i] = rest[i - d]
    BY <1>1, <2>1, <2>2
  <2> QED BY <2>1, <2>2, <2>3, <2>4, <2>5
<1>6. \A i \in (d + 1)..Len(Plan) : all[i].command = Plan[i] /\ all[i].exit = "none"
  <2> TAKE i \in (d + 1)..Len(Plan)
  <2>1. i - d \in 1..(Len(Plan) - d) /\ d + (i - d) = i
    BY <1>1
  <2> QED BY <1>3, <1>5, <2>1
<1>7. \A i \in DOMAIN all : all[i].command = Plan[i]
  BY <1>1, <1>5, <1>6 DEF InOrder
<1>8. ASSUME NEW i \in DOMAIN all, NEW j \in DOMAIN all, i < j, all[i].exit # "ok"
      PROVE  all[j].exit = "none"
  <2>1. i >= d
    BY <1>1, <1>5, <1>8 DEF FineSoFar
  <2>2. j \in (d + 1)..Len(Plan)
    BY <1>1, <1>5, <1>8, <2>1
  <2> QED BY <1>6, <2>2
<1> QED BY <1>5, <1>7, <1>8 DEF Accounted, InOrder, all, rest

-----------------------------------------------------------------------------
(* The invariant holds at the start, and each action keeps it.              *)
LEMMA InitHolds == Init => IInv
<1> SUFFICES ASSUME Init PROVE IInv
  OBVIOUS
<1> USE DEF Init
<1>1. Len(tree) \in Nat /\ Len(ProbeOrder) = 3
  BY SizeAssumption DEF ProbeOrder
<1>2. TypeOK
  <2>1. 0 \in 0..Horizon /\ 0 \in 0..Len(tree) /\ 1 \in 1..Len(ProbeOrder)
    BY <1>1, HorizonAssumption
  <2>2. budget \in 0..TotalOutput
    <3>1. TotalOutput \in Nat
      BY SizeAssumption
    <3> QED BY <3>1
  <2>3. \A i \in DOMAIN results : results[i].exit \in ExitCodes /\ results[i].size \in Nat
    OBVIOUS
  <2>4. strayed \subseteq Parts
    BY DEF Off
  <2>5. phase \in Phases /\ (phase = "finished") = (verdict # "none")
    BY DEF Phases
  <2> QED BY <2>1, <2>2, <2>3, <2>4, <2>5 DEF TypeOK
<1>3. ResultsOK
  BY PlanShape DEF ResultsOK, PlanAccounted, Result
<1>4. TargetOK
  BY DEF TargetOK, VerifiedOnTarget, Off
<1>5. ClockOK
  BY TimeAssumption DEF ClockOK
<1> QED BY <1>2, <1>3, <1>4, <1>5 DEF IInv

LEMMA ProbePartHolds == IInv /\ ProbePart => IInv'
<1> SUFFICES ASSUME IInv, ProbePart PROVE IInv'
  OBVIOUS
<1> USE DEF ProbePart, IInv
<1>1. Len(ProbeOrder) = 3 /\ \A i \in 1..3 : ProbeOrder[i] \in Parts
  BY DEF ProbeOrder, Parts
<1>2. TypeOK'
  BY <1>1 DEF TypeOK, target, probe, End, Phases
<1>3. ResultsOK'
  BY DEF TypeOK, ResultsOK, PlanAccounted, probe, End
<1>4. TargetOK'
  <2> DEFINE asReviewed == seen /\ worktree[ProbeOrder[reading]]
  <2>1. asReviewed => \A i \in 1..reading : ProbeOrder[i] \notin strayed
    BY <1>1 DEF TypeOK, TargetOK, Off
  <2>2. CASE reading < Len(ProbeOrder)
    BY <1>1, <2>1, <2>2 DEF TypeOK, TargetOK, VerifiedOnTarget, target, Off
  <2>3. CASE ~(reading < Len(ProbeOrder)) /\ asReviewed
    <3>1. strayed = {}
      BY <1>1, <2>1, <2>3 DEF TypeOK, ProbeOrder, Parts
    <3> QED BY <1>1, <2>3, <3>1 DEF TypeOK, TargetOK, VerifiedOnTarget, target, probe, Off
  <2>4. CASE ~(reading < Len(ProbeOrder)) /\ ~asReviewed
    BY <2>4 DEF TypeOK, TargetOK, VerifiedOnTarget, target, probe, Off, End
  <2> QED BY <2>2, <2>3, <2>4
<1>5. ClockOK'
  BY DEF ClockOK, End
<1> QED BY <1>2, <1>3, <1>4, <1>5

LEMMA CopyHolds == IInv /\ (CopyBlob \/ MakeContext \/ GitFails) => IInv'
<1> SUFFICES ASSUME IInv, CopyBlob \/ MakeContext \/ GitFails PROVE IInv'
  OBVIOUS
<1> USE DEF CopyBlob, MakeContext, GitFails, IInv, End, target, probe, outcome
<1>1. TypeOK'
  <2>1. Len(tree) \in Nat
    BY SizeAssumption DEF TypeOK
  <2> QED BY <2>1 DEF TypeOK, Phases
<1>2. ResultsOK'
  BY DEF TypeOK, ResultsOK, PlanAccounted
<1>3. TargetOK'
  BY DEF TypeOK, TargetOK, VerifiedOnTarget, Off
<1>4. ClockOK'
  BY DEF ClockOK
<1> QED BY <1>1, <1>2, <1>3, <1>4

(* A recorded result is accounted for whether the plan goes on or ends.     *)
LEMMA RecordHolds ==
  ASSUME IInv, phase # "finished", Len(results) < Len(Plan),
         NEW exit \in ExitCodes, NEW size \in 0..budget, Record(exit, size),
         UNCHANGED <<clock, worktree, tree, copied>>
  PROVE  IInv'
<1> DEFINE result == [command |-> Plan[Len(results) + 1], exit |-> exit, size |-> size]
           done == Append(results, result)
           n == Len(results)
<1>1. n \in Nat /\ Len(Plan) \in Nat /\ n + 1 \in 1..Len(Plan) /\ DOMAIN results = 1..n
  BY PlanShape DEF IInv, ResultsOK
<1>2. size \in Nat /\ TotalOutput \in Nat /\ budget \in Nat /\ budget - size \in 0..TotalOutput
  <2>1. TotalOutput \in Nat
    BY SizeAssumption
  <2> QED BY <2>1 DEF IInv, TypeOK
<1>3. result \in Result
  BY <1>1, <1>2, PlanShape DEF Result
<1>4. results \in Seq(Result)
  BY DEF IInv, ResultsOK
<1>5. /\ done \in Seq(Result) /\ Len(done) = n + 1 /\ DOMAIN done = 1..(n + 1)
      /\ \A i \in 1..n : done[i] = results[i]
      /\ done[n + 1] = result
  <2> HIDE DEF result
  <2>1. /\ done \in Seq(Result) /\ Len(done) = Len(results) + 1
        /\ \A i \in 1..Len(results) : done[i] = results[i]
        /\ done[Len(results) + 1] = result
    BY <1>3, <1>4, AppendProperties
  <2>2. DOMAIN done = 1..Len(done)
    BY <2>1, LenProperties
  <2> QED BY <2>1, <2>2
<1>6. InOrder(done)
  BY <1>1, <1>5 DEF IInv, ResultsOK, InOrder
<1>7. FineSoFar(done)
  BY <1>1, <1>5 DEF IInv, ResultsOK, FineSoFar
<1>8. exit = "ok" => \A i \in DOMAIN done : done[i].exit = "ok"
  BY <1>1, <1>5, <1>7 DEF FineSoFar
<1>9. /\ budget' = budget - size /\ child' = NoChild
      /\ phase' = PhaseAfter(exit)
      /\ exit = "ok" => /\ results' = done /\ reading' = 1 /\ seen' = TRUE
                        /\ strayed' = Off(worktree) /\ verdict' = verdict
      /\ exit # "ok" => /\ results' = done \o NotRun(Len(done) + 1, budget - size)
                        /\ verdict' = "UNVERIFIED"
                        /\ UNCHANGED <<reading, seen, strayed>>
  BY DEF Record, probe
<1>10. verdict = "none"
  BY DEF IInv, TypeOK
<1> HIDE DEF result, done, n
<1>11. exit # "ok" => Accounted(results')
  <2>1. Len(done) <= Len(Plan) /\ budget - size \in Int
    BY <1>1, <1>2, <1>5
  <2>2. Accounted(done \o NotRun(Len(done) + 1, budget - size))
    BY <1>5, <1>6, <1>7, <2>1, Concluded
  <2> QED BY <1>9, <2>2
<1>12. results' \in Seq(Result)
  BY <1>5, <1>9, <1>11 DEF Accounted
<1>13. TypeOK'
  <2>1. \A i \in DOMAIN results' : results'[i].exit \in ExitCodes /\ results'[i].size \in Nat
    <3>1. \A i \in DOMAIN results' : results'[i] \in Result
      BY <1>12
    <3> QED BY <3>1 DEF Result
  <2>2. phase' \in Phases /\ verdict' \in {"none", "VERIFIED", "UNVERIFIED", "raised"}
        /\ (phase' = "finished") = (verdict' # "none")
    BY <1>9, <1>10 DEF PhaseAfter, Phases
  <2>3. strayed' \subseteq Parts /\ seen' \in BOOLEAN /\ reading' \in 1..Len(ProbeOrder)
    <3>1. Len(ProbeOrder) = 3
      BY DEF ProbeOrder
    <3>2. CASE exit = "ok"
      BY <1>9, <3>1, <3>2 DEF Off
    <3>3. CASE exit # "ok"
      BY <1>9, <3>3 DEF IInv, TypeOK
    <3> QED BY <3>2, <3>3
  <2> QED BY <1>2, <1>9, <2>1, <2>2, <2>3 DEF IInv, TypeOK
<1>14. ResultsOK'
  <2>1. CASE exit = "ok"
    BY <1>1, <1>5, <1>6, <1>8, <1>9, <1>10, <1>12, <2>1 DEF ResultsOK, PlanAccounted, PhaseAfter, Accounted, InOrder
  <2>2. CASE exit # "ok"
    BY <1>1, <1>9, <1>11, <2>2 DEF ResultsOK, PlanAccounted, PhaseAfter, Accounted, InOrder
  <2> QED BY <2>1, <2>2
<1>15. TargetOK'
  <2>1. CASE exit = "ok"
    BY <1>9, <1>10, <2>1 DEF TargetOK, VerifiedOnTarget, PhaseAfter, Off
  <2>2. CASE exit # "ok"
    BY <1>9, <2>2 DEF IInv, TargetOK, VerifiedOnTarget, PhaseAfter, Off
  <2> QED BY <2>1, <2>2
<1>16. ClockOK'
  BY <1>9 DEF IInv, ClockOK, PhaseAfter
<1> QED BY <1>13, <1>14, <1>15, <1>16 DEF IInv

LEMMA RefuseHolds == IInv /\ RefuseCommand => IInv'
<1> SUFFICES ASSUME IInv, RefuseCommand PROVE IInv'
  OBVIOUS
<1>1. budget \in 0..TotalOutput
  BY DEF IInv, TypeOK
<1>2. Limit \in Nat /\ Limit <= budget /\ TextSize \in Nat /\ TotalOutput \in Nat
  BY <1>1, LimitWithin, SizeAssumption
<1>3. Bounded(TextSize, Limit) \in Nat /\ Bounded(TextSize, Limit) <= Limit
  BY <1>2, BoundedWithin
<1>4. Bounded(TextSize, Limit) \in 0..budget
  BY <1>1, <1>2, <1>3
<1>5. phase # "finished" /\ Len(results) < Len(Plan) /\ Record("none", Bounded(TextSize, Limit))
      /\ UNCHANGED <<clock, worktree, tree, copied>>
  BY DEF RefuseCommand
<1> QED BY <1>4, <1>5, RecordHolds DEF ExitCodes

LEMMA CollectHolds == IInv /\ Collect => IInv'
<1> SUFFICES ASSUME IInv, Collect PROVE IInv'
  OBVIOUS
<1>1. budget \in 0..TotalOutput /\ child \in Child /\ Len(results) < Len(Plan)
      /\ phase # "finished" /\ UNCHANGED <<clock, worktree, tree, copied>>
  BY DEF IInv, TypeOK, ResultsOK, Collect
<1>2. PICK growth \in {1, 3} : Record(ExitCode, DecodedSize(growth))
  BY DEF Collect
<1>3. DecodedSize(growth) \in 0..budget
  BY <1>1, DecodedWithin
<1>4. ExitCode \in ExitCodes
  BY <1>1 DEF ExitCode, ExitCodes, Child
<1> QED BY <1>1, <1>2, <1>3, <1>4, RecordHolds

(* The commands not run are accounted for when the plan stops early, and    *)
(* none is left when it is finished.                                        *)
LEMMA StopHolds == IInv /\ StopEarly => IInv'
<1> SUFFICES ASSUME IInv, StopEarly PROVE IInv'
  OBVIOUS
<1> USE DEF StopEarly, End, target, probe
<1>1. results \in Seq(Result) /\ Len(results) <= Len(Plan) /\ InOrder(results)
  BY DEF IInv, ResultsOK, InOrder
<1>2. FineSoFar(results)
  BY DEF IInv, ResultsOK, FineSoFar
<1>3. budget \in Int
  BY SizeAssumption DEF IInv, TypeOK
<1>4. Accounted(results \o NotRun(Len(results) + 1, budget))
  BY <1>1, <1>2, <1>3, Concluded
<1>5. Accounted(results')
  BY <1>4
<1>6. TypeOK'
  <2>1. \A i \in DOMAIN results' : results'[i].exit \in ExitCodes /\ results'[i].size \in Nat
    <3>1. \A i \in DOMAIN results' : results'[i] \in Result
      BY <1>5 DEF Accounted
    <3> QED BY <3>1 DEF Result
  <2> QED BY <2>1 DEF IInv, TypeOK, Phases
<1>7. ResultsOK'
  BY <1>5, PlanShape DEF ResultsOK, PlanAccounted, Accounted, InOrder
<1>8. TargetOK' /\ ClockOK'
  BY DEF IInv, TargetOK, VerifiedOnTarget, ClockOK, Off
<1> QED BY <1>6, <1>7, <1>8 DEF IInv

LEMMA FinishHolds == IInv /\ FinishPlan => IInv'
<1> SUFFICES ASSUME IInv, FinishPlan PROVE IInv'
  OBVIOUS
<1> USE DEF FinishPlan, End, target, probe
<1>1. TypeOK'
  BY DEF IInv, TypeOK, Phases
<1>2. ResultsOK'
  BY DEF IInv, ResultsOK, PlanAccounted
<1>3. TargetOK' /\ ClockOK'
  BY DEF IInv, TargetOK, VerifiedOnTarget, ClockOK, Off
<1> QED BY <1>1, <1>2, <1>3 DEF IInv

(* A command gets no more time than the invocation has left.                *)
LEMMA StartHolds == IInv /\ StartCommand => IInv'
<1> SUFFICES ASSUME IInv, StartCommand PROVE IInv'
  OBVIOUS
<1> USE DEF StartCommand, target, probe, outcome
<1>1. clock \in Nat /\ CommandTimeout \in Nat /\ Deadline \in Nat
  BY HorizonAssumption, TimeAssumption DEF IInv, TypeOK
<1>2. CommandDeadline \in Nat /\ CommandDeadline <= Deadline
  BY <1>1, MinOfTwo DEF CommandDeadline
<1> HIDE DEF CommandDeadline
<1>3. child' \in Child
  BY <1>2 DEF Child, Streams
<1>4. child'.until = CommandDeadline
  OBVIOUS
<1>5. TypeOK'
  BY <1>3 DEF IInv, TypeOK, Phases
<1>6. ResultsOK'
  BY <1>3 DEF IInv, TypeOK, ResultsOK, PlanAccounted
<1>7. TargetOK'
  BY DEF IInv, TargetOK, VerifiedOnTarget, Off
<1>8. ClockOK'
  BY <1>1, <1>2, <1>4 DEF IInv, ClockOK, TimeLeft
<1> QED BY <1>5, <1>6, <1>7, <1>8 DEF IInv

LEMMA EndOfCommandHolds == IInv /\ (Drained \/ TimeOut) => IInv'
<1> SUFFICES ASSUME IInv, Drained \/ TimeOut PROVE IInv'
  OBVIOUS
<1> USE DEF Drained, TimeOut, target, probe, outcome
<1>1. child \in Child /\ clock \in Nat /\ Grace \in Nat
  BY HorizonAssumption, TimeAssumption DEF IInv, ResultsOK, TypeOK
<1>2. child' \in Child
  <2>1. CASE Drained
    BY <1>1, <2>1 DEF Child
  <2>2. CASE TimeOut
    <3> DEFINE killed == [child EXCEPT !.timedOut = TRUE]
    <3>1. killed \in Child
      BY <1>1 DEF Child
    <3>2. child' = [killed EXCEPT !.open = {}]
      BY <1>1, <2>2 DEF Child
    <3> HIDE DEF killed
    <3> QED BY <3>1, <3>2 DEF Child
  <2> QED BY <2>1, <2>2
<1>3. TypeOK'
  BY <1>2 DEF IInv, TypeOK, Phases
<1>4. ResultsOK'
  BY <1>2 DEF IInv, TypeOK, ResultsOK, PlanAccounted
<1>5. TargetOK'
  BY DEF IInv, TargetOK, VerifiedOnTarget, Off
<1>6. child'.timedOut \/ child'.until <= Deadline + Grace
  <2>1. CASE Drained
    <3>1. child'.until = clock + Grace
      BY <1>1, <2>1 DEF Child
    <3>2. clock <= Deadline /\ Deadline \in Nat
      BY <2>1, TimeAssumption DEF IInv, ClockOK
    <3> QED BY <1>1, <3>1, <3>2
  <2>2. CASE TimeOut
    BY <1>1, <2>2 DEF Child
  <2> QED BY <2>1, <2>2
<1>7. ClockOK'
  BY <1>6 DEF IInv, ClockOK
<1> QED BY <1>3, <1>4, <1>5, <1>7 DEF IInv

LEMMA ProcessHolds == IInv /\ Process => IInv'
<1> SUFFICES ASSUME IInv, Process PROVE IInv'
  OBVIOUS
<1> USE DEF target, probe, outcome
<1>1. phase \in {"running", "waiting"} /\ child \in Child
  BY DEF IInv, TypeOK, ResultsOK, Process, Write, CloseStream, Exit
<1>2. child' \in Child /\ child'.until = child.until /\ child'.timedOut = child.timedOut
  <2>1. ASSUME NEW s \in Streams, CloseStream(s)
        PROVE  child' \in Child /\ child'.until = child.until /\ child'.timedOut = child.timedOut
    BY <1>1, <2>1 DEF CloseStream, Child
  <2>2. ASSUME NEW s \in Streams, NEW size \in ChunkSizes, Write(s, size)
        PROVE  child' \in Child /\ child'.until = child.until /\ child'.timedOut = child.timedOut
    <3> DEFINE room == Limit - (child.written["stdout"] + child.written["stderr"])
               n == Bounded(size, room)
    <3>1. Limit \in Nat /\ size \in Nat
      BY LimitWithin, SizeAssumption DEF IInv, TypeOK
    <3>2. child.written["stdout"] \in Nat /\ child.written["stderr"] \in Nat
      BY <1>1 DEF Child, Streams
    <3>3. room \in Int
      BY <3>1, <3>2
    <3> HIDE DEF room
    <3>4. n \in Nat
      BY <3>1, <3>3, BoundedWithin
    <3>5. child' = [child EXCEPT !.written[s] = @ + n]
      BY <2>2 DEF Write, room
    <3> HIDE DEF n
    <3>6. [child.written EXCEPT ![s] = @ + n] \in [Streams -> Nat]
      BY <1>1, <3>4 DEF Child
    <3> QED BY <1>1, <3>5, <3>6 DEF Child
  <2>3. ASSUME NEW code \in {"ok", "fails"}, Exit(code)
        PROVE  child' \in Child /\ child'.until = child.until /\ child'.timedOut = child.timedOut
    BY <1>1, <2>3 DEF Exit, Child
  <2> QED BY <2>1, <2>2, <2>3 DEF Process
<1>3. UNCHANGED <<phase, clock, worktree, strayed, reading, seen, tree, copied, budget, results,
                  verdict>>
  BY DEF Process, Write, CloseStream, Exit
<1>4. TypeOK'
  BY <1>2, <1>3 DEF IInv, TypeOK
<1>5. ResultsOK'
  BY <1>2, <1>3 DEF IInv, ResultsOK, PlanAccounted
<1>6. TargetOK'
  BY <1>3 DEF IInv, TargetOK, VerifiedOnTarget, Off
<1>7. ClockOK'
  BY <1>2, <1>3 DEF IInv, ClockOK
<1> QED BY <1>4, <1>5, <1>6, <1>7 DEF IInv

LEMMA MoveHolds == IInv /\ MoveTarget => IInv'
<1> SUFFICES ASSUME IInv, MoveTarget PROVE IInv'
  OBVIOUS
<1> USE DEF MoveTarget, probe, outcome
<1>1. worktree' \in [Parts -> BOOLEAN] /\ strayed' = strayed \cap Off(worktree')
  OBVIOUS
<1>2. TypeOK'
  BY <1>1 DEF IInv, TypeOK
<1>3. ResultsOK'
  BY DEF IInv, ResultsOK, PlanAccounted
<1>4. TargetOK'
  BY <1>1 DEF IInv, TargetOK, VerifiedOnTarget, Off
<1>5. ClockOK'
  BY DEF IInv, ClockOK
<1> QED BY <1>2, <1>3, <1>4, <1>5 DEF IInv

(* Time passes while the harness waits, so no further than it waits for.    *)
LEMMA TickHolds == IInv /\ Tick => IInv'
<1> SUFFICES ASSUME IInv, Tick PROVE IInv'
  OBVIOUS
<1> USE DEF Tick, target, probe, outcome
<1>1. clock \in Nat /\ Horizon \in Nat /\ Deadline \in Nat /\ Grace \in Nat
  BY HorizonAssumption, TimeAssumption DEF IInv, TypeOK
<1>2. TypeOK'
  BY <1>1 DEF IInv, TypeOK
<1>3. ResultsOK'
  BY DEF IInv, ResultsOK, PlanAccounted
<1>4. TargetOK'
  BY DEF IInv, TargetOK, VerifiedOnTarget, Off
<1>5. ClockOK'
  <2>1. phase \in {"probing", "copying", "choosing", "running", "waiting"}
    BY DEF IInv, TypeOK, Phases
  <2>2. CASE phase \in {"probing", "copying", "choosing"}
    BY <1>1, <2>2 DEF IInv, ClockOK, Due, TimeLeft
  <2>3. CASE phase = "running"
    <3>1. child.until \in Nat
      BY <2>3 DEF IInv, ResultsOK, Child
    <3> QED BY <1>1, <2>3, <3>1 DEF IInv, ClockOK, Due
  <2>4. CASE phase = "waiting"
    <3>1. child.until \in Nat
      BY <2>4 DEF IInv, ResultsOK, Child
    <3> QED BY <1>1, <2>4, <3>1 DEF IInv, ClockOK, Due, Gone
  <2> QED BY <2>1, <2>2, <2>3, <2>4
<1> QED BY <1>2, <1>3, <1>4, <1>5 DEF IInv

-----------------------------------------------------------------------------
(* Every state of an invocation satisfies the invariant, and with it the    *)
(* properties.                                                              *)
THEOREM Invariance == Spec => []IInv
<1>1. Init => IInv
  BY InitHolds
<1>2. IInv /\ [Next]_vars => IInv'
  <2> SUFFICES ASSUME IInv, [Next]_vars PROVE IInv'
    OBVIOUS
  <2>1. CASE Harness
    BY <2>1, ProbePartHolds, CopyHolds, StopHolds, StartHolds, RefuseHolds, EndOfCommandHolds,
       CollectHolds, FinishHolds DEF Harness
  <2>2. CASE Process
    BY <2>2, ProcessHolds
  <2>3. CASE MoveTarget
    BY <2>3, MoveHolds
  <2>4. CASE Tick
    BY <2>4, TickHolds
  <2>5. CASE UNCHANGED vars
    BY <2>5 DEF IInv, TypeOK, ResultsOK, PlanAccounted, TargetOK, VerifiedOnTarget, ClockOK, Off,
                vars
  <2> QED BY <2>1, <2>2, <2>3, <2>4, <2>5 DEF Next
<1> QED BY <1>1, <1>2, PTL DEF Spec

(* The state of the harness, of the command's process and of the results    *)
(* has its type.                                                            *)
THEOREM TypeCorrect == Spec => []TypeOK
<1>1. IInv => TypeOK
  BY DEF IInv
<1> QED BY <1>1, Invariance, PTL

(* However the plan ends, run_final_verification returns one result for     *)
(* each of its commands, in order, with nothing run after a failure.        *)
THEOREM PlanIsAccounted == Spec => []PlanAccounted
<1>1. IInv => PlanAccounted
  BY DEF IInv, ResultsOK
<1> QED BY <1>1, Invariance, PTL

(* A plan is not verified while a part of the target has been off since the *)
(* last probe of _require_target began.                                     *)
THEOREM VerifiedOnTheTarget == Spec => []VerifiedOnTarget
<1>1. IInv => VerifiedOnTarget
  BY DEF IInv, TargetOK
<1> QED BY <1>1, Invariance, PTL

(* An invocation that runs is within its deadline and the grace given to a  *)
(* process to exit.                                                         *)
THEOREM DeadlineHolds == Spec => []EndsByDeadline
<1>1. IInv => EndsByDeadline
  BY DEF IInv, ClockOK, EndsByDeadline
<1> QED BY <1>1, Invariance, PTL

-----------------------------------------------------------------------------
(* The output of all results together.                                      *)

(* A set of naturals has a least element: what stands for induction here.   *)
LEMMA Least ==
  ASSUME NEW T \in SUBSET Nat, T # {}
  PROVE  \E n \in T : \A m \in T : n <= m
<1>1. IsWellFoundedOn(OpToRel(<, Nat), Nat)
  BY NatLessThanWellFounded
<1>2. PICK n \in T : \A m \in T : <<m, n>> \notin OpToRel(<, Nat)
  BY <1>1, WFMin
<1>3. ASSUME NEW m \in T PROVE n <= m
  <2>1. <<m, n>> \in Nat \X Nat /\ <<m, n>>[1] = m /\ <<m, n>>[2] = n
    OBVIOUS
  <2>2. <<m, n>> \notin {ss \in Nat \X Nat : ss[1] < ss[2]}
    BY <1>2 DEF OpToRel
  <2>3. ~(m < n)
    BY <2>1, <2>2
  <2> QED BY <2>3
<1> QED BY <1>3

(* f[i] is the sum of the first i sizes.                                    *)
Sums(f, sizes) ==
    /\ f \in [0..Len(sizes) -> Nat]
    /\ f[0] = 0
    /\ \A i \in 1..Len(sizes) : f[i] = f[i - 1] + sizes[i]

(* There is one way only to add sizes up.                                   *)
LEMMA SumsUnique ==
  ASSUME NEW sizes \in Seq(Nat), NEW f, Sums(f, sizes),
         NEW g, g[0] = 0, \A i \in 1..Len(sizes) : g[i] = g[i - 1] + sizes[i]
  PROVE  \A i \in 0..Len(sizes) : g[i] = f[i]
<1> DEFINE off == {i \in 0..Len(sizes) : g[i] # f[i]}
<1>1. Len(sizes) \in Nat
  OBVIOUS
<1>2. ASSUME off # {} PROVE FALSE
  <2>1. off \in SUBSET Nat
    BY <1>1
  <2>2. PICK n \in off : \A m \in off : n <= m
    <3> HIDE DEF off
    <3> QED BY <1>2, <2>1, Least
  <2>3. n \in 1..Len(sizes) /\ n - 1 \in 0..Len(sizes)
    BY <1>1, <2>2 DEF Sums
  <2>4. g[n - 1] = f[n - 1]
    BY <1>1, <2>2, <2>3
  <2>5. g[n] = f[n]
    BY <2>3, <2>4 DEF Sums
  <2> QED BY <2>2, <2>5
<1> QED BY <1>2

(* SumSeq adds its sizes up.                                                *)
LEMMA SumSeqSums ==
  ASSUME NEW sizes \in Seq(Nat), NEW f, Sums(f, sizes)
  PROVE  SumSeq(sizes) = f[Len(sizes)]
<1> DEFINE Adds(g) ==
             g = [i \in 0..Len(sizes) |-> IF i = 0 THEN 0 ELSE g[i - 1] + sizes[i]]
           upTo == CHOOSE g : Adds(g)
<1>1. Len(sizes) \in Nat
  OBVIOUS
<1>2. Adds(f)
  BY <1>1 DEF Sums
<1>3. Adds(upTo)
  BY <1>2
<1>4. SumSeq(sizes) = upTo[Len(sizes)]
  BY DEF SumSeq
<1> HIDE DEF upTo
<1>5. \A i \in 0..Len(sizes) : upTo[i] = IF i = 0 THEN 0 ELSE upTo[i - 1] + sizes[i]
  BY <1>3
<1>6. upTo[0] = 0 /\ \A i \in 1..Len(sizes) : upTo[i] = upTo[i - 1] + sizes[i]
  BY <1>1, <1>5
<1>7. upTo[Len(sizes)] = f[Len(sizes)]
  BY <1>1, <1>6, SumsUnique
<1> QED BY <1>4, <1>7

(* f[i] is the output of the first i results.                               *)
Outputs(f, done) ==
    /\ f \in [0..Len(done) -> Nat]
    /\ f[0] = 0
    /\ \A i \in 1..Len(done) : f[i] = f[i - 1] + done[i].size

LEMMA OutputsSum ==
  ASSUME NEW done \in Seq(Result), NEW f, Outputs(f, done)
  PROVE  SumSeq([i \in DOMAIN done |-> done[i].size]) = f[Len(done)]
<1> DEFINE sizes == [i \in DOMAIN done |-> done[i].size]
<1>1. Len(done) \in Nat /\ DOMAIN done = 1..Len(done)
      /\ \A i \in 1..Len(done) : done[i].size \in Nat
  <2>1. ASSUME NEW i \in 1..Len(done) PROVE done[i].size \in Nat
    <3>1. done[i] \in Result
      OBVIOUS
    <3> QED BY <3>1 DEF Result
  <2> QED BY <2>1
<1>2. sizes \in [1..Len(done) -> Nat]
  BY <1>1
<1>3. sizes \in Seq(Nat) /\ Len(sizes) = Len(done)
  BY <1>1, <1>2, SeqDef
<1>4. \A i \in 1..Len(done) : sizes[i] = done[i].size
  BY <1>1
<1> HIDE DEF sizes
<1>5. Sums(f, sizes)
  BY <1>3, <1>4 DEF Sums, Outputs
<1>6. SumSeq(sizes) = f[Len(sizes)]
  BY <1>3, <1>5, SumSeqSums
<1> QED BY <1>3, <1>6 DEF sizes

(* One result more adds its output.                                         *)
LEMMA OneMore ==
  ASSUME NEW done \in Seq(Result), NEW result \in Result, NEW f, Outputs(f, done)
  PROVE  \E g : /\ Outputs(g, Append(done, result))
                /\ g[Len(done) + 1] = f[Len(done)] + result.size
<1> DEFINE n == Len(done)
           g == [i \in 0..(n + 1) |-> IF i <= n THEN f[i] ELSE f[n] + result.size]
           more == Append(done, result)
<1>1. n \in Nat /\ result.size \in Nat /\ f[n] \in Nat
  BY DEF Outputs, Result
<1>2. /\ Len(more) = n + 1 /\ more[n + 1] = result
      /\ \A i \in 1..n : more[i] = done[i]
  OBVIOUS
<1> HIDE DEF more
<1>3. g \in [0..(n + 1) -> Nat] /\ g[0] = 0
  BY <1>1 DEF Outputs
<1>4. \A i \in 1..(n + 1) : g[i] = g[i - 1] + more[i].size
  BY <1>1, <1>2 DEF Outputs
<1>5. g[n + 1] = f[n] + result.size
  BY <1>1
<1>6. Outputs(g, more)
  BY <1>2, <1>3, <1>4 DEF Outputs
<1> QED BY <1>5, <1>6 DEF more

(* The reasons of k commands that are not run take k texts from the limit,  *)
(* or all of it.                                                            *)
Reasons(k, limit) == IF k * TextSize <= limit THEN k * TextSize ELSE limit

LEMMA ReasonsAdd ==
  ASSUME NEW k \in Nat \ {0}, NEW limit \in Nat
  PROVE  /\ Reasons(k, limit) \in 0..limit /\ Reasons(0, limit) = 0
         /\ Reasons(k, limit)
              = Reasons(k - 1, limit) + Bounded(TextSize, limit - (k - 1) * TextSize)
<1> DEFINE before == (k - 1) * TextSize
           room == IF 0 <= limit - before THEN limit - before ELSE 0
<1>1. TextSize \in Nat /\ k - 1 \in Nat
  BY SizeAssumption
<1>2. before \in Nat /\ k * TextSize = before + TextSize /\ 0 * TextSize = 0
  BY <1>1
<1> HIDE DEF before
<1>3. room \in Nat
  BY <1>2
<1>4. Max({0, limit - before}) = room
  <2>1. limit - before \in Int
    BY <1>2
  <2>2. Max({0, limit - before}) = IF 0 <= limit - before THEN limit - before ELSE 0
    <3>1. \A x \in Int : Max({0, x}) = IF 0 <= x THEN x ELSE 0
      BY MinOfTwo
    <3> QED BY <2>1, <3>1
  <2> QED BY <2>2 DEF room
<1> HIDE DEF room
<1>5. Bounded(TextSize, limit - before) = IF TextSize <= room THEN TextSize ELSE room
  BY <1>1, <1>3, <1>4, MinOfTwo DEF Bounded
<1>6. /\ Reasons(k, limit) = IF before + TextSize <= limit THEN before + TextSize ELSE limit
      /\ Reasons(k - 1, limit) = IF before <= limit THEN before ELSE limit
      /\ Reasons(0, limit) = IF 0 <= limit THEN 0 ELSE limit
  BY <1>2 DEF Reasons, before
<1>7. /\ Reasons(k, limit) \in 0..limit /\ Reasons(0, limit) = 0
      /\ Reasons(k, limit) = Reasons(k - 1, limit) + Bounded(TextSize, limit - before)
  BY <1>1, <1>2, <1>5, <1>6 DEF room
<1> QED BY <1>7 DEF before

(* So the results of what is not run stay within the limit they are given.  *)
LEMMA ConcludedWithin ==
  ASSUME NEW done \in Seq(Result), NEW limit \in Nat, Len(done) <= Len(Plan),
         NEW f, Outputs(f, done)
  PROVE  \E g : LET all == done \o NotRun(Len(done) + 1, limit)
                IN  Outputs(g, all) /\ g[Len(all)] <= f[Len(done)] + limit
<1> DEFINE d == Len(done)
           m == Len(Plan)
           rest == NotRun(d + 1, limit)
           all == done \o rest
           g == [i \in 0..m |-> IF i <= d THEN f[i] ELSE f[d] + Reasons(i - d, limit)]
<1>1. d \in Nat /\ m \in Nat /\ d <= m /\ f[d] \in Nat
  BY PlanShape DEF Outputs
<1>2. d + 1 \in 1..(m + 1) /\ m - (d + 1) + 1 = m - d
  BY <1>1
<1>3. rest \in Seq(Result) /\ Len(rest) = m - d
  <2>1. ASSUME NEW position \in 1..(m + 1)
        PROVE  /\ NotRun(position, limit) \in Seq(Result)
               /\ Len(NotRun(position, limit)) = m - position + 1
    <3>1. limit \in Int
      OBVIOUS
    <3> QED BY <3>1, NotRunResults
  <2> QED BY <1>2, <2>1
<1>4. \A k \in 1..(m - d) : rest[k].size = Bounded(TextSize, limit - (k - 1) * TextSize)
  BY <1>2 DEF NotRun
<1> HIDE DEF rest
<1>5. /\ Len(all) = m
      /\ \A i \in 1..m : all[i] = IF i <= d THEN done[i] ELSE rest[i - d]
  <2>1. /\ Len(all) = d + Len(rest)
        /\ \A i \in 1..(d + Len(rest)) : all[i] = IF i <= d THEN done[i] ELSE rest[i - d]
    <3>1. \A t \in Seq(Result) :
             /\ Len(done \o t) = d + Len(t)
             /\ \A i \in 1..(d + Len(t)) :
                   (done \o t)[i] = IF i <= d THEN done[i] ELSE t[i - d]
      BY Joined
    <3> QED BY <1>3, <3>1
  <2> QED BY <1>1, <1>3, <2>1
<1> HIDE DEF all
<1>6. ASSUME NEW k \in 1..(m - d) PROVE Reasons(k, limit) \in 0..limit
  <2>1. k \in Nat \ {0}
    BY <1>1
  <2> QED BY <2>1, ReasonsAdd
<1>7. ASSUME NEW i \in 0..m PROVE g[i] \in Nat
  <2>1. CASE i <= d
    BY <1>1, <2>1 DEF Outputs
  <2>2. CASE i > d
    <3>1. i - d \in 1..(m - d) /\ g[i] = f[d] + Reasons(i - d, limit)
      BY <1>1, <2>2
    <3> QED BY <1>1, <1>6, <3>1
  <2> QED BY <1>1, <2>1, <2>2
<1>8. ASSUME NEW i \in 1..m PROVE g[i] = g[i - 1] + all[i].size
  <2>1. CASE i <= d
    BY <1>1, <1>5, <2>1 DEF Outputs
  <2>2. CASE i > d
    <3> DEFINE k == i - d
    <3>1. k \in 1..(m - d) /\ k \in Nat \ {0} /\ (i - 1) - d = k - 1
      BY <1>1, <2>2
    <3>2. all[i].size = Bounded(TextSize, limit - (k - 1) * TextSize)
      BY <1>4, <1>5, <2>2, <3>1
    <3>3. /\ Reasons(k, limit)
                = Reasons(k - 1, limit) + Bounded(TextSize, limit - (k - 1) * TextSize)
          /\ Reasons(0, limit) = 0
      BY <3>1, ReasonsAdd
    <3>4. g[i] = f[d] + Reasons(k, limit)
      BY <2>2
    <3>5. g[i - 1] = f[d] + Reasons(k - 1, limit)
      <4>1. CASE i - 1 > d
        BY <1>1, <3>1, <4>1
      <4>2. CASE i - 1 = d
        <5>1. k - 1 = 0
          BY <1>1, <3>1, <4>2
        <5>2. g[i - 1] = f[d]
          BY <1>1, <4>2
        <5> QED BY <1>1, <3>3, <5>1, <5>2
      <4> QED BY <1>1, <2>2, <4>1, <4>2
    <3>6. Reasons(k - 1, limit) \in Int /\ Bounded(TextSize, limit - (k - 1) * TextSize) \in Int
      <4>1. k - 1 \in Nat /\ (k - 1) * TextSize \in Nat /\ TextSize \in Nat
        <5>1. k - 1 \in Nat /\ TextSize \in Nat
          BY <3>1, SizeAssumption
        <5> QED BY <5>1
      <4>2. Bounded(TextSize, limit - (k - 1) * TextSize) \in Nat
        <5>1. limit - (k - 1) * TextSize \in Int
          BY <4>1
        <5>2. \A x \in Int : Bounded(TextSize, x) \in Nat
          BY <4>1, BoundedWithin
        <5> QED BY <5>1, <5>2
      <4>3. Reasons(k - 1, limit) \in Nat
        BY <4>1 DEF Reasons
      <4> QED BY <4>2, <4>3
    <3> HIDE DEF g
    <3> QED BY <1>1, <3>2, <3>3, <3>4, <3>5, <3>6
  <2> QED BY <1>1, <2>1, <2>2
<1>9. g[m] <= f[d] + limit
  <2>1. CASE m = d
    BY <1>1, <2>1
  <2>2. CASE m > d
    <3>1. m - d \in 1..(m - d) /\ g[m] = f[d] + Reasons(m - d, limit)
      BY <1>1, <2>2
    <3>2. Reasons(m - d, limit) \in 0..limit
      BY <1>6, <3>1
    <3> QED BY <1>1, <3>1, <3>2
  <2> QED BY <1>1, <2>1, <2>2
<1>10. g[0] = 0 /\ g \in [0..m -> Nat]
  <2>1. g[0] = 0
    BY <1>1 DEF Outputs
  <2>2. DOMAIN g = 0..m /\ g = [i \in 0..m |-> g[i]]
    OBVIOUS
  <2> HIDE DEF g
  <2> QED BY <1>7, <2>1, <2>2
<1> HIDE DEF g
<1>11. Outputs(g, all) /\ g[Len(all)] <= f[d] + limit
  BY <1>5, <1>8, <1>9, <1>10 DEF Outputs
<1> QED BY <1>11 DEF all, rest

(* As long as the invocation goes on, what its results hold and what is     *)
(* left of the budget make up the invocation's output; in the end, its      *)
(* results hold no more.                                                    *)
OutputOK ==
    \E f : /\ Outputs(f, results)
           /\ f[Len(results)] <= TotalOutput
           /\ phase # "finished" => f[Len(results)] = TotalOutput - budget

LEMMA OutputUnmoved ==
  ASSUME IInv, OutputOK, UNCHANGED <<budget, results>>, phase # "finished"
  PROVE  OutputOK'
  BY DEF OutputOK

LEMMA RecordWithin ==
  ASSUME IInv, OutputOK, phase # "finished", Len(results) < Len(Plan),
         NEW exit \in ExitCodes, NEW size \in 0..budget, Record(exit, size)
  PROVE  OutputOK'
<1> DEFINE result == [command |-> Plan[Len(results) + 1], exit |-> exit, size |-> size]
           done == Append(results, result)
           n == Len(results)
<1>1. n \in Nat /\ n + 1 \in 1..Len(Plan) /\ results \in Seq(Result)
  BY PlanShape DEF IInv, ResultsOK
<1>2. /\ TotalOutput \in Nat /\ budget \in Nat /\ size \in Nat /\ budget - size \in Nat
      /\ budget <= TotalOutput
  <2>1. TotalOutput \in Nat
    BY SizeAssumption
  <2> QED BY <2>1 DEF IInv, TypeOK
<1>3. result \in Result /\ result.size = size
  BY <1>1, <1>2, PlanShape DEF Result
<1>4. PICK f : Outputs(f, results) /\ f[n] = TotalOutput - budget
  BY DEF OutputOK
<1>5. /\ budget' = budget - size /\ phase' = PhaseAfter(exit)
      /\ exit = "ok" => results' = done
      /\ exit # "ok" => results' = done \o NotRun(Len(done) + 1, budget - size)
  BY DEF Record
<1> HIDE DEF result
<1>6. done \in Seq(Result) /\ Len(done) = n + 1
  BY <1>1, <1>3
<1>7. PICK g : Outputs(g, done) /\ g[n + 1] = f[n] + size
  BY <1>1, <1>3, <1>4, OneMore
<1> HIDE DEF done
<1>8. g[Len(done)] = TotalOutput - (budget - size)
  BY <1>2, <1>4, <1>6, <1>7
<1>9. CASE exit = "ok"
  BY <1>2, <1>5, <1>7, <1>8, <1>9 DEF OutputOK
<1>10. CASE exit # "ok"
  <2>1. Len(done) <= Len(Plan)
    BY <1>1, <1>6
  <2>2. PICK h : LET all == done \o NotRun(Len(done) + 1, budget - size)
                 IN  Outputs(h, all) /\ h[Len(all)] <= g[Len(done)] + (budget - size)
    BY <1>2, <1>6, <1>7, <2>1, ConcludedWithin
  <2>3. /\ Outputs(h, results')
        /\ h[Len(results')] <= TotalOutput - (budget - size) + (budget - size)
    BY <1>5, <1>8, <1>10, <2>2
  <2>4. h[Len(results')] \in Nat
    BY <2>3 DEF Outputs
  <2>5. h[Len(results')] <= TotalOutput
    BY <1>2, <2>3, <2>4
  <2>6. phase' = "finished"
    BY <1>5, <1>10 DEF PhaseAfter
  <2> QED BY <2>3, <2>5, <2>6 DEF OutputOK
<1> QED BY <1>9, <1>10

LEMMA StopWithin == ASSUME IInv, OutputOK, StopEarly PROVE OutputOK'
<1>1. results \in Seq(Result) /\ Len(results) <= Len(Plan)
  BY DEF IInv, ResultsOK
<1>2. budget \in Nat /\ TotalOutput \in Nat /\ phase # "finished"
  <2>1. TotalOutput \in Nat
    BY SizeAssumption
  <2> QED BY <2>1 DEF IInv, TypeOK, StopEarly
<1>3. PICK f : Outputs(f, results) /\ f[Len(results)] = TotalOutput - budget
  BY <1>2 DEF OutputOK
<1>4. PICK g : LET all == results \o NotRun(Len(results) + 1, budget)
               IN  Outputs(g, all) /\ g[Len(all)] <= f[Len(results)] + budget
  BY <1>1, <1>2, <1>3, ConcludedWithin
<1>5. results' = results \o NotRun(Len(results) + 1, budget) /\ phase' = "finished"
  BY DEF StopEarly, End
<1>6. Outputs(g, results') /\ g[Len(results')] <= TotalOutput
  BY <1>2, <1>3, <1>4, <1>5
<1> QED BY <1>5, <1>6 DEF OutputOK

LEMMA InitWithin == Init => OutputOK
<1> SUFFICES ASSUME Init PROVE OutputOK
  OBVIOUS
<1> DEFINE f == [i \in 0..0 |-> 0]
<1>1. results = <<>> /\ Len(results) = 0 /\ budget = TotalOutput /\ TotalOutput \in Nat
  BY SizeAssumption DEF Init
<1>2. Outputs(f, results) /\ f[Len(results)] = 0
  BY <1>1 DEF Outputs
<1>3. 0 <= TotalOutput /\ 0 = TotalOutput - budget
  BY <1>1
<1> HIDE DEF f
<1> QED BY <1>2, <1>3 DEF OutputOK

LEMMA StepWithin == IInv /\ OutputOK /\ [Next]_vars => OutputOK'
<1> SUFFICES ASSUME IInv, OutputOK, [Next]_vars PROVE OutputOK'
  OBVIOUS
<1>1. CASE RefuseCommand
  <2>1. budget \in 0..TotalOutput
    BY DEF IInv, TypeOK
  <2>2. Limit \in Nat /\ Limit <= budget /\ TextSize \in Nat
    BY <2>1, LimitWithin, SizeAssumption
  <2>3. Bounded(TextSize, Limit) \in Nat /\ Bounded(TextSize, Limit) <= Limit
    BY <2>2, BoundedWithin
  <2>4. Bounded(TextSize, Limit) \in 0..budget
    BY <2>1, <2>2, <2>3, SizeAssumption
  <2> QED BY <1>1, <2>4, RecordWithin DEF RefuseCommand, ExitCodes
<1>2. CASE Collect
  <2>1. /\ budget \in 0..TotalOutput /\ child \in Child /\ Len(results) < Len(Plan)
        /\ phase # "finished"
    BY <1>2 DEF IInv, TypeOK, ResultsOK, Collect
  <2>2. PICK growth \in {1, 3} : Record(ExitCode, DecodedSize(growth))
    BY <1>2 DEF Collect
  <2>3. DecodedSize(growth) \in 0..budget /\ ExitCode \in ExitCodes
    BY <2>1, DecodedWithin DEF ExitCode, ExitCodes, Child
  <2> QED BY <2>1, <2>2, <2>3, RecordWithin
<1>3. CASE StopEarly
  BY <1>3, StopWithin
<1>4. CASE UNCHANGED <<budget, results>> /\ phase # "finished"
  BY <1>4, OutputUnmoved
<1>5. CASE UNCHANGED vars
  BY <1>5 DEF vars, OutputOK
<1>6. \/ RefuseCommand \/ Collect \/ StopEarly \/ UNCHANGED vars
      \/ UNCHANGED <<budget, results>> /\ phase # "finished"
  BY DEF Next, Harness, Process, ProbePart, CopyBlob, MakeContext, GitFails, StartCommand,
     Drained, TimeOut, FinishPlan, Write, CloseStream, Exit, MoveTarget, Tick, outcome, vars
<1> QED BY <1>1, <1>2, <1>3, <1>4, <1>5, <1>6

(* Whatever the commands write, however it decodes, and however many are    *)
(* not run with a reason of the harness's own, all results together keep    *)
(* within the output of the invocation.                                     *)
THEOREM OutputIsBounded == Spec => []OutputBounded
<1>1. ASSUME IInv, OutputOK PROVE OutputBounded
  <2>1. PICK f : Outputs(f, results) /\ f[Len(results)] <= TotalOutput
    BY <1>1 DEF OutputOK
  <2>2. results \in Seq(Result)
    BY <1>1 DEF IInv, ResultsOK
  <2>3. SumSeq([i \in DOMAIN results |-> results[i].size]) = f[Len(results)]
    BY <2>1, <2>2, OutputsSum
  <2> QED BY <2>1, <2>3 DEF OutputBounded
<1>2. IInv /\ OutputOK => OutputBounded
  BY <1>1
<1> QED BY <1>2, InitWithin, StepWithin, Invariance, PTL DEF Spec

=============================================================================
