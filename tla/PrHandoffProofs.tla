--------------------------- MODULE PrHandoffProofs ---------------------------
(***************************************************************************)
(* Proofs about PrHandoff, for any number of callers, runs, commits and    *)
(* pull requests. That the recorded pull request is the run's own needs    *)
(* nothing else; the attempt allowance is proved for operations that do    *)
(* not overlap, which is when the code keeps it.                           *)
(***************************************************************************)
EXTENDS PrHandoff, TLAPS

(* A handoff names no pull request, or one opened for its run.              *)
Ours(pull, run) == pull # NoPull => pull <= Len(pulls) /\ pulls[pull] = run

(* The step an operation is at was admitted.                                *)
Admitted(k) ==
    /\ k.previous # NoState => Valid(k.previous)
    /\ k.step = "linking" => k.pull # NoPull
    /\ k.step \in {"reserving", "creating"} => k.pull = NoPull
    /\ k.step \in {"reserving", "creating", "recording"} =>
         NextAttempt(k.previous, k.request) # 0
    /\ k.step = "recording" => k.outcome = (IF k.pull # NoPull THEN "PR_CREATED"
                                            ELSE "PR_CREATION_FAILED")
    /\ k.step = "authorizing" => Retryable(k.previous, k.request)

(* The pull requests an operation has read of or found are its run's.       *)
Linked(k) ==
    /\ k.previous # NoState => Ours(k.previous.pull, k.previous.run)
    /\ Ours(k.pull, k.request.run)

Established(k) == Admitted(k) /\ Linked(k)

TypeInv ==
    /\ TypeOK
    /\ RecordedPullIsOurs
    /\ \A c \in Callers : call[c] # Idle => Established(call[c])

(* What the operation under way, being alone, knows of the record: it is    *)
(* what it read, or what it reserved.                                       *)
Current(k) ==
    /\ k.step \in {"linking", "reserving", "authorizing"} => state = k.previous
    /\ k.step = "linking" /\ k.previous # NoState => SameContext(k.previous, k.request)
    /\ k.step \in {"creating", "recording"} =>
         state = StateForPr(k.request, NextAttempt(k.previous, k.request),
                            "PR_ATTEMPT_RESERVED", NoPull, k.previous)
    /\ k.step = "creating" =>
         attempts[k.request.run] < NextAttempt(k.previous, k.request)

Alone == \A c, d \in Callers : call[c] # Idle /\ call[d] # Idle => c = d

(* A second attempt and a recorded authorization were a human's doing.      *)
SecondGranted ==
    state # NoState => /\ state.attempt = 2 => state.authorized
                       /\ state.authorized => state.run \in granted

AllowanceInv ==
    /\ TypeInv
    /\ Alone
    /\ CallsReserved
    /\ SecondGranted
    /\ \A c \in Callers : call[c] # Idle => Current(call[c])

-----------------------------------------------------------------------------
(* A recorded handoff is not the missing one.                               *)
LEMMA Recorded == \A s \in State : s # NoState
  BY DEF State, NoState, CreationOutcomes

(* An operation under way is not an idle caller.                            *)
LEMMA UnderWay == \A k \in Call : k # Idle
  BY DEF Call, Idle, Steps

(* The allowance knows three answers.                                       *)
LEMMA NextAttemptTyped ==
  ASSUME NEW previous, NEW request
  PROVE  NextAttempt(previous, request) \in 0 .. 2
  BY DEF NextAttempt

(* What _state_for_pr builds is a recorded handoff of the request's run.     *)
LEMMA Built ==
  ASSUME NEW request \in Request, NEW attempt \in 0 .. 2,
         NEW outcome \in CreationOutcomes \cup {"EXISTING_PR"},
         NEW pull \in 0 .. MaxPulls, NEW previous \in State \cup {NoState},
         NEW s, s = StateForPr(request, attempt, outcome, pull, previous)
  PROVE  /\ s \in State /\ s # NoState
         /\ s.run = request.run /\ s.attempt = attempt
         /\ s.outcome = outcome /\ s.pull = pull
         /\ s.authorized = Carried(previous)
<1>1. Carried(previous) \in BOOLEAN
  BY DEF Carried, State
<1>2. /\ s.run = request.run /\ s.attempt = attempt
      /\ s.outcome = outcome /\ s.pull = pull
      /\ s.authorized = Carried(previous)
  BY DEF StateForPr
<1>3. s \in State
  BY <1>1 DEF StateForPr, State, Request
<1> QED BY <1>2, <1>3, Recorded

(* A caller that moves on leaves the others where they are.                 *)
LEMMA Moved ==
  ASSUME call \in [Callers -> Call \cup {Idle}], NEW c \in Callers,
         NEW next \in Call \cup {Idle}, Proceed(c, next)
  PROVE  /\ call' \in [Callers -> Call \cup {Idle}]
         /\ call'[c] = next
         /\ \A d \in Callers \ {c} : call'[d] = call[d]
  BY DEF Proceed

(* An operation that ends leaves the others where they are.                 *)
LEMMA Returned ==
  ASSUME call \in [Callers -> Call \cup {Idle}], NEW c \in Callers, Return(c)
  PROVE  /\ call' \in [Callers -> Call \cup {Idle}]
         /\ call'[c] = Idle
         /\ \A d \in Callers \ {c} : call'[d] = call[d]
  BY DEF Return

(* Pull requests are only ever added, so what was opened for a run stays so. *)
LEMMA OursStand ==
  ASSUME pulls \in Seq(Runs),
         \/ pulls' = pulls
         \/ \E r \in Runs : pulls' = Append(pulls, r)
  PROVE  \A pull \in Nat :
            pull # NoPull /\ pull <= Len(pulls) =>
                pull <= Len(pulls') /\ pulls'[pull] = pulls[pull]
  BY DEF NoPull

(* The callers that take no part in a step keep what they established.      *)
LEMMA OthersStand ==
  ASSUME TypeInv,
         \/ pulls' = pulls
         \/ \E r \in Runs : pulls' = Append(pulls, r)
  PROVE  \A d \in Callers :
            call'[d] = call[d] /\ call'[d] # Idle => Established(call[d])'
<1>1. ASSUME NEW d \in Callers, call'[d] = call[d], call'[d] # Idle
      PROVE  Established(call[d])'
  <2>1. call[d] \in Call /\ Established(call[d]) /\ call'[d] = call[d]
    BY <1>1 DEF TypeInv, TypeOK
  <2>2. call[d].pull \in Nat
    BY <2>1, PullsAssumption DEF Call
  <2>3. call[d].previous # NoState => call[d].previous.pull \in Nat
    BY <2>1, PullsAssumption DEF Call, State
  <2>4. \A pull \in Nat :
            pull # NoPull /\ pull <= Len(pulls) =>
                pull <= Len(pulls') /\ pulls'[pull] = pulls[pull]
    BY OursStand DEF TypeInv, TypeOK
  <2>5. Admitted(call[d])'
    BY <2>1 DEF Established, Admitted
  <2>6. Ours(call[d].pull, call[d].request.run)'
    BY <2>1, <2>2, <2>4 DEF Established, Linked, Ours
  <2>7. (call[d].previous # NoState => Ours(call[d].previous.pull, call[d].previous.run))'
    BY <2>1, <2>3, <2>4 DEF Established, Linked, Ours
  <2> QED BY <2>5, <2>6, <2>7 DEF Established, Linked
<1> QED BY <1>1

-----------------------------------------------------------------------------
(* Before the first operation nothing is recorded.                          *)
LEMMA InitTyped == Init => TypeInv
<1> SUFFICES ASSUME Init PROVE TypeInv
  OBVIOUS
<1>1. TypeOK
  BY PullsAssumption DEF Init, TypeOK, NoPull
<1> QED BY <1>1 DEF Init, TypeInv, RecordedPullIsOurs

(* Every step keeps the record well-formed and its pull request the run's    *)
(* own, whatever overlaps.                                                  *)
LEMMA StepTyped == TypeInv /\ [Next]_vars => TypeInv'
<1> SUFFICES ASSUME TypeInv, [Next]_vars PROVE TypeInv'
  OBVIOUS
<1> USE PullsAssumption
<1>0. /\ TypeOK /\ RecordedPullIsOurs /\ NoState \notin State /\ NoPull = 0
      /\ NoPull \in 0 .. MaxPulls /\ open \in 0 .. MaxPulls
  BY Recorded DEF TypeInv, TypeOK, NoPull
<1>1. ASSUME NEW c \in Callers, NEW run \in Runs, Submit(c, run) PROVE TypeInv'
  <2> DEFINE next == [step |-> "finding", request |-> [run |-> run, target |-> head],
                      previous |-> NoState, pull |-> NoPull, outcome |-> "EXISTING_PR"]
  <2>1. next \in Call
    BY <1>0 DEF TypeOK, Call, Request, Steps
  <2>2. /\ call' \in [Callers -> Call \cup {Idle}] /\ call'[c] = next
        /\ \A d \in Callers \ {c} : call'[d] = call[d]
    BY <1>0, <1>1, <2>1, Moved DEF Submit, TypeOK
  <2>3. TypeOK'
    BY <1>0, <1>1, <2>2 DEF Submit, provider, TypeOK
  <2>4. RecordedPullIsOurs'
    BY <1>0, <1>1 DEF Submit, provider, RecordedPullIsOurs
  <2>5. Established(call[c])'
    BY <2>2 DEF Established, Admitted, Linked, Ours
  <2>6. \A d \in Callers : call'[d] # Idle => Established(call[d])'
    BY <1>1, <2>2, <2>5, OthersStand DEF Submit, provider
  <2> QED BY <2>3, <2>4, <2>6 DEF TypeInv
<1>2. ASSUME NEW c \in Callers, NEW run \in Runs, ReadForRetry(c, run) PROVE TypeInv'
  <2> DEFINE request == [run |-> run, target |-> head]
             next == [step |-> "authorizing", request |-> request, previous |-> state,
                      pull |-> NoPull, outcome |-> "EXISTING_PR"]
  <2>1. next \in Call
    BY <1>0 DEF TypeOK, Call, Request, Steps
  <2>2. /\ call' \in [Callers -> Call \cup {Idle}] /\ call'[c] = next
        /\ \A d \in Callers \ {c} : call'[d] = call[d]
    BY <1>0, <1>2, <2>1, Moved DEF ReadForRetry, TypeOK
  <2>3. TypeOK'
    BY <1>0, <1>2, <2>2 DEF ReadForRetry, provider, TypeOK
  <2>4. RecordedPullIsOurs'
    BY <1>0, <1>2 DEF ReadForRetry, provider, RecordedPullIsOurs
  <2>5. Established(call[c])'
    BY <1>0, <1>2, <2>2
       DEF ReadForRetry, provider, TypeOK, RecordedPullIsOurs, Established, Admitted,
           Linked, Ours
  <2>6. \A d \in Callers : call'[d] # Idle => Established(call[d])'
    BY <1>2, <2>2, <2>5, OthersStand DEF ReadForRetry, provider
  <2> QED BY <2>3, <2>4, <2>6 DEF TypeInv
<1>3. ASSUME NEW c \in Callers, FindExisting(c) PROVE TypeInv'
  <2> DEFINE k == call[c]
  <2>0. k \in Call /\ Established(k) /\ k.step = "finding"
    BY <1>0, <1>3 DEF FindExisting, TypeInv, TypeOK, At
  <2> DEFINE next == [k EXCEPT !.step = "reading", !.pull = open]
  <2>1. next \in Call
    BY <1>0, <2>0 DEF TypeOK, Call, Steps
  <2>2. /\ call' \in [Callers -> Call \cup {Idle}]
        /\ \A d \in Callers \ {c} : call'[d] = call[d]
        /\ call'[c] = (IF open # NoPull /\ ~MatchingIdentity(open, k.request)
                       THEN Idle ELSE next)
    BY <1>0, <1>3, <2>1, Moved, Returned DEF FindExisting, TypeOK
  <2>3. TypeOK'
    BY <1>0, <1>3, <2>2 DEF FindExisting, provider, TypeOK
  <2>4. RecordedPullIsOurs'
    BY <1>0, <1>3 DEF FindExisting, provider, RecordedPullIsOurs
  <2>5. call'[c] # Idle => Established(call[c])'
    BY <1>0, <1>3, <2>0, <2>2
       DEF FindExisting, provider, TypeOK, Established, Admitted, Linked,
           Ours, MatchingIdentity, Call
  <2>6. \A d \in Callers : call'[d] # Idle => Established(call[d])'
    BY <1>3, <2>2, <2>5, OthersStand DEF FindExisting, provider
  <2> QED BY <2>3, <2>4, <2>6 DEF TypeInv
<1>4. ASSUME NEW c \in Callers, ReadPrevious(c) PROVE TypeInv'
  <2> DEFINE k == call[c]
  <2>0. k \in Call /\ Established(k) /\ k.step = "reading"
    BY <1>0, <1>4 DEF ReadPrevious, TypeInv, TypeOK, At
  <2> DEFINE next == [k EXCEPT !.step = IF k.pull # NoPull THEN "linking" ELSE "reserving",
                               !.previous = state]
  <2>1. next \in Call
    BY <1>0, <2>0 DEF TypeOK, Call, Steps
  <2>2. /\ call' \in [Callers -> Call \cup {Idle}]
        /\ \A d \in Callers \ {c} : call'[d] = call[d]
        /\ \/ call'[c] = Idle
           \/ /\ call'[c] = next
              /\ k.pull = NoPull => NextAttempt(state, k.request) # 0
    BY <1>0, <1>4, <2>1, Moved, Returned DEF ReadPrevious, TypeOK
  <2>3. TypeOK'
    BY <1>0, <1>4, <2>2 DEF ReadPrevious, provider, TypeOK
  <2>4. RecordedPullIsOurs'
    BY <1>0, <1>4 DEF ReadPrevious, provider, RecordedPullIsOurs
  <2>5. call'[c] # Idle => Established(call[c])'
    BY <1>0, <1>4, <2>0, <2>2
       DEF ReadPrevious, provider, TypeOK, RecordedPullIsOurs, Established,
           Admitted, Linked, Ours, Call
  <2>6. \A d \in Callers : call'[d] # Idle => Established(call[d])'
    BY <1>4, <2>2, <2>5, OthersStand DEF ReadPrevious, provider
  <2> QED BY <2>3, <2>4, <2>6 DEF TypeInv
<1>5. ASSUME NEW c \in Callers, Crash(c) PROVE TypeInv'
  <2>2. /\ call' \in [Callers -> Call \cup {Idle}] /\ call'[c] = Idle
        /\ \A d \in Callers \ {c} : call'[d] = call[d]
    BY <1>0, <1>5, Returned DEF Crash, TypeOK
  <2>3. TypeOK'
    BY <1>0, <1>5, <2>2 DEF Crash, provider, TypeOK
  <2>4. RecordedPullIsOurs'
    BY <1>0, <1>5 DEF Crash, provider, RecordedPullIsOurs
  <2>6. \A d \in Callers : call'[d] # Idle => Established(call[d])'
    BY <1>5, <2>2, OthersStand DEF Crash, provider
  <2> QED BY <2>3, <2>4, <2>6 DEF TypeInv
<1>6. ASSUME NEW c \in Callers, RecordExisting(c) PROVE TypeInv'
  <2> DEFINE k == call[c]
  <2>0. k \in Call /\ Established(k) /\ k.step = "linking"
    BY <1>0, <1>6 DEF RecordExisting, TypeInv, TypeOK, At
  <2>1. /\ state' \in State /\ state' # NoState /\ Valid(state')
        /\ state'.pull = k.pull /\ state'.run = k.request.run
    <3> DEFINE attempt == PriorAttempts(k.previous)
    <3>1. attempt \in 0 .. 2
      BY <2>0 DEF PriorAttempts, Call, State
    <3>2. k.request \in Request /\ k.previous \in State \cup {NoState}
          /\ k.pull \in 0 .. MaxPulls
      BY <2>0 DEF Call
    <3>3. /\ state' = StateForPr(k.request, attempt, "EXISTING_PR", k.pull, k.previous)
          /\ "EXISTING_PR" \in CreationOutcomes \cup {"EXISTING_PR"}
      BY <1>6, <2>0 DEF RecordExisting, Established, Admitted, Call
    <3>4. /\ state' \in State /\ state' # NoState
          /\ state'.run = k.request.run /\ state'.attempt = attempt
          /\ state'.outcome = "EXISTING_PR" /\ state'.pull = k.pull
          /\ state'.authorized = Carried(k.previous)
      <4> DEFINE outcome == "EXISTING_PR"
      <4>1. /\ outcome \in CreationOutcomes \cup {"EXISTING_PR"}
            /\ state' = StateForPr(k.request, attempt, outcome, k.pull, k.previous)
        BY <3>3
      <4> HIDE DEF k, attempt, outcome
      <4>2. /\ state' \in State /\ state' # NoState
            /\ state'.run = k.request.run /\ state'.attempt = attempt
            /\ state'.outcome = outcome /\ state'.pull = k.pull
            /\ state'.authorized = Carried(k.previous)
        BY <3>1, <3>2, <4>1, Built
      <4> QED BY <4>2 DEF outcome
    <3> QED BY <2>0, <3>1, <3>4
            DEF Valid, Established, Admitted, Carried, CreationOutcomes, PriorAttempts
  <2>2. /\ call' \in [Callers -> Call \cup {Idle}] /\ call'[c] = Idle
        /\ \A d \in Callers \ {c} : call'[d] = call[d]
    BY <1>0, <1>6, Returned DEF RecordExisting, TypeOK
  <2>3. TypeOK'
    BY <1>0, <1>6, <2>1, <2>2 DEF RecordExisting, provider, TypeOK
  <2>4. RecordedPullIsOurs'
    BY <1>6, <2>0, <2>1
       DEF RecordExisting, provider, RecordedPullIsOurs, Established, Linked, Ours
  <2>5. call'[c] # Idle => Established(call[c])'
    BY <2>2
  <2>6. \A d \in Callers : call'[d] # Idle => Established(call[d])'
    BY <1>6, <2>2, <2>5, OthersStand DEF RecordExisting, provider
  <2> QED BY <2>3, <2>4, <2>6 DEF TypeInv
<1>7. ASSUME NEW c \in Callers, Reserve(c) PROVE TypeInv'
  <2> DEFINE k == call[c]
  <2>0. k \in Call /\ Established(k) /\ k.step = "reserving"
    BY <1>0, <1>7 DEF Reserve, TypeInv, TypeOK, At
  <2>1. /\ state' \in State /\ state' # NoState /\ Valid(state')
        /\ state'.pull = NoPull /\ state'.run = k.request.run
    <3> DEFINE attempt == NextAttempt(k.previous, k.request)
    <3>1. attempt \in 0 .. 2
      BY NextAttemptTyped
    <3>2. k.request \in Request /\ k.previous \in State \cup {NoState}
          /\ k.pull \in 0 .. MaxPulls
      BY <2>0 DEF Call
    <3>3. /\ state' = StateForPr(k.request, attempt, "PR_ATTEMPT_RESERVED", NoPull, k.previous)
          /\ "PR_ATTEMPT_RESERVED" \in CreationOutcomes \cup {"EXISTING_PR"}
      BY <1>7, <2>0 DEF Reserve, Established, Admitted, Call, CreationOutcomes
    <3>4. /\ state' \in State /\ state' # NoState
          /\ state'.run = k.request.run /\ state'.attempt = attempt
          /\ state'.outcome = "PR_ATTEMPT_RESERVED" /\ state'.pull = NoPull
          /\ state'.authorized = Carried(k.previous)
      BY <1>0, <3>1, <3>2, <3>3, Built
    <3> QED BY <2>0, <3>1, <3>4
            DEF Valid, Established, Admitted, Carried, CreationOutcomes, NoPull
  <2> DEFINE next == [k EXCEPT !.step = "creating"]
  <2>7. next \in Call
    BY <2>0 DEF Call, Steps
  <2>2. /\ call' \in [Callers -> Call \cup {Idle}] /\ call'[c] = next
        /\ \A d \in Callers \ {c} : call'[d] = call[d]
    BY <1>0, <1>7, <2>7, Moved DEF Reserve, TypeOK
  <2>3. TypeOK'
    BY <1>0, <1>7, <2>1, <2>2 DEF Reserve, provider, TypeOK
  <2>4. RecordedPullIsOurs'
    BY <2>1 DEF RecordedPullIsOurs
  <2>5. call'[c] # Idle => Established(call[c])'
    BY <1>7, <2>0, <2>2 DEF Reserve, provider, Call, Established, Admitted, Linked, Ours
  <2>6. \A d \in Callers : call'[d] # Idle => Established(call[d])'
    BY <1>7, <2>2, <2>5, OthersStand DEF Reserve, provider
  <2> QED BY <2>3, <2>4, <2>6 DEF TypeInv
<1>8. ASSUME NEW c \in Callers, RecordAttempt(c) PROVE TypeInv'
  <2> DEFINE k == call[c]
  <2>0. k \in Call /\ Established(k) /\ k.step = "recording"
    BY <1>0, <1>8 DEF RecordAttempt, TypeInv, TypeOK, At
  <2>1. /\ state' \in State /\ state' # NoState /\ Valid(state')
        /\ state'.pull = k.pull /\ state'.run = k.request.run
    <3> DEFINE attempt == NextAttempt(k.previous, k.request)
    <3>1. attempt \in 0 .. 2
      BY NextAttemptTyped
    <3>2. k.request \in Request /\ k.previous \in State \cup {NoState}
          /\ k.pull \in 0 .. MaxPulls
      BY <2>0 DEF Call
    <3>3. /\ state' = StateForPr(k.request, attempt, k.outcome, k.pull, k.previous)
          /\ k.outcome \in CreationOutcomes \cup {"EXISTING_PR"}
      BY <1>8, <2>0 DEF RecordAttempt, Established, Admitted, Call
    <3>4. /\ state' \in State /\ state' # NoState
          /\ state'.run = k.request.run /\ state'.attempt = attempt
          /\ state'.outcome = k.outcome /\ state'.pull = k.pull
          /\ state'.authorized = Carried(k.previous)
      BY <1>0, <3>1, <3>2, <3>3, Built
    <3> QED BY <2>0, <3>1, <3>4
            DEF Valid, Established, Admitted, Carried, CreationOutcomes, NoPull
  <2>2. /\ call' \in [Callers -> Call \cup {Idle}] /\ call'[c] = Idle
        /\ \A d \in Callers \ {c} : call'[d] = call[d]
    BY <1>0, <1>8, Returned DEF RecordAttempt, TypeOK
  <2>3. TypeOK'
    BY <1>0, <1>8, <2>1, <2>2 DEF RecordAttempt, provider, TypeOK
  <2>4. RecordedPullIsOurs'
    BY <1>8, <2>0, <2>1
       DEF RecordAttempt, provider, RecordedPullIsOurs, Established, Linked, Ours
  <2>5. call'[c] # Idle => Established(call[c])'
    BY <2>2
  <2>6. \A d \in Callers : call'[d] # Idle => Established(call[d])'
    BY <1>8, <2>2, <2>5, OthersStand DEF RecordAttempt, provider
  <2> QED BY <2>3, <2>4, <2>6 DEF TypeInv
<1>9. ASSUME NEW c \in Callers, StoreAuthorization(c) PROVE TypeInv'
  <2> DEFINE k == call[c]
  <2>0. k \in Call /\ Established(k) /\ k.step = "authorizing"
    BY <1>0, <1>9 DEF StoreAuthorization, TypeInv, TypeOK, At
  <2>1. /\ state' \in State /\ state' # NoState /\ Valid(state')
        /\ state'.pull = k.previous.pull /\ state'.run = k.previous.run
    <3>1. k.previous \in State /\ k.previous.attempt = 1 /\ Valid(k.previous)
      BY <2>0 DEF Established, Admitted, Retryable, Call
    <3>2. state' = [k.previous EXCEPT !.target = k.request.target, !.authorized = TRUE]
          /\ k.request.target \in Heads
      BY <1>9, <2>0 DEF StoreAuthorization, Call, Request
    <3>3. state' \in State
      BY <3>1, <3>2 DEF State
    <3>4. /\ state'.attempt = 1 /\ state'.pull = k.previous.pull
          /\ state'.outcome = k.previous.outcome /\ state'.run = k.previous.run
      BY <3>1, <3>2 DEF State
    <3>5. Valid(state')
      BY <3>1, <3>4 DEF Valid
    <3> QED BY <1>0, <3>3, <3>4, <3>5
  <2>2. /\ call' \in [Callers -> Call \cup {Idle}] /\ call'[c] = Idle
        /\ \A d \in Callers \ {c} : call'[d] = call[d]
    BY <1>0, <1>9, Returned DEF StoreAuthorization, TypeOK
  <2>3. TypeOK'
    <3>1. k.request.run \in Runs
      BY <2>0 DEF Call, Request
    <3> QED BY <1>0, <1>9, <2>1, <2>2, <3>1 DEF StoreAuthorization, provider, TypeOK
  <2>4. RecordedPullIsOurs'
    BY <1>9, <2>0, <2>1
       DEF StoreAuthorization, provider, RecordedPullIsOurs, Established, Admitted,
           Retryable, Linked, Ours
  <2>5. call'[c] # Idle => Established(call[c])'
    BY <2>2
  <2>6. \A d \in Callers : call'[d] # Idle => Established(call[d])'
    BY <1>9, <2>2, <2>5, OthersStand DEF StoreAuthorization, provider
  <2> QED BY <2>3, <2>4, <2>6 DEF TypeInv
<1>10. ASSUME NEW c \in Callers, NEW opens \in BOOLEAN, NEW answers \in BOOLEAN,
              CallCreator(c, opens, answers)
       PROVE  TypeInv'
  <2> DEFINE k == call[c]
             number == Len(pulls) + 1
             mine == answers /\ head = k.request.target
             next == [k EXCEPT !.step = "recording",
                               !.pull = IF mine THEN number ELSE NoPull,
                               !.outcome = IF mine THEN "PR_CREATED" ELSE "PR_CREATION_FAILED"]
  <2>0. k \in Call /\ Established(k) /\ k.step = "creating"
    BY <1>0, <1>10 DEF CallCreator, TypeInv, TypeOK, At
  <2>1. k.request.run \in Runs /\ k.pull = NoPull
    BY <2>0 DEF Call, Request, Established, Admitted
  <2>7. /\ pulls' = (IF opens THEN Append(pulls, k.request.run) ELSE pulls)
        /\ pulls' \in Seq(Runs) /\ Len(pulls') <= MaxPulls
        /\ open' \in 0 .. Len(pulls') /\ Len(pulls) <= Len(pulls')
        /\ mine => number <= MaxPulls /\ number = Len(pulls')
                   /\ pulls'[number] = k.request.run
    BY <1>0, <1>10, <2>1 DEF CallCreator, TypeOK
  <2>8. next \in Call
    <3>1. next.pull \in 0 .. MaxPulls
      BY <1>0, <2>0, <2>7 DEF Call, TypeOK
    <3>2. next.outcome \in CreationOutcomes
      BY <2>0 DEF Call, CreationOutcomes
    <3> QED BY <2>0, <3>1, <3>2 DEF Call, Steps
  <2>2. /\ call' \in [Callers -> Call \cup {Idle}] /\ call'[c] = next
        /\ \A d \in Callers \ {c} : call'[d] = call[d]
    BY <1>0, <1>10, <2>8, Moved DEF CallCreator, TypeOK
  <2>3. TypeOK'
    BY <1>0, <1>10, <2>1, <2>2, <2>7 DEF CallCreator, TypeOK
  <2>9. \A pull \in Nat : pull # NoPull /\ pull <= Len(pulls) =>
                pull <= Len(pulls') /\ pulls'[pull] = pulls[pull]
    BY <1>0, <2>1, <2>7, OursStand DEF TypeOK
  <2>4. RecordedPullIsOurs'
    <3>1. state # NoState => state.pull \in Nat
      BY <1>0 DEF TypeOK, State
    <3> QED BY <1>0, <1>10, <2>9, <3>1 DEF CallCreator, RecordedPullIsOurs
  <2>5. Established(call[c])'
    <3>1. k.previous # NoState => k.previous.pull \in Nat
      BY <2>0 DEF Call, State
    <3>2. Admitted(call[c])'
      BY <1>0, <2>0, <2>2, <2>7 DEF Call, Established, Admitted, TypeOK
    <3>3. Linked(call[c])'
      <4>1. /\ call'[c].previous = k.previous /\ call'[c].request = k.request
            /\ call'[c].pull = (IF mine THEN number ELSE NoPull)
        BY <2>0, <2>2 DEF Call
      <4>2. call'[c].pull # NoPull =>
              call'[c].pull <= Len(pulls') /\ pulls'[call'[c].pull] = k.request.run
        BY <2>7, <4>1
      <4>3. k.previous # NoState /\ k.previous.pull # NoPull =>
              /\ k.previous.pull <= Len(pulls')
              /\ pulls'[k.previous.pull] = k.previous.run
        BY <2>0, <2>9, <3>1 DEF Established, Linked, Ours
      <4> HIDE DEF k
      <4> QED BY <4>1, <4>2, <4>3 DEF Linked, Ours
    <3> QED BY <3>2, <3>3 DEF Established
  <2>6. \A d \in Callers : call'[d] # Idle => Established(call[d])'
    BY <2>1, <2>2, <2>5, <2>7, OthersStand
  <2> QED BY <2>3, <2>4, <2>6 DEF TypeInv
<1>11. ASSUME NEW h \in Heads, Push(h) PROVE TypeInv'
  <2>1. TypeOK' /\ RecordedPullIsOurs'
    BY <1>0, <1>11 DEF Push, TypeOK, RecordedPullIsOurs
  <2>2. \A d \in Callers : call'[d] # Idle => Established(call[d])'
    BY <1>11, OthersStand DEF Push
  <2> QED BY <2>1, <2>2 DEF TypeInv
<1>12. ASSUME NEW run \in Runs, OpenByHand(run) PROVE TypeInv'
  <2>1. TypeOK'
    BY <1>0, <1>12 DEF OpenByHand, TypeOK
  <2>2. RecordedPullIsOurs'
    <3>1. state # NoState => state.pull \in Nat
      BY <1>0 DEF TypeOK, State
    <3>2. \A pull \in Nat : pull # NoPull /\ pull <= Len(pulls) =>
                pull <= Len(pulls') /\ pulls'[pull] = pulls[pull]
      BY <1>0, <1>12, OursStand DEF OpenByHand, TypeOK
    <3> QED BY <1>0, <1>12, <3>1, <3>2 DEF OpenByHand, RecordedPullIsOurs
  <2>3. \A d \in Callers : call'[d] # Idle => Established(call[d])'
    BY <1>12, OthersStand DEF OpenByHand
  <2> QED BY <2>1, <2>2, <2>3 DEF TypeInv
<1>13. ASSUME Close PROVE TypeInv'
  <2>1. TypeOK' /\ RecordedPullIsOurs'
    BY <1>0, <1>13 DEF Close, TypeOK, RecordedPullIsOurs
  <2>2. \A d \in Callers : call'[d] # Idle => Established(call[d])'
    BY <1>13, OthersStand DEF Close
  <2> QED BY <2>1, <2>2 DEF TypeInv
<1>14. CASE UNCHANGED vars
  <2>1. TypeOK' /\ RecordedPullIsOurs'
    BY <1>0, <1>14 DEF vars, TypeOK, RecordedPullIsOurs
  <2>2. \A d \in Callers : call'[d] # Idle => Established(call[d])'
    BY <1>14, OthersStand DEF vars
  <2> QED BY <2>1, <2>2 DEF TypeInv
<1> QED
  BY <1>1, <1>2, <1>3, <1>4, <1>5, <1>6, <1>7, <1>8, <1>9, <1>10, <1>11, <1>12,
     <1>13, <1>14 DEF Next

(* The record is well-formed, and so is what every operation remembers: for *)
(* overlapping and dying callers alike.                                     *)
THEOREM HandoffInvariant == Spec => []TypeInv
  BY InitTyped, StepTyped, PTL DEF Spec

(* TypeOK: pr-handoff.json always satisfies validate_state.                 *)
THEOREM TypeCorrect == Spec => []TypeOK
<1>1. TypeInv => TypeOK BY DEF TypeInv
<1> QED BY <1>1, HandoffInvariant, PTL

(* RecordedPullIsOurs: the recorded pull request was opened for the         *)
(* recorded run, even when submissions overlap (require_matching_identity). *)
THEOREM RecordedPull == Spec => []RecordedPullIsOurs
<1>1. TypeInv => RecordedPullIsOurs BY DEF TypeInv
<1> QED BY <1>1, HandoffInvariant, PTL

-----------------------------------------------------------------------------
(* An operation that began alone is alone.                                  *)
LEMMA OnlyCaller ==
  ASSUME ~Overlap, Alone, NEW c \in Callers, MayBegin(c) \/ call[c] # Idle
  PROVE  \A d \in Callers \ {c} : call[d] = Idle
  BY DEF Alone, MayBegin

(* It stays alone, and what it knows of the record is all there is to know. *)
LEMMA StaysAlone ==
  ASSUME call \in [Callers -> Call \cup {Idle}], NEW c \in Callers,
         \A d \in Callers \ {c} : call[d] = Idle /\ call'[d] = call[d],
         call'[c] # Idle => Current(call[c])'
  PROVE  Alone' /\ \A d \in Callers : call'[d] # Idle => Current(call[d])'
<1>1. \A d \in Callers \ {c} : call'[d] = Idle
  OBVIOUS
<1>2. Alone'
  BY <1>1 DEF Alone
<1> QED BY <1>1, <1>2

(* The fields of what _state_for_pr builds that the allowance depends on.   *)
LEMMA BuiltFields ==
  ASSUME NEW request, NEW attempt, NEW outcome, NEW pull, NEW previous, NEW s,
         s = StateForPr(request, attempt, outcome, pull, previous)
  PROVE  s.run = request.run /\ s.attempt = attempt /\ s.authorized = Carried(previous)
  BY DEF StateForPr

(* What _state_for_pr builds is not the missing record.                     *)
LEMMA Wrote ==
  \A request, attempt, outcome, pull, previous :
     StateForPr(request, attempt, outcome, pull, previous) # NoState
  BY DEF StateForPr, NoState

(* Nothing is spent before the first operation.                             *)
LEMMA InitAllowed == Init => AllowanceInv
<1> SUFFICES ASSUME Init PROVE AllowanceInv
  OBVIOUS
<1> QED BY InitTyped DEF Init, AllowanceInv, Alone, CallsReserved, SecondGranted

(* Operations that do not overlap keep to the allowance.                    *)
LEMMA StepAllowed ==
  ASSUME ~Overlap, AllowanceInv, [Next]_vars
  PROVE  AllowanceInv'
<1>0. /\ TypeInv /\ TypeInv' /\ TypeOK /\ TypeOK' /\ Alone /\ NoState \notin State
      /\ call \in [Callers -> Call \cup {Idle}] /\ attempts \in [Runs -> Nat]
      /\ state \in State \cup {NoState}
  BY StepTyped, Recorded DEF AllowanceInv, TypeInv, TypeOK
<1>1. ASSUME NEW c \in Callers, NEW run \in Runs, Submit(c, run) PROVE AllowanceInv'
  <2>1. \A d \in Callers \ {c} : call[d] = Idle
    BY <1>0, <1>1, OnlyCaller DEF Submit, At
  <2>2. UNCHANGED <<state, attempts, granted>>
    BY <1>1 DEF Submit
  <2>3. CallsReserved' /\ SecondGranted'
    BY <2>2 DEF AllowanceInv, CallsReserved, SecondGranted
  <2>6. \A d \in Callers \ {c} : call'[d] = call[d]
    BY <1>0, <1>1 DEF Submit, Proceed, Return
  <2>4. call'[c] # Idle => Current(call[c])'
    <3> DEFINE next == [step |-> "finding", request |-> [run |-> run, target |-> head],
                        previous |-> NoState, pull |-> NoPull, outcome |-> "EXISTING_PR"]
    <3>1. Proceed(c, next)
      BY <1>1 DEF Submit
    <3>2. call'[c] = next
      BY <1>0, <3>1 DEF Proceed
    <3>3. Current(call[c])'
      BY <3>2 DEF Current
    <3> QED BY <3>3
  <2>5. Alone' /\ \A d \in Callers : call'[d] # Idle => Current(call[d])'
    BY <1>0, <2>1, <2>4, <2>6, StaysAlone
  <2> QED BY <1>0, <2>3, <2>5 DEF AllowanceInv
<1>2. ASSUME NEW c \in Callers, NEW run \in Runs, ReadForRetry(c, run) PROVE AllowanceInv'
  <2>1. \A d \in Callers \ {c} : call[d] = Idle
    BY <1>0, <1>2, OnlyCaller DEF ReadForRetry, At
  <2>2. UNCHANGED <<state, attempts, granted>>
    BY <1>2 DEF ReadForRetry
  <2>3. CallsReserved' /\ SecondGranted'
    BY <2>2 DEF AllowanceInv, CallsReserved, SecondGranted
  <2>6. \A d \in Callers \ {c} : call'[d] = call[d]
    BY <1>0, <1>2 DEF ReadForRetry, Proceed, Return
  <2>4. call'[c] # Idle => Current(call[c])'
    <3> DEFINE next == [step |-> "authorizing", request |-> [run |-> run, target |-> head],
                        previous |-> state, pull |-> NoPull, outcome |-> "EXISTING_PR"]
    <3>1. Proceed(c, next)
      BY <1>2 DEF ReadForRetry
    <3>2. call'[c] = next
      BY <1>0, <3>1 DEF Proceed
    <3>3. Current(call[c])'
      BY <2>2, <3>2 DEF Current
    <3> QED BY <3>3
  <2>5. Alone' /\ \A d \in Callers : call'[d] # Idle => Current(call[d])'
    BY <1>0, <2>1, <2>4, <2>6, StaysAlone
  <2> QED BY <1>0, <2>3, <2>5 DEF AllowanceInv
<1>3. ASSUME NEW c \in Callers, FindExisting(c) PROVE AllowanceInv'
  <2>1. \A d \in Callers \ {c} : call[d] = Idle
    BY <1>0, <1>3, OnlyCaller DEF FindExisting, At
  <2>2. UNCHANGED <<state, attempts, granted>>
    BY <1>3 DEF FindExisting
  <2>3. CallsReserved' /\ SecondGranted'
    BY <2>2 DEF AllowanceInv, CallsReserved, SecondGranted
  <2>6. \A d \in Callers \ {c} : call'[d] = call[d]
    BY <1>0, <1>3 DEF FindExisting, Proceed, Return
  <2>4. call'[c] # Idle => Current(call[c])'
    <3> DEFINE next == [call[c] EXCEPT !.step = "reading", !.pull = open]
    <3>1. Return(c) \/ Proceed(c, next)
      BY <1>3 DEF FindExisting
    <3>2. CASE Return(c)
      BY <1>0, <3>2 DEF Return
    <3>3. CASE Proceed(c, next)
      <4>1. call[c] \in Call
        BY <1>0, <1>3 DEF FindExisting, At
      <4>2. call'[c].step = "reading"
        BY <1>0, <3>3, <4>1 DEF Proceed, Call
      <4> QED BY <3>3, <4>2 DEF Current
    <3> QED BY <3>1, <3>2, <3>3
  <2>5. Alone' /\ \A d \in Callers : call'[d] # Idle => Current(call[d])'
    BY <1>0, <2>1, <2>4, <2>6, StaysAlone
  <2> QED BY <1>0, <2>3, <2>5 DEF AllowanceInv
<1>4. ASSUME NEW c \in Callers, ReadPrevious(c) PROVE AllowanceInv'
  <2>1. \A d \in Callers \ {c} : call[d] = Idle
    BY <1>0, <1>4, OnlyCaller DEF ReadPrevious, At
  <2>2. UNCHANGED <<state, attempts, granted>>
    BY <1>4 DEF ReadPrevious
  <2>3. CallsReserved' /\ SecondGranted'
    BY <2>2 DEF AllowanceInv, CallsReserved, SecondGranted
  <2>6. \A d \in Callers \ {c} : call'[d] = call[d]
    BY <1>0, <1>4 DEF ReadPrevious, Proceed, Return
  <2>4. call'[c] # Idle => Current(call[c])'
    <3> DEFINE next == [call[c] EXCEPT
                          !.step = IF call[c].pull # NoPull THEN "linking" ELSE "reserving",
                          !.previous = state]
    <3>1. call'[c] # Idle =>
            /\ call'[c] = next
            /\ call[c].pull # NoPull =>
                 state = NoState \/ SameContext(state, call[c].request)
      BY <1>0, <1>4 DEF ReadPrevious, Proceed, Return
    <3>2. call[c] \in Call
      BY <1>0, <1>4 DEF ReadPrevious, At
    <3>3. /\ next.step = IF call[c].pull # NoPull THEN "linking" ELSE "reserving"
          /\ next.previous = state /\ next.request = call[c].request
      BY <3>2 DEF Call
    <3> HIDE DEF next
    <3> QED BY <2>2, <3>1, <3>3 DEF Current
  <2>5. Alone' /\ \A d \in Callers : call'[d] # Idle => Current(call[d])'
    BY <1>0, <2>1, <2>4, <2>6, StaysAlone
  <2> QED BY <1>0, <2>3, <2>5 DEF AllowanceInv
<1>5. ASSUME NEW c \in Callers, Crash(c) PROVE AllowanceInv'
  <2>1. \A d \in Callers \ {c} : call[d] = Idle
    BY <1>0, <1>5, OnlyCaller DEF Crash, At
  <2>2. UNCHANGED <<state, attempts, granted>>
    BY <1>5 DEF Crash
  <2>3. CallsReserved' /\ SecondGranted'
    BY <2>2 DEF AllowanceInv, CallsReserved, SecondGranted
  <2>6. \A d \in Callers \ {c} : call'[d] = call[d]
    BY <1>0, <1>5 DEF Crash, Proceed, Return
  <2>4. call'[c] # Idle => Current(call[c])'
    BY <1>0, <1>5 DEF Crash, Return
  <2>5. Alone' /\ \A d \in Callers : call'[d] # Idle => Current(call[d])'
    BY <1>0, <2>1, <2>4, <2>6, StaysAlone
  <2> QED BY <1>0, <2>3, <2>5 DEF AllowanceInv
<1>6. ASSUME NEW c \in Callers, RecordExisting(c) PROVE AllowanceInv'
  <2> DEFINE k == call[c]
             spent == NextAttempt(k.previous, k.request)
  <2>0. k \in Call /\ Established(k) /\ Current(k) /\ k.step = "linking" /\ k # Idle
    BY <1>0, <1>6 DEF RecordExisting, At, AllowanceInv, TypeInv
  <2>1. k.request.run \in Runs /\ k.previous \in State \cup {NoState}
    BY <2>0 DEF Call, Request
  <2>2. \A d \in Callers \ {c} : call[d] = Idle
    BY <1>0, <2>0, OnlyCaller
  <2>3. \A d \in Callers \ {c} : call'[d] = call[d]
    BY <1>0, <1>6 DEF RecordExisting, Proceed, Return
  <2>4. /\ state' # NoState /\ state'.run = k.request.run
        /\ state'.attempt = PriorAttempts(k.previous)
        /\ state'.authorized = Carried(k.previous)
    BY <1>6, BuiltFields, Wrote DEF RecordExisting
  <2>5. /\ state = k.previous
        /\ k.previous # NoState => k.previous.run = k.request.run
    BY <2>0 DEF Current, SameContext
  <2>6. UNCHANGED <<attempts, granted>>
    BY <1>6 DEF RecordExisting
  <2>7. CallsReserved' /\ SecondGranted'
    <3>1. CASE k.previous = NoState
      <4>1. Carried(k.previous) = FALSE
        BY <3>1 DEF Carried
      <4>2. \A r \in Runs : attempts[r] = 0
        BY <1>0, <2>5, <3>1 DEF AllowanceInv, CallsReserved
      <4> QED BY <2>4, <2>6, <3>1, <4>1, <4>2
              DEF CallsReserved, SecondGranted, PriorAttempts
    <3>2. CASE k.previous # NoState
      <4>1. Carried(k.previous) = k.previous.authorized
        BY <2>1, <3>2 DEF Carried, State
      <4> QED BY <2>4, <2>5, <2>6, <3>2, <4>1
              DEF AllowanceInv, CallsReserved, SecondGranted, PriorAttempts
    <3> QED BY <3>1, <3>2
  <2>8. call'[c] # Idle => Current(call[c])'
    BY <1>0, <1>6 DEF RecordExisting, Return
  <2>9. Alone' /\ \A d \in Callers : call'[d] # Idle => Current(call[d])'
    BY <1>0, <2>2, <2>3, <2>8, StaysAlone
  <2> QED BY <1>0, <2>7, <2>9 DEF AllowanceInv
<1>7. ASSUME NEW c \in Callers, Reserve(c) PROVE AllowanceInv'
  <2> DEFINE k == call[c]
             spent == NextAttempt(k.previous, k.request)
  <2>0. k \in Call /\ Established(k) /\ Current(k) /\ k.step = "reserving" /\ k # Idle
    BY <1>0, <1>7 DEF Reserve, At, AllowanceInv, TypeInv
  <2>1. k.request.run \in Runs /\ k.previous \in State \cup {NoState}
    BY <2>0 DEF Call, Request
  <2>2. \A d \in Callers \ {c} : call[d] = Idle
    BY <1>0, <2>0, OnlyCaller
  <2>3. \A d \in Callers \ {c} : call'[d] = call[d]
    BY <1>0, <1>7 DEF Reserve, Proceed, Return
  <2>4. /\ state' # NoState /\ state'.run = k.request.run
        /\ state'.attempt = spent /\ state'.authorized = Carried(k.previous)
    BY <1>7, BuiltFields, Wrote DEF Reserve
  <2>5. /\ state = k.previous /\ spent # 0
        /\ UNCHANGED <<attempts, granted>>
    BY <1>7, <2>0 DEF Reserve, Current, Established, Admitted
  <2>7. CallsReserved' /\ SecondGranted' /\ attempts[k.request.run] < spent
    <3>1. CASE k.previous = NoState
      <4>1. spent = 1 /\ Carried(k.previous) = FALSE
        BY <3>1 DEF NextAttempt, Carried
      <4>2. \A r \in Runs : attempts[r] = 0
        BY <1>0, <2>5, <3>1 DEF AllowanceInv, CallsReserved
      <4> QED BY <1>0, <2>1, <2>4, <2>5, <4>1, <4>2 DEF CallsReserved, SecondGranted
    <3>2. CASE k.previous # NoState
      <4>1. /\ spent = 2 /\ state.run = k.request.run
            /\ state.attempt = 1 /\ state.authorized = TRUE
        BY <2>1, <2>5, <3>2 DEF NextAttempt, SameContext, State
      <4>2. state'.authorized = TRUE
        <5>1. Carried(k.previous) = TRUE
          BY <2>5, <3>2, <4>1 DEF Carried
        <5> QED BY <2>4, <5>1
      <4>3. \A r \in Runs : attempts[r] > 0 => r = k.request.run /\ attempts[r] <= 1
        BY <4>1 DEF AllowanceInv, CallsReserved
      <4>4. CallsReserved' /\ attempts[k.request.run] < spent
        BY <1>0, <2>1, <2>4, <2>5, <4>1, <4>3 DEF CallsReserved
      <4>5. k.request.run \in granted
        BY <2>5, <3>2, <4>1 DEF AllowanceInv, SecondGranted
      <4>6. SecondGranted'
        BY <2>4, <2>5, <4>2, <4>5 DEF SecondGranted
      <4> QED BY <4>4, <4>6
    <3> QED BY <3>1, <3>2
  <2>8. call'[c] # Idle => Current(call[c])'
    <3>1. call'[c] = [k EXCEPT !.step = "creating"]
      BY <1>0, <1>7 DEF Reserve, Proceed
    <3>2. /\ call'[c].step = "creating" /\ call'[c].request = k.request
          /\ call'[c].previous = k.previous
      BY <2>0, <3>1 DEF Call
    <3>3. state' = StateForPr(k.request, spent, "PR_ATTEMPT_RESERVED", NoPull, k.previous)
      BY <1>7 DEF Reserve
    <3> HIDE DEF k
    <3> QED BY <2>5, <2>7, <3>2, <3>3 DEF Current
  <2>9. Alone' /\ \A d \in Callers : call'[d] # Idle => Current(call[d])'
    BY <1>0, <2>2, <2>3, <2>8, StaysAlone
  <2> QED BY <1>0, <2>7, <2>9 DEF AllowanceInv
<1>8. ASSUME NEW c \in Callers, RecordAttempt(c) PROVE AllowanceInv'
  <2> DEFINE k == call[c]
             spent == NextAttempt(k.previous, k.request)
  <2>0. k \in Call /\ Established(k) /\ Current(k) /\ k.step = "recording" /\ k # Idle
    BY <1>0, <1>8 DEF RecordAttempt, At, AllowanceInv, TypeInv
  <2>1. k.request.run \in Runs /\ k.previous \in State \cup {NoState}
    BY <2>0 DEF Call, Request
  <2>2. \A d \in Callers \ {c} : call[d] = Idle
    BY <1>0, <2>0, OnlyCaller
  <2>3. \A d \in Callers \ {c} : call'[d] = call[d]
    BY <1>0, <1>8 DEF RecordAttempt, Proceed, Return
  <2>4. /\ state' # NoState /\ state'.run = k.request.run
        /\ state'.attempt = spent /\ state'.authorized = Carried(k.previous)
    BY <1>8, BuiltFields, Wrote DEF RecordAttempt
  <2>5. /\ state # NoState /\ state.run = k.request.run
        /\ state.attempt = spent /\ state.authorized = Carried(k.previous)
    BY <2>0, BuiltFields, Wrote DEF Current
  <2>6. UNCHANGED <<attempts, granted>>
    BY <1>8 DEF RecordAttempt
  <2>7. CallsReserved' /\ SecondGranted'
    BY <2>4, <2>5, <2>6 DEF AllowanceInv, CallsReserved, SecondGranted
  <2>8. call'[c] # Idle => Current(call[c])'
    BY <1>0, <1>8 DEF RecordAttempt, Return
  <2>9. Alone' /\ \A d \in Callers : call'[d] # Idle => Current(call[d])'
    BY <1>0, <2>2, <2>3, <2>8, StaysAlone
  <2> QED BY <1>0, <2>7, <2>9 DEF AllowanceInv
<1>9. ASSUME NEW c \in Callers, StoreAuthorization(c) PROVE AllowanceInv'
  <2> DEFINE k == call[c]
             spent == NextAttempt(k.previous, k.request)
  <2>0. k \in Call /\ Established(k) /\ Current(k) /\ k.step = "authorizing" /\ k # Idle
    BY <1>0, <1>9 DEF StoreAuthorization, At, AllowanceInv, TypeInv
  <2>1. k.request.run \in Runs /\ k.previous \in State \cup {NoState}
    BY <2>0 DEF Call, Request
  <2>2. \A d \in Callers \ {c} : call[d] = Idle
    BY <1>0, <2>0, OnlyCaller
  <2>3. \A d \in Callers \ {c} : call'[d] = call[d]
    BY <1>0, <1>9 DEF StoreAuthorization, Proceed, Return
  <2>4. /\ state = k.previous /\ state # NoState /\ state \in State
        /\ state.run = k.request.run /\ state.attempt = 1
    BY <2>0, <2>1 DEF Current, Established, Admitted, Retryable, SameContext
  <2>5. /\ state' # NoState /\ state'.run = state.run /\ state'.attempt = 1
        /\ state'.authorized
    <3>1. state' = [state EXCEPT !.target = k.request.target, !.authorized = TRUE]
      BY <1>9, <2>4 DEF StoreAuthorization
    <3>2. state' \in State
      BY <2>0, <2>4, <3>1 DEF State, Call, Request
    <3> QED BY <1>0, <2>4, <3>1, <3>2 DEF State
  <2>6. attempts' = attempts /\ granted' = granted \cup {k.request.run}
    BY <1>9 DEF StoreAuthorization
  <2>7. CallsReserved' /\ SecondGranted'
    BY <2>4, <2>5, <2>6 DEF AllowanceInv, CallsReserved, SecondGranted
  <2>8. call'[c] # Idle => Current(call[c])'
    BY <1>0, <1>9 DEF StoreAuthorization, Return
  <2>9. Alone' /\ \A d \in Callers : call'[d] # Idle => Current(call[d])'
    BY <1>0, <2>2, <2>3, <2>8, StaysAlone
  <2> QED BY <1>0, <2>7, <2>9 DEF AllowanceInv
<1>10. ASSUME NEW c \in Callers, NEW opens \in BOOLEAN, NEW answers \in BOOLEAN,
              CallCreator(c, opens, answers)
       PROVE AllowanceInv'
  <2> DEFINE k == call[c]
             spent == NextAttempt(k.previous, k.request)
  <2>0. k \in Call /\ Established(k) /\ Current(k) /\ k.step = "creating" /\ k # Idle
    BY <1>0, <1>10 DEF CallCreator, At, AllowanceInv, TypeInv
  <2>1. k.request.run \in Runs /\ k.previous \in State \cup {NoState}
    BY <2>0 DEF Call, Request
  <2>2. \A d \in Callers \ {c} : call[d] = Idle
    BY <1>0, <2>0, OnlyCaller
  <2>3. \A d \in Callers \ {c} : call'[d] = call[d]
    BY <1>0, <1>10 DEF CallCreator, Proceed, Return
  <2>4. /\ state # NoState /\ state.run = k.request.run /\ state.attempt = spent
        /\ attempts[k.request.run] < spent
        /\ state = StateForPr(k.request, spent, "PR_ATTEMPT_RESERVED", NoPull, k.previous)
    BY <2>0, BuiltFields, Wrote DEF Current
  <2>5. /\ attempts' = [attempts EXCEPT ![k.request.run] = @ + 1]
        /\ UNCHANGED <<state, granted>>
    BY <1>10 DEF CallCreator
  <2>6. spent \in 0 .. 2
    BY NextAttemptTyped
  <2>7. CallsReserved' /\ SecondGranted'
    BY <1>0, <2>1, <2>4, <2>5, <2>6 DEF AllowanceInv, CallsReserved, SecondGranted
  <2>8. call'[c] # Idle => Current(call[c])'
    <3> DEFINE mine == answers /\ head = k.request.target
               next == [k EXCEPT
                         !.step = "recording",
                         !.pull = IF mine THEN Len(pulls) + 1 ELSE NoPull,
                         !.outcome = IF mine THEN "PR_CREATED" ELSE "PR_CREATION_FAILED"]
    <3>1. call'[c] = next
      BY <1>0, <1>10 DEF CallCreator, Proceed
    <3>2. /\ call'[c].step = "recording" /\ call'[c].request = k.request
          /\ call'[c].previous = k.previous
      BY <2>0, <3>1 DEF Call
    <3> HIDE DEF k
    <3> QED BY <2>4, <2>5, <3>2 DEF Current
  <2>9. Alone' /\ \A d \in Callers : call'[d] # Idle => Current(call[d])'
    BY <1>0, <2>2, <2>3, <2>8, StaysAlone
  <2> QED BY <1>0, <2>7, <2>9 DEF AllowanceInv
<1>11. CASE (\E h \in Heads : Push(h)) \/ (\E run \in Runs : OpenByHand(run)) \/ Close
             \/ UNCHANGED vars
  <2>1. UNCHANGED <<state, call, attempts, granted>>
    BY <1>11 DEF Push, OpenByHand, Close, vars
  <2> QED BY <1>0, <2>1 DEF AllowanceInv, Alone, CallsReserved, SecondGranted, Current
<1> QED
  BY <1>1, <1>2, <1>3, <1>4, <1>5, <1>6, <1>7, <1>8, <1>9, <1>10, <1>11 DEF Next

(* The allowance is kept because every call of the creator was reserved and *)
(* a second reservation needs the recorded authorization.                   *)
LEMMA Allowed == AllowanceInv => WithinAllowance
<1> SUFFICES ASSUME AllowanceInv, NEW r \in Runs
             PROVE  attempts[r] <= (IF r \in granted THEN 2 ELSE 1)
  BY DEF WithinAllowance
<1>1. attempts[r] \in Nat
  BY DEF AllowanceInv, TypeInv, TypeOK
<1>2. state # NoState => state.attempt \in 0 .. 2
  BY DEF AllowanceInv, TypeInv, TypeOK, State
<1> QED BY <1>1, <1>2 DEF AllowanceInv, CallsReserved, SecondGranted

(* AllowanceInv holds at every moment when operations do not overlap.       *)
THEOREM AllowanceInvariant == ASSUME ~Overlap PROVE Spec => []AllowanceInv
  BY InitAllowed, StepAllowed, PTL DEF Spec

(* CallsReserved: whatever crashed, every call of the creator is on record. *)
THEOREM EveryCallReserved == ASSUME ~Overlap PROVE Spec => []CallsReserved
<1>1. AllowanceInv => CallsReserved BY DEF AllowanceInv
<1> QED BY <1>1, AllowanceInvariant, PTL

(* WithinAllowance: one call of the creator per run, two once authorized.   *)
THEOREM AllowanceKept == ASSUME ~Overlap PROVE Spec => []WithinAllowance
  BY Allowed, AllowanceInvariant, PTL

(* Whoever writes the record knows it: the run stays, no attempt and no     *)
(* authorization is lost.                                                   *)
LEMMA StepKeeps ==
  ASSUME AllowanceInv, [Next]_vars, state # NoState
  PROVE  /\ state' # NoState
         /\ state'.run = state.run
         /\ state.attempt <= state'.attempt
         /\ state.authorized => state'.authorized
<1>0. state \in State /\ call \in [Callers -> Call \cup {Idle}]
  BY DEF AllowanceInv, TypeInv, TypeOK
<1>1. ASSUME NEW c \in Callers, RecordExisting(c)
      PROVE  /\ state' # NoState /\ state'.run = state.run
             /\ state'.attempt = state.attempt /\ state'.authorized = state.authorized
  <2> DEFINE k == call[c]
  <2>1. k \in Call /\ Current(k) /\ k.step = "linking"
    BY <1>0, <1>1 DEF RecordExisting, At, AllowanceInv
  <2>2. /\ state' # NoState /\ state'.run = k.request.run
        /\ state'.attempt = PriorAttempts(k.previous)
        /\ state'.authorized = Carried(k.previous)
    BY <1>1, BuiltFields, Wrote DEF RecordExisting
  <2>3. state = k.previous /\ state.run = k.request.run
    BY <2>1 DEF Current, SameContext
  <2>4. /\ PriorAttempts(k.previous) = state.attempt
        /\ Carried(k.previous) = state.authorized
    BY <1>0, <2>3 DEF PriorAttempts, Carried, State
  <2> QED BY <2>2, <2>3, <2>4
<1>2. ASSUME NEW c \in Callers, Reserve(c)
      PROVE  /\ state' # NoState /\ state'.run = state.run
             /\ state.attempt <= state'.attempt /\ state'.authorized = state.authorized
  <2> DEFINE k == call[c]
  <2>1. k \in Call /\ Current(k) /\ Established(k) /\ k.step = "reserving"
    BY <1>0, <1>2 DEF Reserve, At, AllowanceInv, TypeInv
  <2>2. /\ state' # NoState /\ state'.run = k.request.run
        /\ state'.attempt = NextAttempt(k.previous, k.request)
        /\ state'.authorized = Carried(k.previous)
    BY <1>2, BuiltFields, Wrote DEF Reserve
  <2>3. state = k.previous /\ NextAttempt(k.previous, k.request) # 0
    BY <2>1 DEF Current, Established, Admitted
  <2>4. /\ NextAttempt(k.previous, k.request) = 2 /\ state.attempt = 1
        /\ state.run = k.request.run
    BY <2>3 DEF NextAttempt, SameContext
  <2>5. Carried(k.previous) = state.authorized
    BY <1>0, <2>3 DEF Carried, State
  <2> QED BY <2>2, <2>4, <2>5
<1>3. ASSUME NEW c \in Callers, RecordAttempt(c)
      PROVE  /\ state' # NoState /\ state'.run = state.run
             /\ state'.attempt = state.attempt /\ state'.authorized = state.authorized
  <2> DEFINE k == call[c]
  <2>1. k \in Call /\ Current(k) /\ k.step = "recording"
    BY <1>0, <1>3 DEF RecordAttempt, At, AllowanceInv
  <2>2. /\ state' # NoState /\ state'.run = k.request.run
        /\ state'.attempt = NextAttempt(k.previous, k.request)
        /\ state'.authorized = Carried(k.previous)
    BY <1>3, BuiltFields, Wrote DEF RecordAttempt
  <2>3. /\ state.run = k.request.run
        /\ state.attempt = NextAttempt(k.previous, k.request)
        /\ state.authorized = Carried(k.previous)
    BY <2>1, BuiltFields DEF Current
  <2> QED BY <2>2, <2>3
<1>4. ASSUME NEW c \in Callers, StoreAuthorization(c)
      PROVE  /\ state' # NoState /\ state'.run = state.run
             /\ state'.attempt = state.attempt /\ state'.authorized = TRUE
  <2> DEFINE k == call[c]
  <2>1. k \in Call /\ Current(k) /\ k.step = "authorizing"
    BY <1>0, <1>4 DEF StoreAuthorization, At, AllowanceInv
  <2>2. state' = [state EXCEPT !.target = k.request.target, !.authorized = TRUE]
    BY <1>4, <2>1 DEF StoreAuthorization, Current
  <2>3. state' \in State
    BY <1>0, <2>1, <2>2 DEF State, Call, Request
  <2> QED BY <1>0, <2>2, <2>3, Recorded DEF State
<1>5. CASE UNCHANGED state
  BY <1>0, <1>5 DEF State
<1>6. \/ \E c \in Callers : \/ RecordExisting(c) \/ Reserve(c)
                            \/ RecordAttempt(c) \/ StoreAuthorization(c)
      \/ UNCHANGED state
  BY DEF Next, vars, Submit, ReadForRetry, FindExisting, ReadPrevious, CallCreator,
         Crash, Push, OpenByHand, Close
<1>7. state.attempt <= state.attempt
  BY <1>0 DEF State
<1> QED BY <1>1, <1>2, <1>3, <1>4, <1>5, <1>6, <1>7

(* AllowanceNeverReset: neither a changed HEAD nor an existing pull request *)
(* nor a failure gives an attempt back or drops an authorization.           *)
THEOREM NothingGivenBack == ASSUME ~Overlap PROVE Spec => AllowanceNeverReset
<1>1. AllowanceInv /\ [Next]_vars =>
        [state # NoState => /\ state' # NoState
                            /\ state'.run = state.run
                            /\ state.attempt <= state'.attempt
                            /\ state.authorized => state'.authorized]_vars
  BY StepKeeps
<1> QED BY <1>1, AllowanceInvariant, PTL DEF Spec, AllowanceNeverReset
=============================================================================
