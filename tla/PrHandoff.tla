------------------------------ MODULE PrHandoff ------------------------------
(***************************************************************************)
(* The pull-request handoff of one task (pr_handoff.py and its state and   *)
(* validation modules): `submit` first asks the provider for an open pull  *)
(* request of the branch and records it, else spends one attempt of the    *)
(* run's allowance: it reserves the attempt in pr-handoff.json, calls the  *)
(* creator and records what came of it. `authorize_retry` records a        *)
(* human's permission for a second attempt.                                *)
(*                                                                         *)
(* The store is one file, replaced atomically by every write and guarded   *)
(* by no lock, so a read and the write that follows it are separate steps. *)
(* A caller may die at any step. The task, repository, branch and base     *)
(* HEAD of a request are those of the store's task; what varies is the run *)
(* and the target HEAD.                                                    *)
(***************************************************************************)
EXTENDS Integers, Sequences

CONSTANTS
    Callers,     \* processes that may call the handoff service
    Runs,        \* run ids under which the task is submitted
    Heads,       \* commits the branch may point to
    Overlap,     \* whether two operations may be under way at once
    MaxPulls     \* bound on the pull requests the provider ever opens

ASSUME OverlapAssumption == Overlap \in BOOLEAN
ASSUME PullsAssumption == MaxPulls \in Nat

VARIABLES
    state,       \* pr-handoff.json: NoState, or the recorded handoff
    call,        \* call[c]: the operation caller c is executing
    head,        \* the commit the branch points to at the provider
    pulls,       \* pulls[n]: the run of pull request n
    open,        \* the branch's open pull request, or NoPull
    attempts,    \* how often the creator has been called for each run
    granted      \* the runs a human has authorized a retry for

vars == <<state, call, head, pulls, open, attempts, granted>>
provider == <<head, pulls, open>>

-----------------------------------------------------------------------------
NoPull == 0
NoState == [outcome |-> "missing"]

CreationOutcomes == {"PR_ATTEMPT_RESERVED", "PR_CREATED", "PR_CREATION_FAILED"}

State == [run: Runs, target: Heads, attempt: 0..2,
          outcome: CreationOutcomes \cup {"EXISTING_PR"},
          pull: 0..MaxPulls, authorized: BOOLEAN]

Request == [run: Runs, target: Heads]

Idle == [step |-> "idle"]
Steps == {"finding", "reading", "reserving", "creating", "recording", "linking",
          "authorizing"}
Call == [step: Steps, request: Request, previous: State \cup {NoState},
         pull: 0..MaxPulls, outcome: CreationOutcomes \cup {"EXISTING_PR"}]

\* What validate_state demands of a recorded handoff.
Valid(s) ==
    /\ s.attempt = 0 => s.outcome \notin CreationOutcomes /\ ~s.authorized
    /\ (s.pull # NoPull) = (s.outcome \in {"PR_CREATED", "EXISTING_PR"})

TypeOK ==
    /\ state \in State \cup {NoState}
    /\ state # NoState => Valid(state)
    /\ call \in [Callers -> Call \cup {Idle}]
    /\ head \in Heads
    /\ pulls \in Seq(Runs) /\ Len(pulls) <= MaxPulls
    /\ open \in 0..Len(pulls)
    /\ attempts \in [Runs -> Nat]
    /\ granted \subseteq Runs

Init ==
    /\ state = NoState
    /\ call = [c \in Callers |-> Idle]
    /\ head \in Heads
    /\ pulls = <<>>
    /\ open = NoPull
    /\ attempts = [r \in Runs |-> 0]
    /\ granted = {}

-----------------------------------------------------------------------------
(* What the service decides from the recorded handoff.                     *)

SameContext(s, request) == s.run = request.run

\* As NextAttempt, without asking for the authorization.
NextAttemptUnauthorized(previous, request) ==
    IF previous = NoState THEN 1
    ELSE IF SameContext(previous, request) /\ previous.attempt = 1 THEN 2 ELSE 0

\* The attempt a creation would be, 0 when the allowance is exhausted or the
\* record is another run's.
NextAttempt(previous, request) ==
    IF previous = NoState THEN 1
    ELSE IF SameContext(previous, request) /\ previous.attempt = 1 /\ previous.authorized
         THEN 2
         ELSE 0

\* As Retryable, where no attempt need have been made.
RetryableUnattempted(previous, request) ==
    previous # NoState /\ previous.attempt # 2 /\ SameContext(previous, request)

Retryable(previous, request) ==
    /\ previous # NoState
    /\ previous.attempt = 1
    /\ SameContext(previous, request)

Carried(previous) == previous # NoState /\ previous.authorized

StateForPr(request, attempt, outcome, pull, previous) ==
    [run |-> request.run, target |-> request.target, attempt |-> attempt,
     outcome |-> outcome, pull |-> pull, authorized |-> Carried(previous)]

\* As MatchingIdentity, comparing the target HEAD alone.
MatchingTarget(pull, request) == head = request.target

\* A pull request answers the request when it carries its run and its target.
MatchingIdentity(pull, request) ==
    pulls[pull] = request.run /\ head = request.target

-----------------------------------------------------------------------------
(* An operation begins, moves on, and ends.                                *)

MayBegin(c) == call[c] = Idle /\ (Overlap \/ \A d \in Callers : call[d] = Idle)

At(c, step) == call[c] # Idle /\ call[c].step = step

Return(c) == call' = [call EXCEPT ![c] = Idle]

Proceed(c, next) == call' = [call EXCEPT ![c] = next]

\* submit: the request is validated; the caller read the branch head before.
Submit(c, run) ==
    /\ MayBegin(c)
    /\ Proceed(c, [step |-> "finding", request |-> [run |-> run, target |-> head],
                   previous |-> NoState, pull |-> NoPull, outcome |-> "EXISTING_PR"])
    /\ UNCHANGED <<state, provider, attempts, granted>>

\* find_existing answers: an open pull request that is not the request's own
\* fails the submission.
FindExisting(c) ==
    /\ At(c, "finding")
    /\ IF open # NoPull /\ ~MatchingIdentity(open, call[c].request)
       THEN Return(c)
       ELSE Proceed(c, [call[c] EXCEPT !.step = "reading", !.pull = open])
    /\ UNCHANGED <<state, provider, attempts, granted>>

\* The recorded handoff is read: an existing pull request only has to belong
\* to the same run, a creation needs an attempt that is left.
ReadPrevious(c) ==
    LET request == call[c].request
        admitted == IF call[c].pull # NoPull
                    THEN state = NoState \/ SameContext(state, request)
                    ELSE NextAttempt(state, request) # 0
        next == IF call[c].pull # NoPull THEN "linking" ELSE "reserving"
    IN  /\ At(c, "reading")
        /\ IF admitted
           THEN Proceed(c, [call[c] EXCEPT !.step = next, !.previous = state])
           ELSE Return(c)
        /\ UNCHANGED <<state, provider, attempts, granted>>

\* As PriorAttempts, where finding a pull request clears the count.
NoPriorAttempts(previous) == 0

\* _reconcile: an existing pull request costs no attempt and gives none back.
PriorAttempts(previous) == IF previous = NoState THEN 0 ELSE previous.attempt

RecordExisting(c) ==
    /\ At(c, "linking")
    /\ state' = StateForPr(call[c].request, PriorAttempts(call[c].previous), "EXISTING_PR",
                           call[c].pull, call[c].previous)
    /\ Return(c)
    /\ UNCHANGED <<provider, attempts, granted>>

\* As Reserve, leaving the record to be written when the creator has answered.
ReserveLater(c) ==
    /\ At(c, "reserving")
    /\ Proceed(c, [call[c] EXCEPT !.step = "creating"])
    /\ UNCHANGED <<state, provider, attempts, granted>>

\* The attempt is reserved before the provider hears of it.
Reserve(c) ==
    /\ At(c, "reserving")
    /\ state' = StateForPr(call[c].request, NextAttempt(call[c].previous, call[c].request),
                           "PR_ATTEMPT_RESERVED", NoPull, call[c].previous)
    /\ Proceed(c, [call[c] EXCEPT !.step = "creating"])
    /\ UNCHANGED <<provider, attempts, granted>>

\* The creator is called. The provider opens a pull request for the branch
\* where none is open, and the answer may be that one, a rejection, or an
\* error raised with the pull request open or not; a pull request that is not
\* the request's own is recorded as a failure.
CallCreator(c, opens, answers) ==
    LET number == Len(pulls) + 1
        matches == head = call[c].request.target
    IN  /\ At(c, "creating")
        /\ attempts' = [attempts EXCEPT ![call[c].request.run] = @ + 1]
        /\ opens => open = NoPull /\ number <= MaxPulls
        /\ answers => opens
        /\ pulls' = IF opens THEN Append(pulls, call[c].request.run) ELSE pulls
        /\ open' = IF opens THEN number ELSE open
        /\ Proceed(c, [call[c] EXCEPT
               !.step = "recording",
               !.pull = IF answers /\ matches THEN number ELSE NoPull,
               !.outcome = IF answers /\ matches THEN "PR_CREATED" ELSE "PR_CREATION_FAILED"])
        /\ UNCHANGED <<state, head, granted>>

\* What came of the attempt is written over the record, from what the call
\* read at its start.
RecordAttempt(c) ==
    /\ At(c, "recording")
    /\ state' = StateForPr(call[c].request, NextAttempt(call[c].previous, call[c].request),
                           call[c].outcome, call[c].pull, call[c].previous)
    /\ Return(c)
    /\ UNCHANGED <<provider, attempts, granted>>

\* authorize_retry: one prior attempt of the same run is required, whatever
\* its outcome.
ReadForRetry(c, run) ==
    LET request == [run |-> run, target |-> head]
    IN  /\ MayBegin(c)
        /\ Retryable(state, request)
        /\ Proceed(c, [step |-> "authorizing", request |-> request, previous |-> state,
                       pull |-> NoPull, outcome |-> "EXISTING_PR"])
        /\ UNCHANGED <<state, provider, attempts, granted>>

StoreAuthorization(c) ==
    /\ At(c, "authorizing")
    /\ state' = [call[c].previous EXCEPT !.target = call[c].request.target,
                                         !.authorized = TRUE]
    /\ granted' = granted \cup {call[c].request.run}
    /\ Return(c)
    /\ UNCHANGED <<provider, attempts>>

\* The process dies; what it wrote stays.
Crash(c) ==
    /\ call[c] # Idle
    /\ Return(c)
    /\ UNCHANGED <<state, provider, attempts, granted>>

-----------------------------------------------------------------------------
(* The provider and the people around it.                                  *)

\* A commit is pushed: the branch, and with it an open pull request, moves.
Push(h) ==
    /\ head' = h
    /\ UNCHANGED <<state, call, pulls, open, attempts, granted>>

\* A human opens the pull request from the copy-ready content.
OpenByHand(run) ==
    /\ open = NoPull
    /\ Len(pulls) < MaxPulls
    /\ pulls' = Append(pulls, run)
    /\ open' = Len(pulls')
    /\ UNCHANGED <<state, call, head, attempts, granted>>

\* The open pull request is merged or closed.
Close ==
    /\ open # NoPull
    /\ open' = NoPull
    /\ UNCHANGED <<state, call, head, pulls, attempts, granted>>

Next ==
    \/ \E c \in Callers :
         \/ \E run \in Runs : Submit(c, run) \/ ReadForRetry(c, run)
         \/ FindExisting(c)
         \/ ReadPrevious(c)
         \/ RecordExisting(c)
         \/ Reserve(c)
         \/ \E opens, answers \in BOOLEAN : CallCreator(c, opens, answers)
         \/ RecordAttempt(c)
         \/ StoreAuthorization(c)
         \/ Crash(c)
    \/ \E h \in Heads : Push(h)
    \/ \E run \in Runs : OpenByHand(run)
    \/ Close

Spec == Init /\ [][Next]_vars

-----------------------------------------------------------------------------
(* Properties.                                                             *)

\* The creator is called at most once for a run, and a second and last time
\* only once a human's authorization has been recorded: whatever crashed,
\* failed, was pushed or closed in between (_next_attempt).
WithinAllowance ==
    \A r \in Runs : attempts[r] <= (IF r \in granted THEN 2 ELSE 1)

\* Every call of the creator was reserved first: however a process died, the
\* record owns up to at least as many attempts as the provider has seen, and
\* to those of its own run only (_create writes before it calls).
CallsReserved ==
    \A r \in Runs :
        attempts[r] > 0 => /\ state # NoState
                           /\ state.run = r
                           /\ attempts[r] <= state.attempt

\* The pull request the record names is one the provider opened for the
\* recorded run: neither another run's nor one the creator never returned
\* (require_matching_identity).
RecordedPullIsOurs ==
    state # NoState /\ state.pull # NoPull =>
        state.pull <= Len(pulls) /\ pulls[state.pull] = state.run

\* Nothing gives an attempt back: neither a changed HEAD, nor a pull request
\* found open, nor a failure; and a recorded authorization stays recorded,
\* the run it was recorded for with it.
AllowanceNeverReset ==
    [][state # NoState =>
          /\ state' # NoState
          /\ state'.run = state.run
          /\ state.attempt <= state'.attempt
          /\ state.authorized => state'.authorized]_vars

=============================================================================
