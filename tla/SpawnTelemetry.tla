---------------------------- MODULE SpawnTelemetry ----------------------------
(***************************************************************************)
(* The spawn telemetry store (spawn_telemetry.py and its io and quality    *)
(* modules): processes record the events of the agents they spawned in one *)
(* JSON-lines file and reconcile a task run with the pull request it made, *)
(* in a second file. Each file has a blocking lock of its own; `record`    *)
(* takes that of the events, `reconcile_pr` both, the events' first. An    *)
(* append copies the file, adds a line and replaces the file atomically,   *)
(* so its copy and its replacement are separate steps. A call may be       *)
(* killed, or fail on an error of the file system, at any step; either way *)
(* its locks are released.                                                 *)
(***************************************************************************)
EXTENDS Integers, Sequences, FiniteSetsExt

CONSTANTS
    Procs,       \* processes that call the store
    Events,      \* events: records with fields id, run, group and tokens
    Prs,         \* pull requests a run may be reconciled with
    Qualities,   \* quality metadata a reconciliation may carry
    Unknown,     \* the value of a token metric that is null with a reason
    NoOne        \* the holder of a free lock

ASSUME NoOneIsNobody == NoOne \notin Procs

\* TOKEN_FIELDS of every event: each a count, or unknown (_metric).
ASSUME MetricsAreCounts ==
    \A e, d \in Events :
        /\ IsFiniteSet(DOMAIN e.tokens) /\ DOMAIN d.tokens = DOMAIN e.tokens
        /\ \A f \in DOMAIN e.tokens : e.tokens[f] = Unknown \/ e.tokens[f] \in Nat

VARIABLES
    events,      \* the lines of the events file
    records,     \* the lines of pr-reconciliations.jsonl
    holder,      \* holder[f]: the process that holds the lock of file f
    call,        \* call[p]: the call process p is executing
    told         \* the events whose `record` returned normally

vars == <<events, records, holder, call, told>>
files == <<events, records>>

-----------------------------------------------------------------------------
Runs == {e.run : e \in Events}
Labels == [pr: Prs, quality: Qualities]
Locks == {"events", "records"}

\* The token metrics of the lines `at`.
Metrics(log, at) == {<<i, f>> : i \in at, f \in DOMAIN log[1].tokens}
IsKnown(log, m) == log[m[1]].tokens[m[2]] # Unknown

\* The sum of what f gives for the members of S.
SumOver(f, S) == MapThenSumSet(LAMBDA x : f[x], S)

\* aggregate_spawn_usage over the lines `at` of log: the sum of the metrics
\* that are known and the names of those that are not.
Usage(log, at) ==
    [total |-> LET known == {m \in Metrics(log, at) : IsKnown(log, m)}
               IN  SumOver([m \in known |-> log[m[1]].tokens[m[2]]], known),
     unknown |-> {<<log[m[1]].id, m[2]>> : m \in {n \in Metrics(log, at) : ~IsKnown(log, n)}}]

\* The lines of a task run, and among them those of one role and effort.
Mine(log, run) == {i \in DOMAIN log : log[i].run = run}
Groups(log, at) == {log[i].group : i \in at}

\* What a reconciliation says of the run's events: the usage of them all and,
\* for every role and effort, the usage of theirs (aggregate_role_effort).
Digest(log, run) ==
    LET at == Mine(log, run)
    IN  [all |-> Usage(log, at),
         by  |-> [g \in Groups(log, at) |-> Usage(log, {i \in at : log[i].group = g})]]

Ids(log) == {log[i].id : i \in DOMAIN log}
Lines(log) == {log[i] : i \in DOMAIN log}

-----------------------------------------------------------------------------
Idle == [step |-> "idle"]
RecordSteps == {"lock", "check", "copy", "replace", "readBack"}
ReconcileSteps == {"lockEvents", "lockRecords", "match", "summarize", "append"}

\* The steps at which a lock is held.
LockedSteps == [f \in Locks |->
    IF f = "events"
    THEN {"check", "copy", "replace", "readBack", "lockRecords", "match", "summarize", "append"}
    ELSE {"match", "summarize", "append"}]

\* Every variable holds a value of its kind, an idle process holds no lock
\* and one past its lock step holds the lock.
TypeOK ==
    /\ Lines(events) \subseteq Events
    /\ \A r \in Lines(records) : r.run \in Runs /\ r.label \in Labels
    /\ holder \in [Locks -> Procs \cup {NoOne}]
    /\ \A p \in Procs :
        \/ call[p] = Idle
        \/ call[p].step \in RecordSteps /\ call[p].event \in Events
                                       /\ Lines(call[p].copied) \subseteq Events
        \/ call[p].step \in ReconcileSteps /\ call[p].run \in Runs /\ call[p].label \in Labels
    /\ \A p \in Procs, f \in Locks :
        /\ holder[f] = p => call[p] # Idle
        /\ call[p].step \in LockedSteps[f] => holder[f] = p
    /\ told \subseteq Events

Init ==
    /\ events = <<>> /\ records = <<>>
    /\ holder = [f \in Locks |-> NoOne]
    /\ call = [p \in Procs |-> Idle]
    /\ told = {}

-----------------------------------------------------------------------------
At(p, step) == call[p].step = step
Goto(p, step) == call' = [call EXCEPT ![p].step = step]

\* As Acquire, waiting for nobody.
AcquireAtOnce(p, f) == holder' = [holder EXCEPT ![f] = p]

\* flock(LOCK_EX): waits until the lock is free.
Acquire(p, f) == holder[f] = NoOne /\ holder' = [holder EXCEPT ![f] = p]

\* As Release, without giving back the lock of the reconciliations.
ReleaseEventsOnly(p) ==
    /\ holder' = [f \in Locks |-> IF f = "events" /\ holder[f] = p THEN NoOne ELSE holder[f]]
    /\ call' = [call EXCEPT ![p] = Idle]

\* The call ends, normally or not: every lock of it is released.
Release(p) ==
    /\ holder' = [f \in Locks |-> IF holder[f] = p THEN NoOne ELSE holder[f]]
    /\ call' = [call EXCEPT ![p] = Idle]

-----------------------------------------------------------------------------
(* record(event)                                                           *)

Record(p, e) ==
    /\ call[p] = Idle
    /\ call' = [call EXCEPT ![p] = [step |-> "lock", event |-> e, copied |-> <<>>]]
    /\ UNCHANGED <<files, holder, told>>

LockToRecord(p) ==
    /\ At(p, "lock")
    /\ Acquire(p, "events")
    /\ Goto(p, "check")
    /\ UNCHANGED <<files, told>>

\* As CheckDuplicate, comparing whole events.
CheckSameEvent(p) ==
    /\ At(p, "check")
    /\ IF call[p].event \in Lines(events)
       THEN Release(p)
       ELSE Goto(p, "copy") /\ UNCHANGED holder
    /\ UNCHANGED <<files, told>>

\* An event of the same id refuses this one.
CheckDuplicate(p) ==
    /\ At(p, "check")
    /\ IF call[p].event.id \in Ids(events)
       THEN Release(p)
       ELSE Goto(p, "copy") /\ UNCHANGED holder
    /\ UNCHANGED <<files, told>>

CopyEvents(p) ==
    /\ At(p, "copy")
    /\ call' = [call EXCEPT ![p] = [@ EXCEPT !.step = "replace", !.copied = events]]
    /\ UNCHANGED <<files, holder, told>>

ReplaceEvents(p) ==
    /\ At(p, "replace")
    /\ events' = Append(call[p].copied, call[p].event)
    /\ call' = [call EXCEPT ![p] = [@ EXCEPT !.step = "readBack", !.copied = <<>>]]
    /\ UNCHANGED <<records, holder, told>>

\* The caller is told the event is recorded when the file holds it.
ReadBack(p) ==
    /\ At(p, "readBack")
    /\ told' = IF call[p].event \in Lines(events) THEN told \cup {call[p].event} ELSE told
    /\ Release(p)
    /\ UNCHANGED files

-----------------------------------------------------------------------------
(* reconcile_pr(task, run, pr, quality)                                    *)

Reconcile(p, run, label) ==
    /\ call[p] = Idle
    /\ call' = [call EXCEPT ![p] = [step |-> "lockEvents", run |-> run, label |-> label,
                                    usage |-> {}, copied |-> <<>>]]
    /\ UNCHANGED <<files, holder, told>>

LockEventsToReconcile(p) ==
    /\ At(p, "lockEvents")
    /\ Acquire(p, "events")
    /\ Goto(p, "lockRecords")
    /\ UNCHANGED <<files, told>>

LockRecords(p) ==
    /\ At(p, "lockRecords")
    /\ Acquire(p, "records")
    /\ Goto(p, "match")
    /\ UNCHANGED <<files, told>>

\* As Match, where only a reconciliation with the same pull request counts.
MatchSamePr(p) ==
    /\ At(p, "match")
    /\ IF \E r \in Lines(records) : r.run = call[p].run /\ r.label = call[p].label
       THEN Release(p)
       ELSE Goto(p, "summarize") /\ UNCHANGED holder
    /\ UNCHANGED <<files, told>>

\* A reconciliation of the task run is returned when it is of the same pull
\* request and quality and refuses the call when it is not; either way the
\* call ends.
Match(p) ==
    /\ At(p, "match")
    /\ IF \E r \in Lines(records) : r.run = call[p].run
       THEN Release(p)
       ELSE Goto(p, "summarize") /\ UNCHANGED holder
    /\ UNCHANGED <<files, told>>

\* _record_reconciliation, up to the append: no event of the run is an error.
SummarizeRun(p) ==
    /\ At(p, "summarize")
    /\ IF Mine(events, call[p].run) = {}
       THEN Release(p)
       ELSE /\ call' = [call EXCEPT ![p] = [@ EXCEPT !.step = "append", !.copied = records,
                                                    !.usage = Digest(events, call[p].run)]]
            /\ UNCHANGED holder
    /\ UNCHANGED <<files, told>>

ReplaceRecords(p) ==
    /\ At(p, "append")
    /\ records' = Append(call[p].copied, [run |-> call[p].run, label |-> call[p].label,
                                          usage |-> call[p].usage])
    /\ Release(p)
    /\ UNCHANGED <<events, told>>

-----------------------------------------------------------------------------
\* A process is killed, or an operation on a file fails: also after the
\* replacement, whose directory fsync may raise with the line in place.
Abort(p) ==
    /\ call[p] # Idle
    /\ Release(p)
    /\ UNCHANGED <<files, told>>

Take(p) == LockToRecord(p) \/ LockEventsToReconcile(p) \/ LockRecords(p)

Work(p) ==
    \/ CheckDuplicate(p) \/ CopyEvents(p) \/ ReplaceEvents(p) \/ ReadBack(p)
    \/ Match(p) \/ SummarizeRun(p) \/ ReplaceRecords(p)

Begin(p) ==
    \/ \E e \in Events : Record(p, e)
    \/ \E run \in Runs, label \in Labels : Reconcile(p, run, label)

Next == \E p \in Procs : Begin(p) \/ Take(p) \/ Work(p) \/ Abort(p)

\* A process that runs goes on; flock serves its waiters in turn.
Fairness == \A p \in Procs : WF_vars(Work(p)) /\ SF_vars(Take(p))

Spec == Init /\ [][Next]_vars /\ Fairness

-----------------------------------------------------------------------------
ReconciledOnce == \A i, j \in DOMAIN records : records[i].run = records[j].run => i = j

SummarizesTheLog ==
    \A r \in Lines(records) : \E n \in DOMAIN events : r.usage = Digest(SubSeq(events, 1, n), r.run)

BreakdownAddsUp ==
    \A r \in Lines(records) :
        LET totals == [g \in DOMAIN r.usage.by |-> r.usage.by[g].total]
        IN  r.usage.all.total = SumOver(totals, DOMAIN totals)

\* A reconciliation accounts for its run's events as they stood at some line
\* of the log, exactly once each: the total is theirs, and the breakdown by
\* role and effort splits it without loss or overlap. No task run has two
\* (reconcile_pr, _record_reconciliation, aggregate_role_effort).
ReconciledOnceAndInFull == ReconciledOnce /\ SummarizesTheLog /\ BreakdownAddsUp

\* The store is one log to its callers: an id enters it once, one caller is
\* told, nothing that was told is ever lost, and a reconciliation summarizes
\* the whole log of the moment it is written (record under the events' lock,
\* reconcile_pr under both).
Log == INSTANCE EventLog WITH log <- events, sums <- Lines(records)
ImplementsEventLog == Log!Spec

\* Every call returns or fails: the locks are taken in one order and given
\* back on every path (_exclusive_lock, _release_lock).
EveryCallEnds == \A p \in Procs : call[p] # Idle ~> call[p] = Idle

=============================================================================
