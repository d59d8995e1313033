-------------------------- MODULE SpawnTelemetryProofs --------------------------
(***************************************************************************)
(* Proofs about SpawnTelemetry, for any number of processes and events:    *)
(* types and lock ownership, that the store implements the EventLog its    *)
(* callers see, and that what a reconciliation says of its run is right    *)
(* and adds up.                                                            *)
(***************************************************************************)
EXTENDS SpawnTelemetry, SequenceTheorems, FiniteSetTheorems, TLAPS

RecordCall(c) ==
    /\ c = [step |-> c.step, event |-> c.event, copied |-> c.copied]
    /\ c.step \in RecordSteps /\ c.event \in Events /\ Lines(c.copied) \subseteq Events

ReconcileCall(c) ==
    /\ c = [step |-> c.step, run |-> c.run, label |-> c.label, usage |-> c.usage,
            copied |-> c.copied]
    /\ c.step \in ReconcileSteps /\ c.run \in Runs /\ c.label \in Labels

IsCall(c) == c = Idle \/ RecordCall(c) \/ ReconcileCall(c)

(* The shapes of the variables.                                             *)
Shaped ==
    /\ call = [p \in Procs |-> call[p]]
    /\ \A p \in Procs : IsCall(call[p])
    /\ events \in Seq(Events)
    /\ records \in Seq(Lines(records))

(* What a call has found out under its locks, and still counts on.          *)
Ready(p) ==
    /\ call[p].step \in {"copy", "replace"} => call[p].event.id \notin Ids(events)
    /\ call[p].step = "replace" => call[p].copied = events
    /\ call[p].step = "readBack" => call[p].event \in Lines(events)
    /\ call[p].step \in {"summarize", "append"} =>
          \A r \in Lines(records) : r.run # call[p].run
    /\ call[p].step = "append" =>
          /\ call[p].copied = records
          /\ Mine(events, call[p].run) # {}
          /\ call[p].usage = Digest(events, call[p].run)

IInv ==
    /\ TypeOK
    /\ Shaped
    /\ \A p \in Procs : Ready(p)

-----------------------------------------------------------------------------
(* The lines of a longer log.                                               *)
LEMMA LinesOfAppend ==
  ASSUME NEW S, NEW log \in Seq(S), NEW x
  PROVE  Lines(Append(log, x)) = Lines(log) \cup {x}
<1>1. /\ DOMAIN Append(log, x) = 1 .. Len(log) + 1 /\ DOMAIN log = 1 .. Len(log)
      /\ \A i \in 1 .. Len(log) : Append(log, x)[i] = log[i]
      /\ Append(log, x)[Len(log) + 1] = x /\ Len(log) \in Nat
  OBVIOUS
<1> QED BY <1>1 DEF Lines

LEMMA IdsOfLines ==
  ASSUME NEW log
  PROVE  Ids(log) = {x.id : x \in Lines(log)}
  BY DEF Ids, Lines

LEMMA LongerLog ==
  ASSUME NEW S, NEW log \in Seq(S), NEW x
  PROVE  Append(log, x) \in Seq(S \cup {x})
<1>1. log \in Seq(S \cup {x})
  OBVIOUS
<1> QED BY <1>1

(* Where the locks are held.                                                *)
LEMMA Locking ==
  /\ Locks = {"events", "records"}
  /\ LockedSteps["events"] = {"check", "copy", "replace", "readBack", "lockRecords", "match",
                              "summarize", "append"}
  /\ LockedSteps["records"] = {"match", "summarize", "append"}
  BY DEF Locks, LockedSteps

(* No other process is past the locks of one that is.                       *)
LEMMA Exclusion ==
  ASSUME TypeOK, NEW p \in Procs, NEW q \in Procs, NEW f \in Locks,
         call[p].step \in LockedSteps[f], call[q].step \in LockedSteps[f]
  PROVE  p = q
  BY DEF TypeOK

(* What a step of p to the call c leaves of the calls of others.            *)
LEMMA OthersReady ==
  ASSUME IInv, NEW p \in Procs, NEW q \in Procs \ {p}, call'[q] = call[q],
         \/ UNCHANGED files
         \/ call[p].step = "replace" /\ records' = records
         \/ call[p].step = "append" /\ events' = events
  PROVE  Ready(q)'
<1>1. Ready(q)
  BY DEF IInv
<1>2. CASE UNCHANGED files
  BY <1>1, <1>2 DEF Ready, files
<1>3. CASE call[p].step = "replace" \/ call[p].step = "append"
  <2>1. call[q].step \notin LockedSteps["events"]
    BY <1>3, Exclusion, Locking DEF IInv
  <2> QED BY <2>1, Locking DEF Ready
<1> QED BY <1>2, <1>3

(* The locks of p in step with its call, those of others as they were.      *)
LockRule(p, c) ==
    /\ holder' \in [Locks -> Procs \cup {NoOne}]
    /\ \A f \in Locks :
          /\ \A q \in Procs \ {p} : (holder'[f] = q) <=> (holder[f] = q)
          /\ holder'[f] = p => c # Idle
          /\ c.step \in LockedSteps[f] => holder'[f] = p

(* The invariant after a step of p, from what p itself has to show.         *)
LEMMA Assembled ==
  ASSUME IInv, NEW p \in Procs, NEW c, call' = [call EXCEPT ![p] = c], IsCall(c),
         LockRule(p, c), told' \subseteq Events,
         events' \in Seq(Events), records' \in Seq(Lines(records')),
         \A r \in Lines(records') : r.run \in Runs /\ r.label \in Labels,
         \/ UNCHANGED files
         \/ call[p].step = "replace" /\ records' = records
         \/ call[p].step = "append" /\ events' = events,
         Ready(p)'
  PROVE  IInv'
<1>1. /\ call = [q \in Procs |-> call[q]] /\ \A q \in Procs : IsCall(call[q])
      /\ TypeOK
  BY DEF IInv, Shaped
<1>2. call'[p] = c /\ \A q \in Procs \ {p} : call'[q] = call[q]
  BY <1>1
<1>3. call' = [q \in Procs |-> call'[q]]
  BY <1>1
<1>4. \A q \in Procs : IsCall(call'[q])
  BY <1>1, <1>2
<1>5. Shaped'
  BY <1>3, <1>4 DEF Shaped, IsCall, RecordCall, ReconcileCall
<1>6. \A q \in Procs : Ready(q)'
  BY <1>2, OthersReady
<1>7. Lines(events') \subseteq Events
  BY DEF Lines
<1>8. \A q \in Procs, f \in Locks :
         /\ holder'[f] = q => call'[q] # Idle
         /\ call'[q].step \in LockedSteps[f] => holder'[f] = q
  BY <1>1, <1>2 DEF LockRule, TypeOK
<1>9. TypeOK'
  BY <1>4, <1>7, <1>8 DEF TypeOK, LockRule, IsCall, RecordCall, ReconcileCall
<1> QED BY <1>5, <1>6, <1>9 DEF IInv

(* A step of p that leaves the files alone.                                 *)
LEMMA QuietStep ==
  ASSUME IInv, NEW p \in Procs, NEW c, call' = [call EXCEPT ![p] = c], IsCall(c),
         LockRule(p, c), UNCHANGED <<files, told>>, Ready(p)'
  PROVE  IInv'
<1>1. /\ events' = events /\ records' = records /\ told' = told
      /\ events \in Seq(Events) /\ records \in Seq(Lines(records)) /\ told \subseteq Events
      /\ \A r \in Lines(records) : r.run \in Runs /\ r.label \in Labels
  BY DEF IInv, Shaped, TypeOK, files
<1> QED BY <1>1, Assembled DEF files

-----------------------------------------------------------------------------
(* The locks and the steps of a call.                                       *)
LEMMA IdleIsIdle == Idle.step = "idle" /\ IsCall(Idle)
  BY DEF Idle, IsCall

(* A call that is neither idle nor at a step of the wrong kind.             *)
LEMMA CallKinds ==
  ASSUME IInv, NEW p \in Procs
  PROVE  /\ call[p] # Idle <=> call[p].step # "idle"
         /\ call[p].step \in RecordSteps => RecordCall(call[p])
         /\ call[p].step \in ReconcileSteps => ReconcileCall(call[p])
  BY DEF IInv, Shaped, IsCall, Idle, RecordCall, ReconcileCall, RecordSteps, ReconcileSteps

(* Several fields at once.                                                  *)
LEMMA RecordCallTo ==
  ASSUME NEW c, RecordCall(c), NEW step, NEW log
  PROVE  [c EXCEPT !.step = step, !.copied = log]
         = [step |-> step, event |-> c.event, copied |-> log]
<1> DEFINE d == [c EXCEPT !.step = step]
<1>1. [c EXCEPT !.step = step, !.copied = log] = [d EXCEPT !.copied = log]
  OBVIOUS
<1>2. d = [step |-> step, event |-> c.event, copied |-> c.copied]
  BY DEF RecordCall
<1> HIDE DEF d
<1>3. [d EXCEPT !.copied = log] = [step |-> step, event |-> c.event, copied |-> log]
  BY <1>2
<1> QED BY <1>1, <1>3

LEMMA ReconcileCallTo ==
  ASSUME NEW c, ReconcileCall(c), NEW step, NEW log, NEW u
  PROVE  [c EXCEPT !.step = step, !.copied = log, !.usage = u]
         = [step |-> step, run |-> c.run, label |-> c.label, usage |-> u, copied |-> log]
<1> DEFINE d == [c EXCEPT !.step = step]
           e == [d EXCEPT !.copied = log]
<1>1. [c EXCEPT !.step = step, !.copied = log, !.usage = u] = [e EXCEPT !.usage = u]
  OBVIOUS
<1>2. d = [step |-> step, run |-> c.run, label |-> c.label, usage |-> c.usage,
           copied |-> c.copied]
  BY DEF ReconcileCall
<1> HIDE DEF d
<1>3. e = [step |-> step, run |-> c.run, label |-> c.label, usage |-> c.usage, copied |-> log]
  BY <1>2
<1> HIDE DEF e
<1>4. [e EXCEPT !.usage = u]
      = [step |-> step, run |-> c.run, label |-> c.label, usage |-> u, copied |-> log]
  BY <1>3
<1> QED BY <1>1, <1>4

(* A call at its next step.                                                 *)
LEMMA Going ==
  ASSUME IInv, NEW p \in Procs, NEW step, Goto(p, step),
         \/ call[p].step \in RecordSteps /\ step \in RecordSteps
         \/ call[p].step \in ReconcileSteps /\ step \in ReconcileSteps
  PROVE  \E c : /\ call' = [call EXCEPT ![p] = c] /\ IsCall(c) /\ c.step = step
                /\ call'[p] = c /\ c # Idle
                /\ RecordCall(call[p]) => c.event = call[p].event /\ c.copied = call[p].copied
                /\ ReconcileCall(call[p]) => c.run = call[p].run /\ c.label = call[p].label
<1> DEFINE c == [call[p] EXCEPT !.step = step]
<1>1. call = [q \in Procs |-> call[q]]
  BY DEF IInv, Shaped
<1>2. call' = [call EXCEPT ![p] = c] /\ call'[p] = c
  BY <1>1 DEF Goto
<1>3. CASE call[p].step \in RecordSteps /\ step \in RecordSteps
  <2>1. RecordCall(call[p]) /\ ~ReconcileCall(call[p])
    BY <1>3, CallKinds DEF RecordSteps, ReconcileSteps, ReconcileCall
  <2>2. c = [step |-> step, event |-> call[p].event, copied |-> call[p].copied]
    BY <2>1 DEF RecordCall
  <2>3. c.step = step /\ c.event = call[p].event /\ c.copied = call[p].copied
    BY <2>2
  <2> HIDE DEF c
  <2>4. RecordCall(c)
    BY <1>3, <2>1, <2>2, <2>3 DEF RecordCall
  <2>5. c # Idle
    BY <1>3, <2>3, IdleIsIdle DEF RecordSteps
  <2> QED BY <1>2, <2>1, <2>3, <2>4, <2>5 DEF IsCall
<1>4. CASE call[p].step \in ReconcileSteps /\ step \in ReconcileSteps
  <2>1. ReconcileCall(call[p]) /\ ~RecordCall(call[p])
    BY <1>4, CallKinds DEF RecordSteps, ReconcileSteps, RecordCall
  <2>2. c = [step |-> step, run |-> call[p].run, label |-> call[p].label,
             usage |-> call[p].usage, copied |-> call[p].copied]
    BY <2>1 DEF ReconcileCall
  <2>3. /\ c.step = step /\ c.run = call[p].run /\ c.label = call[p].label
        /\ c.usage = call[p].usage /\ c.copied = call[p].copied
    BY <2>2
  <2> HIDE DEF c
  <2>4. ReconcileCall(c)
    BY <1>4, <2>1, <2>2, <2>3 DEF ReconcileCall
  <2>5. c # Idle
    BY <1>4, <2>3, IdleIsIdle DEF ReconcileSteps
  <2> QED BY <1>2, <2>1, <2>3, <2>4, <2>5 DEF IsCall
<1> QED BY <1>3, <1>4

(* Releasing keeps the locks of others.                                     *)
LEMMA Releasing ==
  ASSUME IInv, NEW p \in Procs, Release(p)
  PROVE  /\ call' = [call EXCEPT ![p] = Idle] /\ LockRule(p, Idle) /\ Ready(p)'
<1>1. call' = [call EXCEPT ![p] = Idle] /\ call'[p] = Idle
  BY DEF Release, IInv, Shaped
<1>2. holder \in [Locks -> Procs \cup {NoOne}]
  BY DEF IInv, TypeOK
<1>3. LockRule(p, Idle)
  BY <1>2, IdleIsIdle, Locking, NoOneIsNobody DEF Release, LockRule
<1>4. Ready(p)'
  BY <1>1, IdleIsIdle DEF Ready
<1> QED BY <1>1, <1>3, <1>4

(* Acquiring does too.                                                      *)
LEMMA Acquiring ==
  ASSUME IInv, NEW p \in Procs, NEW f \in Locks, Acquire(p, f), NEW c, c # Idle,
         \A g \in Locks : c.step \in LockedSteps[g] => g = f \/ call[p].step \in LockedSteps[g]
  PROVE  LockRule(p, c)
  BY NoOneIsNobody DEF Acquire, LockRule, IInv, TypeOK

(* And so does a step that takes no lock and needs no more than it has.     *)
LEMMA Keeping ==
  ASSUME IInv, NEW p \in Procs, UNCHANGED holder, NEW c, c # Idle,
         \A g \in Locks : c.step \in LockedSteps[g] => call[p].step \in LockedSteps[g]
  PROVE  LockRule(p, c)
  BY DEF LockRule, IInv, TypeOK

-----------------------------------------------------------------------------
(* The actions. A call that ends with the files as they were:               *)
LEMMA EndStep ==
  ASSUME IInv, NEW p \in Procs, Release(p), UNCHANGED <<files, told>>
  PROVE  IInv'
  BY Releasing, IdleIsIdle, QuietStep

(* one that begins:                                                         *)
LEMMA BeginStep ==
  ASSUME IInv, NEW p \in Procs, Begin(p)
  PROVE  IInv'
<1>1. call = [q \in Procs |-> call[q]]
  BY DEF IInv, Shaped
<1>2. ASSUME NEW c, IsCall(c), c # Idle, c.step \in {"lock", "lockEvents"},
             call' = [call EXCEPT ![p] = c], UNCHANGED <<files, holder, told>>
      PROVE  IInv'
  <2>1. LockRule(p, c)
    BY <1>2, Keeping, Locking
  <2>2. Ready(p)'
    BY <1>1, <1>2 DEF Ready
  <2> QED BY <1>2, <2>1, <2>2, QuietStep
<1>3. ASSUME NEW e \in Events, Record(p, e) PROVE IInv'
  <2> DEFINE c == [step |-> "lock", event |-> e, copied |-> <<>>]
  <2>1. RecordCall(c) /\ c # Idle /\ c.step = "lock"
    BY DEF RecordCall, RecordSteps, Lines, Idle
  <2> QED BY <1>2, <1>3, <2>1 DEF Record, IsCall
<1>4. ASSUME NEW run \in Runs, NEW label \in Labels, Reconcile(p, run, label) PROVE IInv'
  <2> DEFINE c == [step |-> "lockEvents", run |-> run, label |-> label, usage |-> {},
                   copied |-> <<>>]
  <2>1. ReconcileCall(c) /\ c # Idle /\ c.step = "lockEvents"
    BY DEF ReconcileCall, ReconcileSteps, Idle
  <2> QED BY <1>2, <1>4, <2>1 DEF Reconcile, IsCall
<1> QED BY <1>3, <1>4 DEF Begin

(* one that takes a lock:                                                   *)
LEMMA TakeStep ==
  ASSUME IInv, NEW p \in Procs, Take(p)
  PROVE  IInv'
<1>1. CASE LockToRecord(p)
  <2>1. call[p].step = "lock" /\ Goto(p, "check") /\ Acquire(p, "events")
        /\ UNCHANGED <<files, told>>
    BY <1>1 DEF LockToRecord, At
  <2>2. PICK c : call' = [call EXCEPT ![p] = c] /\ IsCall(c) /\ c.step = "check"
                 /\ call'[p] = c /\ c # Idle
    BY <2>1, Going DEF RecordSteps
  <2>3. LockRule(p, c)
    BY <2>1, <2>2, Acquiring, Locking
  <2>4. Ready(p)'
    BY <2>2 DEF Ready
  <2> QED BY <2>1, <2>2, <2>3, <2>4, QuietStep
<1>2. CASE LockEventsToReconcile(p)
  <2>1. call[p].step = "lockEvents" /\ Goto(p, "lockRecords") /\ Acquire(p, "events")
        /\ UNCHANGED <<files, told>>
    BY <1>2 DEF LockEventsToReconcile, At
  <2>2. PICK c : call' = [call EXCEPT ![p] = c] /\ IsCall(c) /\ c.step = "lockRecords"
                 /\ call'[p] = c /\ c # Idle
    BY <2>1, Going DEF ReconcileSteps
  <2>3. LockRule(p, c)
    BY <2>1, <2>2, Acquiring, Locking
  <2>4. Ready(p)'
    BY <2>2 DEF Ready
  <2> QED BY <2>1, <2>2, <2>3, <2>4, QuietStep
<1>3. CASE LockRecords(p)
  <2>1. call[p].step = "lockRecords" /\ Goto(p, "match") /\ Acquire(p, "records")
        /\ UNCHANGED <<files, told>>
    BY <1>3 DEF LockRecords, At
  <2>2. PICK c : call' = [call EXCEPT ![p] = c] /\ IsCall(c) /\ c.step = "match"
                 /\ call'[p] = c /\ c # Idle
    BY <2>1, Going DEF ReconcileSteps
  <2>3. LockRule(p, c)
    BY <2>1, <2>2, Acquiring, Locking
  <2>4. Ready(p)'
    BY <2>2 DEF Ready
  <2> QED BY <2>1, <2>2, <2>3, <2>4, QuietStep
<1> QED BY <1>1, <1>2, <1>3 DEF Take

(* and those that work under the locks.                                     *)
LEMMA CheckDuplicateStep ==
  ASSUME IInv, NEW p \in Procs, CheckDuplicate(p)
  PROVE  IInv'
<1>1. CASE call[p].event.id \in Ids(events)
  BY <1>1, EndStep DEF CheckDuplicate
<1>2. CASE call[p].event.id \notin Ids(events)
  <2>1. call[p].step = "check" /\ Goto(p, "copy") /\ UNCHANGED <<files, holder, told>>
        /\ events' = events
    BY <1>2 DEF CheckDuplicate, At, files
  <2>2. RecordCall(call[p])
    BY <2>1, CallKinds DEF RecordSteps
  <2>3. PICK c : call' = [call EXCEPT ![p] = c] /\ IsCall(c) /\ c.step = "copy"
                 /\ call'[p] = c /\ c # Idle /\ c.event = call[p].event
    BY <2>1, <2>2, Going DEF RecordSteps
  <2>4. LockRule(p, c)
    BY <2>1, <2>3, Keeping, Locking
  <2>5. Ready(p)'
    BY <1>2, <2>1, <2>3 DEF Ready
  <2> QED BY <2>1, <2>3, <2>4, <2>5, QuietStep
<1> QED BY <1>1, <1>2

LEMMA CopyEventsStep ==
  ASSUME IInv, NEW p \in Procs, CopyEvents(p)
  PROVE  IInv'
<1> DEFINE c == [step |-> "replace", event |-> call[p].event, copied |-> events]
<1>1. /\ call[p].step = "copy" /\ call' = [call EXCEPT ![p] = [@ EXCEPT !.step = "replace", !.copied = events]]
      /\ UNCHANGED <<files, holder, told>> /\ events' = events
      /\ call = [q \in Procs |-> call[q]]
  BY DEF CopyEvents, At, files, IInv, Shaped
<1>2. RecordCall(call[p])
  BY <1>1, CallKinds DEF RecordSteps
<1>3. call' = [call EXCEPT ![p] = c]
  <2>1. [call[p] EXCEPT !.step = "replace", !.copied = events] = c
    BY <1>2, RecordCallTo
  <2> QED BY <1>1, <2>1
<1>4. c.step = "replace" /\ c.event = call[p].event /\ c.copied = events
  OBVIOUS
<1>5. RecordCall(c) /\ c # Idle
  BY <1>2, IdleIsIdle DEF RecordCall, RecordSteps, IInv, TypeOK
<1> HIDE DEF c
<1>6. call'[p] = c
  BY <1>1, <1>3
<1>7. LockRule(p, c)
  BY <1>1, <1>4, <1>5, Keeping, Locking
<1>8. Ready(p)'
  BY <1>1, <1>4, <1>6 DEF Ready, IInv
<1> QED BY <1>1, <1>3, <1>5, <1>7, <1>8, QuietStep DEF IsCall

LEMMA ReplaceEventsStep ==
  ASSUME IInv, NEW p \in Procs, ReplaceEvents(p)
  PROVE  IInv'
<1> DEFINE c == [step |-> "readBack", event |-> call[p].event, copied |-> <<>>]
<1>1. /\ call[p].step = "replace"
      /\ call' = [call EXCEPT ![p] = [@ EXCEPT !.step = "readBack", !.copied = <<>>]]
      /\ UNCHANGED <<records, holder, told>> /\ call = [q \in Procs |-> call[q]]
      /\ records \in Seq(Lines(records)) /\ events \in Seq(Events) /\ told \subseteq Events
      /\ \A r \in Lines(records) : r.run \in Runs /\ r.label \in Labels
  BY DEF ReplaceEvents, At, IInv, Shaped, TypeOK
<1>2. RecordCall(call[p])
  BY <1>1, CallKinds DEF RecordSteps
<1>3. events' = Append(events, call[p].event) /\ call[p].event \in Events
  BY <1>1, <1>2 DEF ReplaceEvents, IInv, Ready, RecordCall
<1>4. call' = [call EXCEPT ![p] = c]
  <2>1. [call[p] EXCEPT !.step = "readBack", !.copied = <<>>] = c
    BY <1>2, RecordCallTo
  <2> QED BY <1>1, <2>1
<1>5. c.step = "readBack" /\ c.event = call[p].event /\ Lines(c.copied) \subseteq Events
  BY DEF Lines
<1>6. RecordCall(c) /\ c # Idle
  BY <1>2, <1>5, IdleIsIdle DEF RecordCall, RecordSteps
<1> HIDE DEF c
<1>7. call'[p] = c
  BY <1>1, <1>4
<1>8. LockRule(p, c)
  BY <1>1, <1>5, <1>6, Keeping, Locking
<1>9. Lines(events') = Lines(events) \cup {call[p].event} /\ events' \in Seq(Events)
  BY <1>1, <1>3, LinesOfAppend
<1>10. Ready(p)'
  BY <1>5, <1>7, <1>9 DEF Ready
<1> QED BY <1>1, <1>4, <1>6, <1>8, <1>9, <1>10, Assembled DEF IsCall

LEMMA ReadBackStep ==
  ASSUME IInv, NEW p \in Procs, ReadBack(p)
  PROVE  IInv'
<1>1. /\ call[p].step = "readBack" /\ Release(p) /\ UNCHANGED files
      /\ events \in Seq(Events) /\ records \in Seq(Lines(records))
      /\ \A r \in Lines(records) : r.run \in Runs /\ r.label \in Labels
      /\ told' \in {told, told \cup {call[p].event}} /\ told \subseteq Events
  BY DEF ReadBack, At, IInv, TypeOK, Shaped
<1>2. call[p].event \in Events
  BY <1>1, CallKinds DEF RecordSteps, RecordCall
<1>3. events' = events /\ records' = records
  BY <1>1 DEF files
<1> QED BY <1>1, <1>2, <1>3, Releasing, IdleIsIdle, Assembled

LEMMA MatchStep ==
  ASSUME IInv, NEW p \in Procs, Match(p)
  PROVE  IInv'
<1>1. CASE \E r \in Lines(records) : r.run = call[p].run
  BY <1>1, EndStep DEF Match
<1>2. CASE \A r \in Lines(records) : r.run # call[p].run
  <2>1. call[p].step = "match" /\ Goto(p, "summarize") /\ UNCHANGED <<files, holder, told>>
        /\ records' = records
    BY <1>2 DEF Match, At, files
  <2>2. ReconcileCall(call[p])
    BY <2>1, CallKinds DEF ReconcileSteps
  <2>3. PICK c : call' = [call EXCEPT ![p] = c] /\ IsCall(c) /\ c.step = "summarize"
                 /\ call'[p] = c /\ c # Idle /\ c.run = call[p].run
    BY <2>1, <2>2, Going DEF ReconcileSteps
  <2>4. LockRule(p, c)
    BY <2>1, <2>3, Keeping, Locking
  <2>5. Ready(p)'
    BY <1>2, <2>1, <2>3 DEF Ready
  <2> QED BY <2>1, <2>3, <2>4, <2>5, QuietStep
<1> QED BY <1>1, <1>2

LEMMA SummarizeRunStep ==
  ASSUME IInv, NEW p \in Procs, SummarizeRun(p)
  PROVE  IInv'
<1>1. CASE Mine(events, call[p].run) = {}
  BY <1>1, EndStep DEF SummarizeRun
<1>2. CASE Mine(events, call[p].run) # {}
  <2> DEFINE u == Digest(events, call[p].run)
             c == [step |-> "append", run |-> call[p].run, label |-> call[p].label,
                   usage |-> u, copied |-> records]
  <2>1. /\ call[p].step = "summarize"
        /\ call' = [call EXCEPT ![p] = [@ EXCEPT !.step = "append", !.copied = records,
                                                    !.usage = u]]
        /\ UNCHANGED <<files, holder, told>> /\ events' = events /\ records' = records
        /\ call = [q \in Procs |-> call[q]]
    BY <1>2 DEF SummarizeRun, At, files, IInv, Shaped
  <2> HIDE DEF u
  <2>2. ReconcileCall(call[p])
    BY <2>1, CallKinds DEF ReconcileSteps
  <2>3. call' = [call EXCEPT ![p] = c]
    <3>1. [call[p] EXCEPT !.step = "append", !.copied = records, !.usage = u] = c
      BY <2>2, ReconcileCallTo
    <3> QED BY <2>1, <3>1
  <2>4. c.step = "append" /\ c.run = call[p].run /\ c.usage = u /\ c.copied = records
    OBVIOUS
  <2>5. ReconcileCall(c) /\ c # Idle
    BY <2>2, IdleIsIdle DEF ReconcileCall, ReconcileSteps
  <2> HIDE DEF c
  <2>6. call'[p] = c
    BY <2>1, <2>3
  <2>7. LockRule(p, c)
    BY <2>1, <2>4, <2>5, Keeping, Locking
  <2>8. Mine(events', c.run) # {} /\ c.usage = Digest(events', c.run)
    BY <1>2, <2>1, <2>4 DEF u
  <2>9. Ready(p)'
    BY <2>1, <2>4, <2>6, <2>8 DEF Ready, IInv
  <2> QED BY <2>1, <2>3, <2>5, <2>7, <2>9, QuietStep DEF IsCall
<1> QED BY <1>1, <1>2

LEMMA ReplaceRecordsStep ==
  ASSUME IInv, NEW p \in Procs, ReplaceRecords(p)
  PROVE  IInv'
<1> DEFINE r == [run |-> call[p].run, label |-> call[p].label, usage |-> call[p].usage]
<1>1. /\ call[p].step = "append" /\ Release(p) /\ UNCHANGED <<events, told>>
      /\ events \in Seq(Events) /\ records \in Seq(Lines(records)) /\ told \subseteq Events
      /\ \A l \in Lines(records) : l.run \in Runs /\ l.label \in Labels
      /\ records' = Append(records, r)
  BY DEF ReplaceRecords, At, IInv, TypeOK, Shaped, Ready
<1>2. r.run \in Runs /\ r.label \in Labels
  BY <1>1, CallKinds DEF ReconcileSteps, ReconcileCall
<1> HIDE DEF r
<1>3. Lines(records') = Lines(records) \cup {r} /\ records' \in Seq(Lines(records'))
  BY <1>1, LinesOfAppend, LongerLog
<1> QED BY <1>1, <1>2, <1>3, Releasing, IdleIsIdle, Assembled

-----------------------------------------------------------------------------
(* The invariant is inductive.                                              *)
LEMMA InitIInv == Init => IInv
<1> SUFFICES ASSUME Init PROVE IInv
  OBVIOUS
<1>1. /\ call = [p \in Procs |-> Idle] /\ events = <<>> /\ records = <<>> /\ told = {}
      /\ holder = [f \in Locks |-> NoOne]
  BY DEF Init
<1>2. Lines(events) = {} /\ Lines(records) = {} /\ events \in Seq(Events)
      /\ records \in Seq(Lines(records))
  BY <1>1 DEF Lines
<1>3. TypeOK
  BY <1>1, <1>2, IdleIsIdle, Locking, NoOneIsNobody DEF TypeOK
<1>4. Shaped
  BY <1>1, <1>2, IdleIsIdle DEF Shaped
<1>5. \A p \in Procs : Ready(p)
  BY <1>1, IdleIsIdle DEF Ready
<1> QED BY <1>3, <1>4, <1>5 DEF IInv

LEMMA NextIInv == IInv /\ [Next]_vars => IInv'
<1>1. ASSUME IInv, NEW p \in Procs, Work(p) PROVE IInv'
  BY <1>1, CheckDuplicateStep, CopyEventsStep, ReplaceEventsStep, ReadBackStep, MatchStep,
     SummarizeRunStep, ReplaceRecordsStep DEF Work
<1>2. ASSUME IInv, NEW p \in Procs, Abort(p) PROVE IInv'
  BY <1>2, EndStep DEF Abort
<1>3. ASSUME IInv, UNCHANGED vars PROVE IInv'
  BY <1>3 DEF vars, IInv, TypeOK, Shaped, Ready
<1> QED BY <1>1, <1>2, <1>3, BeginStep, TakeStep DEF Next

(* The invariant of every behaviour.                                        *)
THEOREM Invariance == Spec => []IInv
  BY InitIInv, NextIInv, PTL DEF Spec

(* The types, and who holds the locks: see TypeOK.                          *)
THEOREM TypeCorrect == Spec => []TypeOK
<1>1. IInv => TypeOK
  BY DEF IInv
<1> QED BY <1>1, Invariance, PTL

-----------------------------------------------------------------------------
(* What becomes of the two files in a step.                                 *)
LEMMA FileSteps ==
  ASSUME IInv, Next
  PROVE  \/ UNCHANGED files
         \/ \E p \in Procs : ReplaceEvents(p)
         \/ \E p \in Procs : ReplaceRecords(p)
  BY DEF Next, Begin, Take, Work, Abort, Record, Reconcile, LockToRecord, LockEventsToReconcile,
         LockRecords, CheckDuplicate, CopyEvents, ReadBack, Match, SummarizeRun

LEMMA EventAdded ==
  ASSUME IInv, NEW p \in Procs, ReplaceEvents(p)
  PROVE  /\ call[p].event \in Events /\ call[p].event.id \notin Ids(events)
         /\ events' = Append(events, call[p].event) /\ UNCHANGED <<records, told>>
<1>1. call[p].step = "replace" /\ Ready(p)
  BY DEF ReplaceEvents, At, IInv
<1>2. call[p].event \in Events
  BY <1>1, CallKinds DEF RecordSteps, RecordCall
<1> QED BY <1>1, <1>2 DEF ReplaceEvents, Ready

LEMMA RecordAdded ==
  ASSUME IInv, NEW p \in Procs, ReplaceRecords(p)
  PROVE  \E run \in Runs, label \in Labels :
            /\ Mine(events, run) # {}
            /\ \A r \in Lines(records) : r.run # run
            /\ records' = Append(records, [run |-> run, label |-> label,
                                           usage |-> Digest(events, run)])
            /\ UNCHANGED <<events, told>>
<1>1. call[p].step = "append" /\ Ready(p)
  BY DEF ReplaceRecords, At, IInv
<1>2. call[p].run \in Runs /\ call[p].label \in Labels
  BY <1>1, CallKinds DEF ReconcileSteps, ReconcileCall
<1> QED BY <1>1, <1>2 DEF ReplaceRecords, Ready

(* A step of the store is one of the log, or none.                          *)
LEMMA StepImplements ==
  ASSUME IInv, [Next]_vars
  PROVE  [Log!Next]_(Log!vars)
<1> USE DEF Log!vars
<1>1. ASSUME UNCHANGED <<events, records, told>> PROVE UNCHANGED Log!vars
  BY <1>1
<1>2. ASSUME NEW p \in Procs, ReplaceEvents(p) PROVE Log!Next
  <2>1. Log!Add(call[p].event) /\ call[p].event \in Events
    BY <1>2, EventAdded DEF Log!Add, Log!Ids, Ids
  <2> QED BY <2>1 DEF Log!Next
<1>3. ASSUME NEW p \in Procs, ReplaceRecords(p) PROVE Log!Next
  <2>1. PICK run \in Runs, label \in Labels :
            /\ Mine(events, run) # {}
            /\ \A r \in Lines(records) : r.run # run
            /\ records' = Append(records, [run |-> run, label |-> label,
                                           usage |-> Digest(events, run)])
            /\ UNCHANGED <<events, told>>
    BY <1>3, RecordAdded
  <2>2. Lines(records)' = Lines(records)
                          \cup {[run |-> run, label |-> label, usage |-> Digest(events, run)]}
    BY <2>1, LinesOfAppend DEF IInv, Shaped
  <2>3. \E i \in DOMAIN events : events[i].run = run
    BY <2>1 DEF Mine
  <2>4. Log!Summarize(run, label)
    BY <2>1, <2>2, <2>3 DEF Log!Summarize
  <2>5. PICK e \in Events : e.run = run
    BY DEF Runs
  <2> QED BY <2>4, <2>5 DEF Log!Next
<1>4. ASSUME NEW p \in Procs, ReadBack(p) PROVE [Log!Next]_(Log!vars)
  <2>1. call[p].step = "readBack" /\ UNCHANGED <<events, records>> /\ Ready(p)
    BY <1>4 DEF ReadBack, At, files, IInv
  <2>2. call[p].event \in Events /\ call[p].event \in Lines(events)
    BY <2>1, CallKinds DEF RecordSteps, RecordCall, Ready
  <2>3. told' = told \cup {call[p].event}
    BY <1>4, <2>2 DEF ReadBack
  <2>4. CASE call[p].event \in told
    BY <2>1, <2>3, <2>4
  <2>5. CASE call[p].event \notin told
    <3>1. Log!Tell(call[p].event)
      BY <2>1, <2>2, <2>3, <2>5 DEF Log!Tell, Lines
    <3> QED BY <2>2, <3>1 DEF Log!Next
  <2> QED BY <2>4, <2>5
<1>5. CASE UNCHANGED vars
  BY <1>1, <1>5 DEF vars
<1>6. CASE Next
  BY <1>1, <1>2, <1>3, <1>4, <1>6
     DEF Next, Begin, Take, Work, Abort, Record, Reconcile, LockToRecord, LockEventsToReconcile,
         LockRecords, CheckDuplicate, CopyEvents, Match, SummarizeRun, files
<1> QED BY <1>5, <1>6

(* The store is one log to its callers, however its calls interleave, are   *)
(* refused or killed: see ImplementsEventLog.                               *)
THEOREM LogImplemented == Spec => ImplementsEventLog
<1>1. Init => Log!Init
  BY DEF Init, Log!Init, Lines
<1>2. IInv /\ [Next]_vars => [Log!Next]_(Log!vars)
  BY StepImplements
<1> QED BY <1>1, <1>2, Invariance, PTL DEF Spec, ImplementsEventLog, Log!Spec

-----------------------------------------------------------------------------
(* A reconciliation is made once, of the log as it stood.                   *)
LEMMA SummaryKept ==
  ASSUME IInv, ReconciledOnce, SummarizesTheLog, [Next]_vars
  PROVE  ReconciledOnce' /\ SummarizesTheLog'
<1>1. CASE UNCHANGED files
  BY <1>1 DEF files, ReconciledOnce, SummarizesTheLog
<1>2. ASSUME NEW p \in Procs, ReplaceEvents(p) PROVE ReconciledOnce' /\ SummarizesTheLog'
  <2>1. /\ events' = Append(events, call[p].event) /\ records' = records
        /\ events \in Seq(Events) /\ call[p].event \in Events
    BY <1>2, EventAdded DEF IInv, Shaped
  <2>2. /\ DOMAIN events \subseteq DOMAIN events'
        /\ \A n \in DOMAIN events : SubSeq(events', 1, n) = SubSeq(events, 1, n)
    BY <2>1
  <2> QED BY <2>1, <2>2 DEF ReconciledOnce, SummarizesTheLog
<1>3. ASSUME NEW p \in Procs, ReplaceRecords(p) PROVE ReconciledOnce' /\ SummarizesTheLog'
  <2>1. PICK run \in Runs, label \in Labels :
            /\ Mine(events, run) # {}
            /\ \A r \in Lines(records) : r.run # run
            /\ records' = Append(records, [run |-> run, label |-> label,
                                           usage |-> Digest(events, run)])
            /\ UNCHANGED <<events, told>>
    BY <1>3, RecordAdded
  <2> DEFINE new == [run |-> run, label |-> label, usage |-> Digest(events, run)]
  <2>2. new.run = run /\ new.usage = Digest(events, run) /\ records' = Append(records, new)
    BY <2>1
  <2> HIDE DEF new
  <2>3. records \in Seq(Lines(records)) /\ events \in Seq(Events)
    BY DEF IInv, Shaped
  <2>4. ReconciledOnce'
    <3>1. /\ DOMAIN records' = 1 .. Len(records) + 1 /\ DOMAIN records = 1 .. Len(records)
          /\ \A i \in DOMAIN records : records'[i] = records[i] /\ records[i].run # run
          /\ records'[Len(records) + 1] = new /\ Len(records) \in Nat
      BY <2>1, <2>2, <2>3 DEF Lines
    <3> QED BY <2>2, <3>1 DEF ReconciledOnce
  <2>5. Len(events) \in DOMAIN events /\ SubSeq(events, 1, Len(events)) = events
    BY <2>1, <2>3 DEF Mine
  <2>6. Lines(records') = Lines(records) \cup {new}
    BY <2>2, <2>3, LinesOfAppend
  <2>7. \A r \in Lines(records') : \E n \in DOMAIN events :
           r.usage = Digest(SubSeq(events, 1, n), r.run)
    BY <2>2, <2>5, <2>6 DEF SummarizesTheLog
  <2>8. SummarizesTheLog'
    BY <2>1, <2>7 DEF SummarizesTheLog
  <2> QED BY <2>4, <2>8
<1> QED BY <1>1, <1>2, <1>3, FileSteps DEF vars, files

(* No task run is reconciled twice, and what a reconciliation says of its   *)
(* run is what the log said when it had some number of lines: the first two *)
(* parts of ReconciledOnceAndInFull.                                        *)
THEOREM OnceOfTheLog == Spec => [](ReconciledOnce /\ SummarizesTheLog)
<1>1. Init => ReconciledOnce /\ SummarizesTheLog
  BY DEF Init, ReconciledOnce, SummarizesTheLog, Lines
<1>2. IInv /\ (ReconciledOnce /\ SummarizesTheLog) /\ [Next]_vars
      => (ReconciledOnce /\ SummarizesTheLog)'
  BY SummaryKept
<1> QED BY <1>1, <1>2, Invariance, PTL DEF Spec

-----------------------------------------------------------------------------
(* Sums over finite sets. A set of naturals has a least element: what       *)
(* stands for induction here.                                               *)
LEMMA Least ==
  ASSUME NEW T \in SUBSET Nat, T # {}
  PROVE  \E n \in T : \A m \in T : n <= m
<1>1. IsWellFoundedOn(OpToRel(<, Nat), Nat)
  BY NatLessThanWellFounded
<1>2. PICK n \in T : \A m \in T : <<m, n>> \notin OpToRel(<, Nat)
  BY <1>1, WFMin
<1>3. ASSUME NEW m \in T PROVE n <= m
  <2>1. <<m, n>> \in Nat \X Nat /\ <<m, n>>[1] = m /\ <<m, n>>[2] = n
    OBVIOUS
  <2>2. <<m, n>> \notin {ss \in Nat \X Nat : ss[1] < ss[2]}
    BY <1>2 DEF OpToRel
  <2>3. ~(m < n)
    BY <2>1, <2>2
  <2> QED BY <2>3
<1> QED BY <1>3

(* So a family of subsets of a finite set has a member that is no longer in *)
(* the family when it loses any one element.                                *)
LEMMA Smallest ==
  ASSUME NEW S, IsFiniteSet(S), NEW Family \in SUBSET (SUBSET S), Family # {}
  PROVE  \E t \in Family : \A x \in t : t \ {x} \notin Family
<1> DEFINE sizes == {Cardinality(t) : t \in Family}
<1>1. ASSUME NEW t \in Family PROVE IsFiniteSet(t) /\ Cardinality(t) \in Nat
  BY FS_Subset, FS_CardinalityType
<1>2. sizes \in SUBSET Nat /\ sizes # {}
  BY <1>1
<1>3. PICK n \in sizes : \A m \in sizes : n <= m
  <2> HIDE DEF sizes
  <2> QED BY <1>2, Least
<1>4. PICK t \in Family : Cardinality(t) = n
  OBVIOUS
<1>5. ASSUME NEW x \in t, t \ {x} \in Family PROVE FALSE
  <2>1. IsFiniteSet(t) /\ Cardinality(t) \in Nat
    BY <1>1
  <2>2. Cardinality(t \ {x}) = Cardinality(t) - 1
    BY <1>5, <2>1, FS_RemoveElement
  <2>3. Cardinality(t) <= Cardinality(t \ {x})
    BY <1>3, <1>4, <1>5
  <2> QED BY <2>1, <2>2, <2>3
<1> QED BY <1>5

(* g is folded at t: it adds one element of t, always the same, to the rest. *)
First(t) == CHOOSE x \in t : TRUE
FoldedAt(g, f, t) == g[t] = IF t = {} THEN 0 ELSE f[First(t)] + g[t \ {First(t)}]

LEMMA FirstIsMember == \A t : t # {} => First(t) \in t
  BY DEF First

LEMMA FoldExists ==
  ASSUME NEW S, IsFiniteSet(S), NEW f, \A x \in S : f[x] \in Nat
  PROVE  \E g \in [SUBSET S -> Nat] : \A t \in SUBSET S : FoldedAt(g, f, t)
<1> DEFINE UpTo(n) == \E g \in [SUBSET S -> Nat] :
                         \A t \in SUBSET S : Cardinality(t) <= n => FoldedAt(g, f, t)
           off == {n \in Nat : ~UpTo(n)}
<1>1. ASSUME NEW t \in SUBSET S
      PROVE  IsFiniteSet(t) /\ Cardinality(t) \in Nat /\ Cardinality(t) <= Cardinality(S)
  BY FS_Subset, FS_CardinalityType
<1>2. UpTo(0)
  <2> DEFINE g == [t \in SUBSET S |-> 0]
  <2>1. ASSUME NEW t \in SUBSET S, Cardinality(t) <= 0 PROVE FoldedAt(g, f, t)
    <3>1. Cardinality(t) = 0
      BY <1>1, <2>1
    <3>2. t = {}
      BY <1>1, <3>1, FS_EmptySet
    <3> QED BY <3>2 DEF FoldedAt
  <2>2. g \in [SUBSET S -> Nat]
    OBVIOUS
  <2> HIDE DEF g
  <2> QED BY <2>1, <2>2
<1>3. ASSUME NEW n \in Nat, UpTo(n) PROVE UpTo(n + 1)
  <2>1. PICK g \in [SUBSET S -> Nat] :
           \A t \in SUBSET S : Cardinality(t) <= n => FoldedAt(g, f, t)
    BY <1>3
  <2> DEFINE h == [t \in SUBSET S |-> IF t = {} THEN 0 ELSE f[First(t)] + g[t \ {First(t)}]]
  <2>2. h \in [SUBSET S -> Nat]
    <3>1. ASSUME NEW t \in SUBSET S
          PROVE  (IF t = {} THEN 0 ELSE f[First(t)] + g[t \ {First(t)}]) \in Nat
      <4>1. CASE t = {}
        BY <4>1
      <4>2. CASE t # {}
        <5>1. First(t) \in S /\ t \ {First(t)} \in SUBSET S
          BY <4>2, FirstIsMember
        <5>2. f[First(t)] \in Nat /\ g[t \ {First(t)}] \in Nat
          BY <2>1, <5>1
        <5> QED BY <4>2, <5>2
      <4> QED BY <4>1, <4>2
    <3> QED BY <3>1
  <2>3. \A t \in SUBSET S : h[t] = IF t = {} THEN 0 ELSE f[First(t)] + g[t \ {First(t)}]
    OBVIOUS
  <2> HIDE DEF h
  <2>4. ASSUME NEW t \in SUBSET S, Cardinality(t) <= n PROVE h[t] = g[t]
    BY <2>1, <2>3, <2>4 DEF FoldedAt
  <2>5. ASSUME NEW t \in SUBSET S, Cardinality(t) <= n + 1 PROVE FoldedAt(h, f, t)
    <3>1. CASE t = {}
      BY <2>3, <3>1 DEF FoldedAt
    <3>2. CASE t # {}
      <4>1. First(t) \in t /\ t \ {First(t)} \in SUBSET S
        BY <3>2, FirstIsMember
      <4>2. Cardinality(t \ {First(t)}) = Cardinality(t) - 1
        BY <1>1, <4>1, FS_RemoveElement
      <4>3. Cardinality(t \ {First(t)}) <= n
        BY <1>1, <2>5, <4>2
      <4>4. h[t \ {First(t)}] = g[t \ {First(t)}]
        BY <2>4, <4>1, <4>3
      <4> QED BY <2>3, <3>2, <4>4 DEF FoldedAt
    <3> QED BY <3>1, <3>2
  <2> QED BY <2>2, <2>5
<1>4. ASSUME off # {} PROVE FALSE
  <2>1. off \in SUBSET Nat
    OBVIOUS
  <2>2. PICK n \in off : \A m \in off : n <= m
    <3> HIDE DEF off
    <3> QED BY <1>4, <2>1, Least
  <2>3. n \in Nat /\ ~UpTo(n)
    BY <2>2
  <2> HIDE DEF UpTo
  <2>4. n # 0
    BY <1>2, <2>3
  <2>5. n - 1 \in Nat /\ (n - 1) + 1 = n
    BY <2>3, <2>4
  <2>6. n - 1 \notin off
    BY <2>2, <2>3, <2>5
  <2>7. UpTo(n - 1)
    BY <2>5, <2>6
  <2>8. UpTo((n - 1) + 1)
    BY <1>3, <2>5, <2>7
  <2> QED BY <2>3, <2>5, <2>8
<1>5. Cardinality(S) \in Nat
  BY FS_CardinalityType
<1>6. UpTo(Cardinality(S))
  <2> HIDE DEF UpTo
  <2> QED BY <1>4, <1>5
<1>7. PICK g \in [SUBSET S -> Nat] :
         \A t \in SUBSET S : Cardinality(t) <= Cardinality(S) => FoldedAt(g, f, t)
  BY <1>6
<1> QED BY <1>1, <1>7

(* g adds up f over the subsets of S, in whatever order.                    *)
AddsUp(g, f, S) ==
    /\ g \in [SUBSET S -> Nat]
    /\ g[{}] = 0
    /\ \A t \in SUBSET S : \A x \in t : g[t] = f[x] + g[t \ {x}]

LEMMA FoldAddsUp ==
  ASSUME NEW S, IsFiniteSet(S), NEW f, \A x \in S : f[x] \in Nat,
         NEW g \in [SUBSET S -> Nat], \A t \in SUBSET S : FoldedAt(g, f, t)
  PROVE  AddsUp(g, f, S)
<1> DEFINE Good(t) == \A x \in t : g[t] = f[x] + g[t \ {x}]
           off == {t \in SUBSET S : ~Good(t)}
<1>1. ASSUME off # {} PROVE FALSE
  <2>1. off \in SUBSET (SUBSET S)
    OBVIOUS
  <2>2. PICK t \in off : \A x \in t : t \ {x} \notin off
    <3> HIDE DEF off
    <3> QED BY <1>1, <2>1, Smallest
  <2>3. t \in SUBSET S /\ ~Good(t)
    BY <2>2
  <2>4. PICK x \in t : g[t] # f[x] + g[t \ {x}]
    BY <2>3
  <2> DEFINE c == First(t)
  <2>5. c \in t /\ g[t] = f[c] + g[t \ {c}]
    BY <2>3, <2>4, FirstIsMember DEF FoldedAt
  <2> HIDE DEF c
  <2>6. c # x
    BY <2>4, <2>5
  <2>7. /\ t \ {c} \in SUBSET S /\ t \ {x} \in SUBSET S
        /\ x \in t \ {c} /\ c \in t \ {x}
    BY <2>3, <2>4, <2>5, <2>6
  <2>8. Good(t \ {c}) /\ Good(t \ {x})
    BY <2>2, <2>4, <2>5, <2>7
  <2>9. g[t \ {c}] = f[x] + g[(t \ {c}) \ {x}] /\ g[t \ {x}] = f[c] + g[(t \ {x}) \ {c}]
    BY <2>7, <2>8
  <2>10. (t \ {c}) \ {x} = (t \ {x}) \ {c} /\ (t \ {x}) \ {c} \in SUBSET S
    BY <2>3
  <2>11. g[(t \ {x}) \ {c}] \in Nat /\ f[x] \in Nat /\ f[c] \in Nat
    BY <2>3, <2>4, <2>5, <2>10
  <2> DEFINE rest == g[(t \ {x}) \ {c}]
  <2>12. /\ g[t] = f[c] + (f[x] + rest) /\ g[t \ {x}] = f[c] + rest
         /\ rest \in Nat /\ f[x] \in Nat /\ f[c] \in Nat
    BY <2>5, <2>9, <2>10, <2>11
  <2> HIDE DEF rest
  <2>13. f[c] + (f[x] + rest) = f[x] + (f[c] + rest)
    BY <2>12
  <2> QED BY <2>4, <2>12, <2>13
<1>2. ASSUME NEW t \in SUBSET S PROVE Good(t)
  BY <1>1
<1>3. g[{}] = 0
  BY DEF FoldedAt
<1> QED BY <1>2, <1>3 DEF AddsUp

(* That is what SumOver does.                                               *)
LEMMA SumOverAddsUp ==
  ASSUME NEW S, IsFiniteSet(S), NEW f, \A x \in S : f[x] \in Nat
  PROVE  \E g : AddsUp(g, f, S) /\ SumOver(f, S) = g[S]
<1> DEFINE Folded(g) ==
             g = [s \in SUBSET S |-> IF s = {} THEN 0
                                     ELSE LET x == CHOOSE x \in s : TRUE
                                          IN  f[x] + g[s \ {x}]]
           iter == CHOOSE g : Folded(g)
<1>1. \E g : Folded(g)
  <2>1. PICK g \in [SUBSET S -> Nat] : \A t \in SUBSET S : FoldedAt(g, f, t)
    BY FoldExists
  <2>2. Folded(g)
    BY <2>1 DEF FoldedAt, First
  <2> QED BY <2>2
<1>2. Folded(iter)
  BY <1>1
<1>3. SumOver(f, S) = iter[S]
  BY DEF SumOver, MapThenSumSet, MapThenFoldSet
<1> HIDE DEF iter
<1>4. /\ DOMAIN iter = SUBSET S /\ iter = [s \in SUBSET S |-> iter[s]]
      /\ \A t \in SUBSET S : FoldedAt(iter, f, t)
  BY <1>2 DEF FoldedAt, First
<1> DEFINE off == {t \in SUBSET S : iter[t] \notin Nat}
<1>5. ASSUME off # {} PROVE FALSE
  <2>1. off \in SUBSET (SUBSET S)
    OBVIOUS
  <2>2. PICK t \in off : \A x \in t : t \ {x} \notin off
    <3> HIDE DEF off
    <3> QED BY <1>5, <2>1, Smallest
  <2>3. t \in SUBSET S /\ iter[t] \notin Nat
    BY <2>2
  <2>4. ASSUME t = {} PROVE FALSE
    <3>1. FoldedAt(iter, f, t)
      BY <1>4, <2>3
    <3>2. iter[t] = 0
      BY <2>4, <3>1 DEF FoldedAt
    <3> QED BY <2>3, <3>2
  <2>5. First(t) \in t /\ t \ {First(t)} \in SUBSET S
    BY <2>3, <2>4, FirstIsMember
  <2>6. iter[t \ {First(t)}] \in Nat /\ f[First(t)] \in Nat
    BY <2>2, <2>3, <2>5
  <2>7. iter[t] = f[First(t)] + iter[t \ {First(t)}]
    BY <1>4, <2>3, <2>4 DEF FoldedAt
  <2> QED BY <2>3, <2>6, <2>7
<1>6. iter \in [SUBSET S -> Nat]
  BY <1>4, <1>5
<1>7. AddsUp(iter, f, S)
  BY <1>4, <1>6, FoldAddsUp
<1> QED BY <1>3, <1>7

(* There is one way only to add up.                                         *)
Agree(k, f, T) == \A x \in T : k[x] = f[x]

LEMMA SumsAgree ==
  ASSUME NEW S, IsFiniteSet(S), NEW f, NEW g, AddsUp(g, f, S),
         NEW T \in SUBSET S, NEW k, NEW h, AddsUp(h, k, T), Agree(k, f, T)
  PROVE  h[T] = g[T]
<1> DEFINE off == {t \in SUBSET T : h[t] # g[t]}
<1>1. ASSUME off # {} PROVE FALSE
  <2>1. off \in SUBSET (SUBSET S)
    OBVIOUS
  <2>2. PICK t \in off : \A x \in t : t \ {x} \notin off
    <3> HIDE DEF off
    <3> QED BY <1>1, <2>1, Smallest
  <2>3. t \in SUBSET T /\ t \in SUBSET S /\ h[t] # g[t]
    BY <2>2
  <2>4. t # {}
    BY <2>3 DEF AddsUp
  <2>5. PICK x \in t : TRUE
    BY <2>4
  <2>6. h[t] = k[x] + h[t \ {x}] /\ g[t] = f[x] + g[t \ {x}] /\ k[x] = f[x]
    BY <2>3, <2>5 DEF AddsUp, Agree
  <2>7. t \ {x} \in SUBSET T /\ h[t \ {x}] = g[t \ {x}]
    BY <2>2, <2>3, <2>5
  <2> QED BY <2>3, <2>6, <2>7
<1> QED BY <1>1

(* The sum over two disjoint sets is the sum of their sums.                 *)
LEMMA SumsJoin ==
  ASSUME NEW S, IsFiniteSet(S), NEW f, \A x \in S : f[x] \in Nat, NEW g, AddsUp(g, f, S),
         NEW B \in SUBSET S
  PROVE  \A A \in SUBSET S : A \cap B = {} => g[A \cup B] = g[A] + g[B]
<1> DEFINE off == {A \in SUBSET S : A \cap B = {} /\ g[A \cup B] # g[A] + g[B]}
<1>1. ASSUME off # {} PROVE FALSE
  <2>1. off \in SUBSET (SUBSET S)
    OBVIOUS
  <2>2. PICK A \in off : \A x \in A : A \ {x} \notin off
    <3> HIDE DEF off
    <3> QED BY <1>1, <2>1, Smallest
  <2>3. A \in SUBSET S /\ A \cap B = {} /\ g[A \cup B] # g[A] + g[B]
    BY <2>2
  <2>4. g[B] \in Nat /\ g[{}] = 0 /\ {} \cup B = B
    BY DEF AddsUp
  <2>5. A # {}
    BY <2>3, <2>4
  <2>6. PICK x \in A : TRUE
    BY <2>5
  <2>7. A \cup B \in SUBSET S /\ x \in A \cup B /\ (A \cup B) \ {x} = (A \ {x}) \cup B
    BY <2>3, <2>6
  <2>8. g[A \cup B] = f[x] + g[(A \ {x}) \cup B] /\ g[A] = f[x] + g[A \ {x}]
    <3>1. g[A \cup B] = f[x] + g[(A \cup B) \ {x}]
      BY <2>7 DEF AddsUp
    <3>2. g[A] = f[x] + g[A \ {x}]
      BY <2>3, <2>6 DEF AddsUp
    <3> QED BY <2>7, <3>1, <3>2
  <2>9. A \ {x} \in SUBSET S /\ (A \ {x}) \cap B = {}
    BY <2>3
  <2>10. g[(A \ {x}) \cup B] = g[A \ {x}] + g[B]
    BY <2>2, <2>6, <2>9
  <2>11. f[x] \in Nat /\ g[A \ {x}] \in Nat
    BY <2>3, <2>6, <2>9 DEF AddsUp
  <2> DEFINE rest == g[A \ {x}]
  <2>12. /\ g[A \cup B] = f[x] + (rest + g[B]) /\ g[A] = f[x] + rest
         /\ rest \in Nat /\ f[x] \in Nat
    BY <2>8, <2>10, <2>11
  <2> HIDE DEF rest
  <2>13. f[x] + (rest + g[B]) = (f[x] + rest) + g[B]
    BY <2>4, <2>12
  <2> QED BY <2>3, <2>12, <2>13
<1> QED BY <1>1

(* Split a set by a key: the sums over its parts add up to that of it all.  *)
LEMMA SumsSplit ==
  ASSUME NEW S, IsFiniteSet(S), NEW f, \A x \in S : f[x] \in Nat, NEW g, AddsUp(g, f, S),
         NEW D, IsFiniteSet(D), NEW key, \A x \in S : key[x] \in D,
         NEW k, \A d \in D : k[d] = g[{x \in S : key[x] = d}], NEW h, AddsUp(h, k, D)
  PROVE  h[D] = g[S]
<1> DEFINE Keyed(E) == {x \in S : key[x] \in E}
           off == {E \in SUBSET D : h[E] # g[Keyed(E)]}
<1>1. ASSUME off # {} PROVE FALSE
  <2>1. off \in SUBSET (SUBSET D)
    OBVIOUS
  <2>2. PICK E \in off : \A d \in E : E \ {d} \notin off
    <3> HIDE DEF off
    <3> QED BY <1>1, <2>1, Smallest
  <2>3. E \in SUBSET D /\ h[E] # g[Keyed(E)]
    BY <2>2
  <2>4. E # {}
    <3>1. Keyed({}) = {}
      OBVIOUS
    <3> HIDE DEF Keyed
    <3> QED BY <2>3, <3>1 DEF AddsUp
  <2>5. PICK d \in E : TRUE
    BY <2>4
  <2>6. E \ {d} \in SUBSET D /\ h[E \ {d}] = g[Keyed(E \ {d})]
    <3> HIDE DEF Keyed
    <3> QED BY <2>2, <2>3, <2>5
  <2>7. h[E] = k[d] + h[E \ {d}]
    BY <2>3, <2>5 DEF AddsUp
  <2> DEFINE part == {x \in S : key[x] = d}
  <2>8. /\ part \in SUBSET S /\ Keyed(E \ {d}) \in SUBSET S
        /\ part \cap Keyed(E \ {d}) = {} /\ part \cup Keyed(E \ {d}) = Keyed(E)
    BY <2>5
  <2>9. k[d] = g[part]
    BY <2>3, <2>5
  <2> HIDE DEF part, Keyed
  <2>10. g[part \cup Keyed(E \ {d})] = g[part] + g[Keyed(E \ {d})]
    <3>1. ASSUME NEW A \in SUBSET S, NEW B \in SUBSET S, A \cap B = {}
          PROVE  g[A \cup B] = g[A] + g[B]
      BY <3>1, SumsJoin
    <3> QED BY <2>8, <3>1
  <2> QED BY <2>3, <2>6, <2>7, <2>8, <2>9, <2>10
<1>2. h[D] = g[Keyed(D)]
  BY <1>1
<1>3. Keyed(D) = S
  OBVIOUS
<1> QED BY <1>2, <1>3

-----------------------------------------------------------------------------
(* The breakdown of a run's usage adds up to the usage of the run.          *)
Known(log, at) == {m \in Metrics(log, at) : IsKnown(log, m)}
Counts(log, K) == [m \in K |-> log[m[1]].tokens[m[2]]]

LEMMA UsageTotal ==
  ASSUME NEW log, NEW at
  PROVE  Usage(log, at).total = SumOver(Counts(log, Known(log, at)), Known(log, at))
  BY DEF Usage, Known, Counts

(* The metrics of some lines of a log are finitely many, and are counts.    *)
LEMMA KnownCounts ==
  ASSUME NEW log \in Seq(Events), NEW at \in SUBSET DOMAIN log
  PROVE  /\ IsFiniteSet(Known(log, at))
         /\ \A m \in Known(log, at) : log[m[1]].tokens[m[2]] \in Nat
<1>1. DOMAIN log = 1..Len(log) /\ Len(log) \in Nat /\ \A i \in DOMAIN log : log[i] \in Events
  OBVIOUS
<1>2. CASE at = {}
  <2>1. Known(log, at) = {}
    BY <1>2 DEF Known, Metrics
  <2> QED BY <2>1, FS_EmptySet
<1>3. CASE at # {}
  <2>1. 1 \in DOMAIN log /\ log[1] \in Events
    BY <1>1, <1>3
  <2> DEFINE fields == DOMAIN log[1].tokens
  <2>2. /\ IsFiniteSet(fields)
        /\ \A i \in DOMAIN log : /\ DOMAIN log[i].tokens = fields
                                 /\ \A f \in fields : \/ log[i].tokens[f] = Unknown
                                                      \/ log[i].tokens[f] \in Nat
    BY <1>1, <2>1, MetricsAreCounts
  <2>3. Known(log, at) = {m \in {<<i, f>> : i \in at, f \in fields} :
                            log[m[1]].tokens[m[2]] # Unknown}
    BY DEF Known, Metrics, IsKnown
  <2> HIDE DEF fields
  <2>4. IsFiniteSet(at)
    <3>1. IsFiniteSet(1..Len(log))
      BY <1>1, FS_Interval
    <3> QED BY <1>1, <3>1, FS_Subset
  <2>5. IsFiniteSet(at \X fields)
    BY <2>2, <2>4, FS_Product
  <2>6. Known(log, at) \in SUBSET (at \X fields)
    BY <2>3
  <2>7. IsFiniteSet(Known(log, at))
    BY <2>5, <2>6, FS_Subset
  <2>8. ASSUME NEW m \in Known(log, at) PROVE log[m[1]].tokens[m[2]] \in Nat
    <3>1. m[1] \in at /\ m[2] \in fields /\ log[m[1]].tokens[m[2]] # Unknown
      BY <2>3
    <3> QED BY <2>2, <3>1
  <2> QED BY <2>7, <2>8
<1> QED BY <1>2, <1>3

Balanced(digest) ==
    LET totals == [g \in DOMAIN digest.by |-> digest.by[g].total]
    IN  digest.all.total = SumOver(totals, DOMAIN totals)

LEMMA DigestAddsUp ==
  ASSUME NEW log \in Seq(Events), NEW run
  PROVE  Balanced(Digest(log, run))
<1> DEFINE at == Mine(log, run)
           K == Known(log, at)
           f == Counts(log, K)
           D == Groups(log, at)
           Of(d) == {i \in at : log[i].group = d}
           key == [m \in K |-> log[m[1]].group]
           totals == [d \in D |-> Usage(log, Of(d)).total]
<1>1. /\ Digest(log, run).all.total = Usage(log, at).total
      /\ [g \in DOMAIN Digest(log, run).by |-> Digest(log, run).by[g].total] = totals
      /\ DOMAIN totals = D
  BY DEF Digest
<1>2. at \in SUBSET DOMAIN log /\ \A d \in D : Of(d) \in SUBSET DOMAIN log
  BY DEF Mine
<1>3. IsFiniteSet(K) /\ \A m \in K : f[m] \in Nat
  BY <1>2, KnownCounts DEF Counts
<1>4. \A d \in D : Known(log, Of(d)) = {m \in K : key[m] = d}
  BY DEF Known, Metrics
<1>5. \A m \in K : key[m] \in D
  BY DEF Known, Metrics, Groups
<1>6. IsFiniteSet(D)
  <2>1. IsFiniteSet(1..Len(log)) /\ DOMAIN log = 1..Len(log)
    BY FS_Interval
  <2>2. IsFiniteSet(at)
    BY <1>2, <2>1, FS_Subset
  <2>3. D = {[j \in at |-> log[j].group][i] : i \in at}
    BY DEF Groups
  <2>4. [i \in at |-> log[i].group] \in Surjection(at, D)
    BY <2>3 DEF Surjection
  <2> QED BY <2>2, <2>4, FS_Surjection DEF ExistsSurjection
<1>7. PICK g : AddsUp(g, f, K) /\ SumOver(f, K) = g[K]
  <2> HIDE DEF K, f
  <2> QED BY <1>3, SumOverAddsUp
<1>8. ASSUME NEW d \in D PROVE totals[d] \in Nat /\ totals[d] = g[{m \in K : key[m] = d}]
  <2> DEFINE part == Known(log, Of(d))
             k == Counts(log, part)
  <2>1. part \in SUBSET K /\ part = {m \in K : key[m] = d}
    BY <1>4
  <2>2. Agree(k, f, part)
    BY <2>1 DEF Counts, Agree
  <2>3. IsFiniteSet(part) /\ \A m \in part : k[m] \in Nat
    BY <1>2, KnownCounts DEF Counts
  <2>4. totals[d] = SumOver(k, part)
    BY UsageTotal
  <2> HIDE DEF k, part, K, f, totals, key
  <2>5. PICK h : AddsUp(h, k, part) /\ SumOver(k, part) = h[part]
    BY <2>3, SumOverAddsUp
  <2>6. h[part] = g[part]
    BY <1>3, <1>7, <2>1, <2>2, <2>5, SumsAgree
  <2>7. g[part] \in Nat
    BY <1>7, <2>1 DEF AddsUp
  <2> QED BY <2>1, <2>4, <2>5, <2>6, <2>7
<1>9. Usage(log, at).total = g[K]
  BY <1>7, UsageTotal
<1> HIDE DEF totals, K, f, key, D
<1>10. PICK h : AddsUp(h, totals, D) /\ SumOver(totals, D) = h[D]
  BY <1>6, <1>8, SumOverAddsUp
<1>11. h[D] = g[K]
  BY <1>3, <1>5, <1>6, <1>7, <1>8, <1>10, SumsSplit
<1> QED BY <1>1, <1>9, <1>10, <1>11 DEF Balanced

(* No task run is reconciled twice, and a reconciliation accounts for the   *)
(* events of its run as they stood at some line of the log: its breakdown   *)
(* by role and effort adds up to its total, for any events and metrics.     *)
THEOREM ReconciledInFull == Spec => []ReconciledOnceAndInFull
<1>1. ASSUME IInv, SummarizesTheLog PROVE BreakdownAddsUp
  <2>1. ASSUME NEW r \in Lines(records) PROVE Balanced(r.usage)
    <3>1. PICK n \in DOMAIN events : r.usage = Digest(SubSeq(events, 1, n), r.run)
      BY <1>1 DEF SummarizesTheLog
    <3>2. SubSeq(events, 1, n) \in Seq(Events)
      BY <1>1 DEF IInv, Shaped
    <3> QED BY <3>1, <3>2, DigestAddsUp
  <2> QED BY <2>1 DEF BreakdownAddsUp, Balanced
<1>2. IInv /\ ReconciledOnce /\ SummarizesTheLog => ReconciledOnceAndInFull
  BY <1>1 DEF ReconciledOnceAndInFull
<1> QED BY <1>2, Invariance, OnceOfTheLog, PTL

-----------------------------------------------------------------------------
(* What the callers of the store rely on.                                   *)

(* No line of either file is ever rewritten, reordered or dropped, although *)
(* every append replaces its file by a copy made earlier (record,           *)
(* _record_reconciliation).                                                 *)
FilesOnlyGrow ==
    [][/\ events = SubSeq(events', 1, Len(events))
       /\ records = SubSeq(records', 1, Len(records))]_vars

(* An id enters the log once, and what a caller was told is on file is.     *)
IdsUnique == \A i, j \in DOMAIN events : events[i].id = events[j].id => i = j
ToldIsOnFile == told \subseteq Lines(events)

LEMMA AppendGrows ==
  ASSUME NEW S, NEW log \in Seq(S), NEW x
  PROVE  SubSeq(Append(log, x), 1, Len(log)) = log /\ SubSeq(log, 1, Len(log)) = log
  OBVIOUS

(* FilesOnlyGrow, for any number of processes, killed wherever they are.    *)
THEOREM NothingRewritten == Spec => FilesOnlyGrow
<1> DEFINE Grow == /\ events = SubSeq(events', 1, Len(events))
                   /\ records = SubSeq(records', 1, Len(records))
<1>1. ASSUME IInv, Next PROVE Grow
  <2>1. events \in Seq(Events) /\ records \in Seq(Lines(records))
    BY <1>1 DEF IInv, Shaped
  <2>2. CASE UNCHANGED files
    BY <2>1, <2>2, AppendGrows DEF files
  <2>3. ASSUME NEW p \in Procs, ReplaceEvents(p) PROVE Grow
    BY <1>1, <2>1, <2>3, EventAdded, AppendGrows
  <2>4. ASSUME NEW p \in Procs, ReplaceRecords(p) PROVE Grow
    <3>1. PICK r : records' = Append(records, r) /\ events' = events
      BY <1>1, <2>4, RecordAdded
    <3> QED BY <2>1, <3>1, AppendGrows
  <2> QED BY <1>1, <2>2, <2>3, <2>4, FileSteps
<1>2. IInv /\ [Next]_vars => [Grow]_vars
  BY <1>1
<1> QED BY <1>2, Invariance, PTL DEF Spec, FilesOnlyGrow

LEMMA StepKeepsTold ==
  ASSUME IInv, IdsUnique, ToldIsOnFile, [Next]_vars
  PROVE  IdsUnique' /\ ToldIsOnFile'
<1>1. [Log!Next]_(Log!vars)
  BY StepImplements
<1>2. CASE UNCHANGED Log!vars
  BY <1>2 DEF Log!vars, IdsUnique, ToldIsOnFile, Lines
<1>3. ASSUME NEW e \in Events, Log!Add(e) PROVE IdsUnique' /\ ToldIsOnFile'
  <2>1. /\ events' = Append(events, e) /\ told' = told /\ events \in Seq(Events)
        /\ \A i \in DOMAIN events : events[i].id # e.id
    BY <1>3 DEF Log!Add, Log!Ids, IInv, Shaped
  <2>2. /\ DOMAIN events' = 1 .. Len(events) + 1 /\ DOMAIN events = 1 .. Len(events)
        /\ \A i \in DOMAIN events : events'[i] = events[i]
        /\ events'[Len(events) + 1] = e /\ Len(events) \in Nat
    BY <2>1
  <2>3. IdsUnique'
    BY <2>1, <2>2 DEF IdsUnique
  <2>4. ToldIsOnFile'
    BY <2>1, LinesOfAppend DEF ToldIsOnFile
  <2> QED BY <2>3, <2>4
<1>4. ASSUME NEW e \in Events, Log!Tell(e) PROVE IdsUnique' /\ ToldIsOnFile'
  BY <1>4 DEF Log!Tell, IdsUnique, ToldIsOnFile, Lines
<1>5. ASSUME NEW e \in Events, NEW label \in Labels, Log!Summarize(e.run, label)
      PROVE  IdsUnique' /\ ToldIsOnFile'
  BY <1>5 DEF Log!Summarize, IdsUnique, ToldIsOnFile, Lines
<1> QED BY <1>1, <1>2, <1>3, <1>4, <1>5 DEF Log!Next

(* Whatever overlaps or is killed, no two lines of the log carry one id,    *)
(* and every event a caller was told is recorded stays in the log: what the *)
(* abstract log promises, carried over to the files.                        *)
THEOREM ToldIsKept == Spec => [](IdsUnique /\ ToldIsOnFile)
<1>1. Init => IdsUnique /\ ToldIsOnFile
  BY DEF Init, IdsUnique, ToldIsOnFile
<1>2. IInv /\ (IdsUnique /\ ToldIsOnFile) /\ [Next]_vars => (IdsUnique /\ ToldIsOnFile)'
  BY StepKeepsTold
<1> QED BY <1>1, <1>2, Invariance, PTL DEF Spec

=============================================================================
