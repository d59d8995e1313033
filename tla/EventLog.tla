------------------------------- MODULE EventLog -------------------------------
(***************************************************************************)
(* What the spawn telemetry promises to those who only see its calls: a    *)
(* log of events that grows at its end, in which an id occurs once and for *)
(* which one caller is told so; and for every task run at most one summary,*)
(* taken of the log as it is at that moment and never changed.             *)
(***************************************************************************)
EXTENDS Naturals, Sequences, FiniteSets

CONSTANTS
    Events,        \* the events callers may record, with fields id and run
    Labels,        \* what a summary is made for: a pull request and a quality
    Digest(_, _)   \* Digest(log, run): the usage of run's events in log

VARIABLES
    log,           \* the recorded events, oldest first
    told,          \* events whose caller was told they are recorded
    sums           \* the summaries made so far

vars == <<log, told, sums>>

Ids(l) == {l[i].id : i \in DOMAIN l}

Init == log = <<>> /\ told = {} /\ sums = {}

Add(e) ==
    /\ e.id \notin Ids(log)
    /\ log' = Append(log, e)
    /\ UNCHANGED <<told, sums>>

Tell(e) ==
    /\ e \in {log[i] : i \in DOMAIN log} \ told
    /\ told' = told \cup {e}
    /\ UNCHANGED <<log, sums>>

Summarize(run, label) ==
    /\ \E i \in DOMAIN log : log[i].run = run
    /\ \A s \in sums : s.run # run
    /\ sums' = sums \cup {[run |-> run, label |-> label, usage |-> Digest(log, run)]}
    /\ UNCHANGED <<log, told>>

Next ==
    \/ \E e \in Events : Add(e) \/ Tell(e)
    \/ \E e \in Events, label \in Labels : Summarize(e.run, label)

Spec == Init /\ [][Next]_vars

=============================================================================
