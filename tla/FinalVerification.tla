-------------------------- MODULE FinalVerification --------------------------
(***************************************************************************)
(* One invocation of the final verification (final_verification.py): the   *)
(* target worktree is probed, the tree of the review HEAD is materialised  *)
(* in a scratch directory, the commands of the plan run there one by one   *)
(* in a sandbox, the target being probed again after each that succeeds,   *)
(* and every command of the plan gets a result.                            *)
(*                                                                         *)
(* The harness is one thread. Around it, the worktree changes at any time, *)
(* a sandboxed command writes, closes its streams and exits (or does not)  *)
(* as it likes, and time passes: the invocation has a deadline, each       *)
(* command a timeout, each output and all outputs together a limit. Time   *)
(* and output are counted in small units; a wait of the harness that has   *)
(* run out is over before time passes any further.                         *)
(***************************************************************************)
EXTENDS Integers, SequencesExt

CONSTANTS
    Plan,            \* the validated commands, in the order they run
    Trees,           \* what the review HEAD may hold: sequences of blob sizes
    TreeLimit,       \* _MAX_MATERIALIZED_BYTES
    Deadline,        \* _INVOCATION_TIMEOUT_SECONDS, from the start
    CommandTimeout,  \* _COMMAND_TIMEOUT_SECONDS
    Grace,           \* how long a process that closed its streams may linger
    OutputLimit,     \* MAX_OUTPUT_BYTES, of one command
    TotalOutput,     \* _MAX_TOTAL_OUTPUT_BYTES, of the invocation
    TextSize,        \* size of a text the harness writes itself
    ChunkSizes,      \* what a command may write at once
    Horizon          \* bound on the clock

ASSUME PlanAssumption == Plan # <<>> /\ Plan \in Seq(Range(Plan))
ASSUME SizeAssumption ==
    /\ {OutputLimit, TotalOutput, TextSize} \cup ChunkSizes \subseteq Nat
    /\ \A sizes \in Trees : Len(sizes) \in Nat
ASSUME TimeAssumption == {Deadline, CommandTimeout, Grace} \subseteq Nat \ {0}
ASSUME HorizonAssumption == Horizon \in Nat /\ Horizon > Deadline + Grace

Parts == {"head", "status", "flags"}
ProbeOrder == <<"head", "status", "flags">>
Streams == {"stdout", "stderr"}
ExitCodes == {"ok", "fails", "killed", "none"}     \* "none": exit_code is None

VARIABLES
    phase,      \* what the harness is doing
    clock,      \* time since the invocation began
    worktree,   \* worktree[p]: whether part p of the target is as reviewed
    reading,    \* the part of the probe that is read next
    seen,       \* whether all parts read so far were as reviewed
    strayed,    \* parts that are off and have been since the probe began
    tree,       \* blob sizes of the review HEAD
    copied,     \* how many of them are materialised
    child,      \* the running command's process
    budget,     \* output_budget: what is left of TotalOutput
    results,    \* the results so far
    verdict     \* "none" until the invocation ends

vars == <<phase, clock, worktree, reading, seen, strayed, tree, copied, child, budget,
          results, verdict>>
target == <<worktree, strayed>>
probe == <<reading, seen>>
outcome == <<budget, results, verdict>>

NoChild == [exit |-> "absent"]
Child == [exit: {"ok", "fails", "running"}, open: SUBSET Streams, written: [Streams -> Nat],
          until: Nat, timedOut: BOOLEAN]

Phases == {"probing", "copying", "choosing", "running", "waiting", "finished"}

TypeOK ==
    /\ phase \in Phases
    /\ clock \in 0..Horizon
    /\ worktree \in [Parts -> BOOLEAN]
    /\ reading \in 1..Len(ProbeOrder)
    /\ seen \in BOOLEAN
    /\ strayed \subseteq Parts
    /\ tree \in Trees
    /\ copied \in 0..Len(tree)
    /\ child \in Child \cup {NoChild}
    /\ budget \in 0..TotalOutput
    /\ verdict \in {"none", "VERIFIED", "UNVERIFIED", "raised"}
    /\ \A i \in DOMAIN results : results[i].exit \in ExitCodes /\ results[i].size \in Nat
    /\ (phase = "finished") = (verdict # "none")

Off(w) == {p \in Parts : ~w[p]}

Init ==
    /\ phase = "probing"
    /\ clock = 0
    /\ worktree \in [Parts -> BOOLEAN]
    /\ reading = 1
    /\ seen = TRUE
    /\ strayed = Off(worktree)
    /\ tree \in Trees
    /\ copied = 0
    /\ child = NoChild
    /\ budget = TotalOutput
    /\ results = <<>>
    /\ verdict = "none"

-----------------------------------------------------------------------------
(* Accounting of results and output.                                       *)

SumSeq(sizes) ==
    LET upTo[i \in 0..Len(sizes)] == IF i = 0 THEN 0 ELSE upTo[i - 1] + sizes[i]
    IN  upTo[Len(sizes)]

\* _bounded_to
Bounded(size, limit) == Min({size, Max({0, limit})})

\* As NotRun, taking the command at hand for one that has its result.
NotRunAfter(position, limit) ==
    [k \in 1..(Len(Plan) - position) |->
        [command |-> Plan[position + k], exit |-> "none",
         size |-> Bounded(TextSize, limit - (k - 1) * TextSize)]]

\* _not_run_results: every command left gets a result, and the reason takes
\* from the budget as long as it lasts.
NotRun(position, limit) ==
    [k \in 1..(Len(Plan) - position + 1) |->
        [command |-> Plan[position + k - 1], exit |-> "none",
         size |-> Bounded(TextSize, limit - (k - 1) * TextSize)]]

\* As Limit, for one command alone.
CommandLimit == OutputLimit

Limit == Min({OutputLimit, budget})

\* _bounded_pair: what is kept of the two decoded streams.
Kept(stdout, stderr) ==
    LET out == Bounded(stdout, Limit) IN out + Bounded(stderr, Limit - out)

End(v) == phase' = "finished" /\ verdict' = v

\* As PhaseAfter, going on without another probe.
UnprobedAfter(exit) == IF exit = "ok" THEN "choosing" ELSE "finished"

PhaseAfter(exit) == IF exit = "ok" THEN "probing" ELSE "finished"

\* The result of the command at hand: its output is taken from the budget;
\* a failure ends the invocation, a success has the target probed again.
Record(exit, size) ==
    LET result == [command |-> Plan[Len(results) + 1], exit |-> exit, size |-> size]
        done == Append(results, result)
    IN  /\ budget' = budget - size
        /\ child' = NoChild
        /\ phase' = PhaseAfter(exit)
        /\ IF exit = "ok"
           THEN /\ results' = done
                /\ reading' = 1 /\ seen' = TRUE
                /\ strayed' = Off(worktree)
                /\ UNCHANGED verdict
           ELSE /\ results' = done \o NotRun(Len(done) + 1, budget - size)
                /\ verdict' = "UNVERIFIED"
                /\ UNCHANGED <<probe, strayed>>

-----------------------------------------------------------------------------
(* The target and its materialised copy. The answer of every Git call is   *)
(* awaited for the time that is left, and it raises when there is none; what*)
(* is written to Git (the index, the commit) has no deadline in the code and*)
(* takes no time here.                                                     *)

TimeLeft == clock < Deadline

\* _probe_target and _require_target: HEAD, status and index flags are three
\* Git calls; once all are read a part that was off raises.
ProbePart ==
    LET asReviewed == seen /\ worktree[ProbeOrder[reading]]
    IN  /\ phase = "probing" /\ TimeLeft
        /\ IF reading < Len(ProbeOrder)
           THEN /\ reading' = reading + 1
                /\ seen' = asReviewed
                /\ UNCHANGED <<phase, verdict>>
           ELSE /\ UNCHANGED probe
                /\ IF asReviewed
                   THEN /\ phase' = IF results = <<>> THEN "copying" ELSE "choosing"
                        /\ UNCHANGED verdict
                   ELSE End("raised")
        /\ UNCHANGED <<clock, target, tree, copied, child, budget, results>>

Materialised == SumSeq(SubSeq(tree, 1, copied))

\* _materialize_manifest: a blob beyond the limits raises.
CopyBlob ==
    /\ phase = "copying" /\ TimeLeft /\ copied < Len(tree)
    /\ IF Materialised + tree[copied + 1] > TreeLimit
       THEN End("raised") /\ UNCHANGED copied
       ELSE copied' = copied + 1 /\ UNCHANGED <<phase, verdict>>
    /\ UNCHANGED <<clock, target, probe, tree, child, budget, results>>

\* _materialize_git_context: the copy becomes a repository of its own at the
\* review HEAD.
MakeContext ==
    /\ phase = "copying" /\ TimeLeft /\ copied = Len(tree)
    /\ phase' = "choosing"
    /\ UNCHANGED <<clock, target, probe, tree, copied, child, outcome>>

\* A Git call fails or has no time left, or the tree holds an entry that is
\* not materialised.
GitFails ==
    /\ phase \in {"probing", "copying"}
    /\ End("raised")
    /\ UNCHANGED <<clock, target, probe, tree, copied, child, budget, results>>

-----------------------------------------------------------------------------
(* The commands.                                                           *)

\* The deadline has passed or the output is used up: the commands left are
\* not run.
StopEarly ==
    /\ phase = "choosing" /\ Len(results) < Len(Plan)
    /\ ~TimeLeft \/ budget = 0
    /\ results' = results \o NotRun(Len(results) + 1, budget)
    /\ End("UNVERIFIED")
    /\ UNCHANGED <<clock, target, probe, tree, copied, child, budget>>

\* As CommandDeadline, leaving the invocation's deadline out.
OwnDeadline == clock + CommandTimeout

\* A command times out after its own time, and no later than the invocation.
CommandDeadline == Min({clock + CommandTimeout, Deadline})

StartCommand ==
    /\ phase = "choosing" /\ Len(results) < Len(Plan)
    /\ TimeLeft /\ budget > 0
    /\ phase' = "running"
    /\ child' = [exit |-> "running", open |-> Streams,
                 written |-> [s \in Streams |-> 0],
                 until |-> CommandDeadline, timedOut |-> FALSE]
    /\ UNCHANGED <<clock, target, probe, tree, copied, outcome>>

\* The argv is refused in the materialised tree, or the sandbox is missing:
\* the error becomes the result.
RefuseCommand ==
    /\ phase = "choosing" /\ Len(results) < Len(Plan)
    /\ TimeLeft /\ budget > 0
    /\ Record("none", Bounded(TextSize, Limit))
    /\ UNCHANGED <<clock, worktree, tree, copied>>

\* Both streams are at their end: the process is waited for.
Drained ==
    /\ phase = "running" /\ child.open = {}
    /\ phase' = "waiting"
    /\ child' = [child EXCEPT !.until = clock + Grace]
    /\ UNCHANGED <<clock, target, probe, tree, copied, outcome>>

\* The command still holds a stream when its time is up: its group is killed.
TimeOut ==
    /\ phase = "running" /\ child.open # {} /\ clock >= child.until
    /\ phase' = "waiting"
    /\ child' = [child EXCEPT !.timedOut = TRUE, !.open = {}]
    /\ UNCHANGED <<clock, target, probe, tree, copied, outcome>>

\* As Gone, waiting for as long as the process takes.
ExitedItself == child.exit # "running" \/ child.timedOut

\* _wait_for_process: a process that lingers is killed.
Gone == child.exit # "running" \/ child.timedOut \/ clock >= child.until

ExitCode ==
    IF child.timedOut THEN "none" ELSE IF child.exit = "running" THEN "killed" ELSE child.exit

\* As DecodedSize, trusting the limit the streams were read under.
UnboundedSize(growth) ==
    (child.written["stdout"] + child.written["stderr"]) * growth

\* Bytes that are no UTF-8 grow when they are decoded: `growth` is by how much.
DecodedSize(growth) ==
    LET note == IF child.timedOut THEN TextSize ELSE 0
    IN  Kept(child.written["stdout"] * growth, child.written["stderr"] * growth + note)

Collect ==
    /\ phase = "waiting" /\ Gone
    /\ \E growth \in {1, 3} : Record(ExitCode, DecodedSize(growth))
    /\ UNCHANGED <<clock, worktree, tree, copied>>

\* All commands have succeeded: verified, unless the deadline has passed.
FinishPlan ==
    /\ phase = "choosing" /\ Len(results) = Len(Plan)
    /\ End(IF TimeLeft THEN "VERIFIED" ELSE "UNVERIFIED")
    /\ UNCHANGED <<clock, target, probe, tree, copied, child, budget, results>>

-----------------------------------------------------------------------------
(* The command's process, the worktree, and time.                          *)

\* A chunk is read; what goes beyond the limit is dropped.
Write(s, size) ==
    LET room == Limit - (child.written["stdout"] + child.written["stderr"])
    IN  /\ phase = "running" /\ s \in child.open
        /\ child' = [child EXCEPT !.written[s] = @ + Bounded(size, room)]
        /\ UNCHANGED <<phase, clock, target, probe, tree, copied, outcome>>

CloseStream(s) ==
    /\ phase = "running" /\ s \in child.open
    /\ child' = [child EXCEPT !.open = @ \ {s}]
    /\ UNCHANGED <<phase, clock, target, probe, tree, copied, outcome>>

\* The process exits; a descendant may hold its streams open.
Exit(code) ==
    /\ phase \in {"running", "waiting"} /\ child.exit = "running" /\ ~child.timedOut
    /\ child' = [child EXCEPT !.exit = code]
    /\ UNCHANGED <<phase, clock, target, probe, tree, copied, outcome>>

\* Somebody edits, commits to, switches or restores the worktree.
MoveTarget ==
    /\ phase # "finished"
    /\ \E w \in [Parts -> BOOLEAN] :
          /\ worktree' = w
          /\ strayed' = strayed \cap Off(w)
    /\ UNCHANGED <<phase, clock, probe, tree, copied, child, outcome>>

\* What the harness does without waiting any longer.
Due ==
    \/ phase \in {"probing", "copying", "choosing"} /\ ~TimeLeft
    \/ phase = "running" /\ (child.open = {} \/ clock >= child.until)
    \/ phase = "waiting" /\ Gone

Tick ==
    /\ phase # "finished" /\ ~Due /\ clock < Horizon
    /\ clock' = clock + 1
    /\ UNCHANGED <<phase, target, probe, tree, copied, child, outcome>>

Harness ==
    \/ ProbePart \/ CopyBlob \/ MakeContext \/ GitFails
    \/ StopEarly \/ StartCommand \/ RefuseCommand
    \/ Drained \/ TimeOut \/ Collect \/ FinishPlan

Process ==
    \/ \E s \in Streams : CloseStream(s) \/ \E size \in ChunkSizes : Write(s, size)
    \/ \E code \in {"ok", "fails"} : Exit(code)

Next == Harness \/ Process \/ MoveTarget \/ Tick

\* The harness is one thread that is scheduled, and time does not stop; the
\* sandboxed process may hang, and nobody has to leave the worktree alone.
Spec == Init /\ [][Next]_vars /\ WF_vars(Harness) /\ WF_vars(Tick)

-----------------------------------------------------------------------------
(* Properties.                                                             *)

\* Every command of the plan has exactly one result, in the plan's order;
\* nothing ran after a command that did not succeed, and a verified plan
\* succeeded from end to end (run_final_verification's loop and its exits).
PlanAccounted ==
    verdict \in {"VERIFIED", "UNVERIFIED"} =>
        /\ Len(results) = Len(Plan)
        /\ \A i \in DOMAIN results : results[i].command = Plan[i]
        /\ \A i, j \in DOMAIN results :
              i < j /\ results[i].exit # "ok" => results[j].exit = "none"
        /\ verdict = "VERIFIED" => \A i \in DOMAIN results : results[i].exit = "ok"

\* All results together keep within the invocation's output, whatever the
\* commands write, however it decodes and whatever the harness adds to it
\* (_bounded_pair, _not_run_results).
OutputBounded ==
    LET sizes == [i \in DOMAIN results |-> results[i].size]
    IN  SumSeq(sizes) <= TotalOutput

\* A part of the target that was off when the last probe began and has not
\* been as reviewed since is never verified over (_require_target after
\* every command).
VerifiedOnTarget == verdict = "VERIFIED" => strayed = {}

\* No invocation outlives its deadline by more than the time a process is
\* given to exit, whatever its commands do.
EndsByDeadline == phase # "finished" => clock <= Deadline + Grace

\* Every invocation comes to an end: by a verdict or by raising.
Ends == <>(phase = "finished")

=============================================================================
