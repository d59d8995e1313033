----------------------------- MODULE TaskDirectory -----------------------------
(***************************************************************************)
(* The life of task directories under pipeline-state: task_bootstrap.py    *)
(* creates one, pipeline_state.py reads and replaces its pipeline.md,      *)
(* task_discovery.py lists the active tasks of a repository,               *)
(* task_selection.py lets a human resume one of them or start a new one,   *)
(* and retention.py removes one disposable file of a task. Nothing locks   *)
(* these directories: every call of a process is cut at its system calls,  *)
(* and any call may be killed between two of them.                         *)
(***************************************************************************)
EXTENDS FiniteSets, Functions

CONSTANTS
    Procs,       \* processes, each with at most one call under way
    Tasks,       \* task ids
    LegacyTasks, \* the ids that have a <id>-pipeline.md of the old layout
    Repos,       \* repositories
    Inodes,      \* identities (st_dev, st_ino) of regular files
    None         \* no document, no file

ASSUME LegacyAreTasks == LegacyTasks \subseteq Tasks

VARIABLES
    dir,         \* the tasks whose directory exists
    doc,         \* doc[t]: the content of t/pipeline.md, or None
    legacy,      \* legacy[t]: the content of t-pipeline.md, or None
    place,       \* the file under the disposable name, or None
    aside,       \* aside[p]: the file in the quarantine of p's cleanup
    stranded,    \* the files in quarantines no cleanup works on any more
    call,        \* call[p]: the call of process p
    steady,      \* steady[p]: tasks active ever since p's discovery began
    seen         \* seen[p]: tasks active at some time since it began

tasks == <<dir, doc, legacy>>
files == <<place, aside, stranded>>
vars == <<tasks, files, call, steady, seen>>

-----------------------------------------------------------------------------
\* A pipeline.md, as far as these modules read it: whether it is what a
\* bootstrap writes, a task at work, or one that is not active any more.
Documents == [repo : Repos, stage : {"intake", "work", "done"}]

ASSUME NoneIsNothing == None \notin Documents \cup Inodes

Idle == [at |-> "idle"]
Calls == {Idle}
    \cup [at : {"mkdir", "install"}, task : Tasks, repo : Repos]
    \cup [at : {"read", "readLegacy"}, task : Tasks]
    \cup [at : {"prepare", "replace"}, task : Tasks, to : Documents]
    \cup [at : {"list"}, repo : Repos]
    \cup [at : {"discover"}, repo : Repos, todo : SUBSET Tasks, found : SUBSET Tasks]
    \cup [at : {"discoverLegacy"}, task : Tasks, repo : Repos,
          todo : SUBSET Tasks, found : SUBSET Tasks]
    \cup [at : {"select"}, repo : Repos, found : SUBSET Tasks]
    \cup [at : {"move", "recheck", "unlink"}, identity : Inodes]

Discovering == {"discover", "discoverLegacy", "select"}

\* What read_pipeline_state finds when nothing moves: canonical first.
Current(t) == IF doc[t] # None THEN doc[t] ELSE legacy[t]
IsActive(d, r) == d # None /\ d.repo = r /\ d.stage # "done"
Active(r) == {t \in Tasks : IsActive(Current(t), r)}

Init ==
    /\ dir = {}
    /\ doc = [t \in Tasks |-> None]
    /\ \E d \in [LegacyTasks -> {e \in Documents : e.stage # "intake"}] :
          legacy = [t \in Tasks |-> IF t \in LegacyTasks THEN d[t] ELSE None]
    /\ place = None
    /\ aside = [p \in Procs |-> None]
    /\ stranded = {}
    /\ call = [p \in Procs |-> Idle]
    /\ steady = [p \in Procs |-> {}]
    /\ seen = [p \in Procs |-> {}]

Go(p, c) == call' = [call EXCEPT ![p] = c]

-----------------------------------------------------------------------------
(* Bootstrap. *)

\* create_task_state for t refuses a task of the old layout.
Bootstrap(p, t, r) ==
    /\ legacy[t] = None
    /\ Go(p, [at |-> "mkdir", task |-> t, repo |-> r])

\* Faulty: mkdir(parents=True, exist_ok=True).
MakeDirectoryIfMissing(p) ==
    /\ call[p].at = "mkdir"
    /\ dir' = dir \cup {call[p].task}
    /\ Go(p, [call[p] EXCEPT !.at = "install"])
    /\ UNCHANGED <<doc, legacy, files>>

\* The exclusive mkdir decides between bootstraps of one id.
MakeDirectory(p) ==
    /\ call[p].at = "mkdir"
    /\ IF call[p].task \in dir
       THEN Go(p, Idle) /\ UNCHANGED tasks
       ELSE /\ dir' = dir \cup {call[p].task}
            /\ Go(p, [call[p] EXCEPT !.at = "install"])
            /\ UNCHANGED <<doc, legacy>>
    /\ UNCHANGED files

\* The initial document is written next to pipeline.md and renamed to it.
InstallInitial(p) ==
    /\ call[p].at = "install"
    /\ doc' = [doc EXCEPT ![call[p].task] = [repo |-> call[p].repo, stage |-> "intake"]]
    /\ Go(p, Idle)
    /\ UNCHANGED <<dir, legacy, files>>

-----------------------------------------------------------------------------
(* A session that resumes a task: it reads the document and replaces it.   *)

Resume(p, t) == Go(p, [at |-> "read", task |-> t])

\* A document of the session's own: the one it read, moved on.
Prepared(p, d) ==
    \E s \in {"work", "done"} :
       Go(p, [at |-> "prepare", task |-> call[p].task, to |-> [d EXCEPT !.stage = s]])

ReadState(p) ==
    /\ call[p].at = "read"
    /\ LET t == call[p].task
       IN  IF doc[t] = None THEN Go(p, [call[p] EXCEPT !.at = "readLegacy"])
                            ELSE Prepared(p, doc[t])
    /\ UNCHANGED <<tasks, files>>

ReadLegacyState(p) ==
    /\ call[p].at = "readLegacy"
    /\ LET t == call[p].task
       IN  IF legacy[t] = None THEN Go(p, Idle) ELSE Prepared(p, legacy[t])
    /\ UNCHANGED <<tasks, files>>

\* write_pipeline_state makes the task directory if there is none ...
OpenTaskDirectory(p) ==
    /\ call[p].at = "prepare"
    /\ dir' = dir \cup {call[p].task}
    /\ Go(p, [call[p] EXCEPT !.at = "replace"])
    /\ UNCHANGED <<doc, legacy, files>>

\* ... and renames a temporary file of a name of its own to pipeline.md.
ReplaceState(p) ==
    /\ call[p].at = "replace"
    /\ doc' = [doc EXCEPT ![call[p].task] = call[p].to]
    /\ Go(p, Idle)
    /\ UNCHANGED <<dir, legacy, files>>

-----------------------------------------------------------------------------
(* Discovery and selection. *)

\* Nothing left to read: the matching tasks are offered.
Look(p, r, todo, found) ==
    Go(p, IF todo = {} THEN [at |-> "select", repo |-> r, found |-> found]
          ELSE [at |-> "discover", repo |-> r, todo |-> todo, found |-> found])

\* _task_ids lists the directories and the documents of the old layout.
ListTasks(p, r) ==
    Look(p, r, dir \cup {t \in Tasks : legacy[t] # None}, {})

\* The document of t was read: on to the next.
Offer(p, t, d) ==
    LET c == call[p]
    IN  Look(p, c.repo, c.todo \ {t}, IF IsActive(d, c.repo) THEN c.found \cup {t} ELSE c.found)

\* Faulty: the old layout is looked up before the canonical one.
DiscoverOldFirst(p, t) ==
    /\ call[p].at = "discover"
    /\ t \in call[p].todo
    /\ IF legacy[t] # None THEN Offer(p, t, legacy[t])
       ELSE IF doc[t] # None THEN Offer(p, t, doc[t]) ELSE Go(p, Idle)
    /\ UNCHANGED <<tasks, files>>

DiscoverState(p, t) ==
    /\ call[p].at = "discover"
    /\ t \in call[p].todo
    /\ IF doc[t] # None THEN Offer(p, t, doc[t])
       ELSE Go(p, [at |-> "discoverLegacy", task |-> t, repo |-> call[p].repo,
                   todo |-> call[p].todo, found |-> call[p].found])
    /\ UNCHANGED <<tasks, files>>

\* A task without any document fails the whole discovery.
DiscoverLegacyState(p) ==
    /\ call[p].at = "discoverLegacy"
    /\ LET t == call[p].task
       IN  IF legacy[t] = None THEN Go(p, Idle) ELSE Offer(p, t, legacy[t])
    /\ UNCHANGED <<tasks, files>>

\* select_task: a new task, or one of those discovered.
Select(p) ==
    /\ call[p].at = "select"
    /\ \/ \E t \in Tasks : Bootstrap(p, t, call[p].repo)
       \/ \E t \in call[p].found : Resume(p, t)
       \/ Go(p, Idle)
    /\ UNCHANGED <<tasks, files>>

-----------------------------------------------------------------------------
(* Retention: a cleanup of the disposable file. *)

\* The descriptor is closed once the identity is taken.
Examine(p) ==
    /\ place # None
    /\ Go(p, [at |-> "move", identity |-> place])

\* Faulty: the file is linked into the quarantine, its name stays.
LinkToQuarantine(p) ==
    /\ call[p].at = "move"
    /\ IF place = None THEN Go(p, Idle) /\ UNCHANGED files
       ELSE /\ aside' = [aside EXCEPT ![p] = place]
            /\ Go(p, [call[p] EXCEPT !.at = "recheck"])
            /\ UNCHANGED <<place, stranded>>
    /\ UNCHANGED tasks

\* The name is moved to a new quarantine directory of a random name.
MoveToQuarantine(p) ==
    /\ call[p].at = "move"
    /\ IF place = None THEN Go(p, Idle) /\ UNCHANGED files
       ELSE /\ aside' = [aside EXCEPT ![p] = place]
            /\ place' = None
            /\ Go(p, [call[p] EXCEPT !.at = "recheck"])
            /\ UNCHANGED stranded
    /\ UNCHANGED tasks

\* A quarantine whose file stays is not removed: rmdir fails.
Abandon(p) ==
    /\ aside' = [aside EXCEPT ![p] = None]
    /\ stranded' = stranded \cup ({aside[p]} \ {None})
    /\ UNCHANGED place

\* Faulty: the identity is not compared again.
RequirePresence(p) ==
    /\ call[p].at = "recheck"
    /\ Go(p, [call[p] EXCEPT !.at = "unlink"])
    /\ UNCHANGED <<tasks, files>>

\* _require_identity refuses a file other than the one examined.
RequireIdentity(p) ==
    /\ call[p].at = "recheck"
    /\ IF aside[p] = call[p].identity
       THEN Go(p, [call[p] EXCEPT !.at = "unlink"]) /\ UNCHANGED files
       ELSE Go(p, Idle) /\ Abandon(p)
    /\ UNCHANGED tasks

UnlinkQuarantined(p) ==
    /\ call[p].at = "unlink"
    /\ aside' = [aside EXCEPT ![p] = None]
    /\ Go(p, Idle)
    /\ UNCHANGED <<tasks, place, stranded>>

\* A build, a server or a person replaces, makes or removes the file. A new
\* file has an identity no file has: one of a removed file may come back.
InUse == ({place} \cup Range(aside) \cup stranded) \ {None}
TouchDisposable ==
    /\ \E f \in {None} \cup (Inodes \ InUse) : f # place /\ place' = f
    /\ UNCHANGED <<tasks, aside, stranded, call>>

-----------------------------------------------------------------------------
Invoke(p) ==
    /\ call[p].at = "idle"
    /\ \/ \E t \in Tasks, r \in Repos : Bootstrap(p, t, r)
       \/ \E t \in Tasks : Resume(p, t)
       \/ \E r \in Repos : ListTasks(p, r)
       \/ Examine(p)
    /\ UNCHANGED <<tasks, files>>

Kill(p) ==
    /\ call[p].at # "idle"
    /\ Go(p, Idle)
    /\ Abandon(p)
    /\ UNCHANGED tasks

Step(p) ==
    \/ Invoke(p) \/ MakeDirectory(p) \/ InstallInitial(p)
    \/ ReadState(p) \/ ReadLegacyState(p) \/ OpenTaskDirectory(p) \/ ReplaceState(p)
    \/ (\E t \in Tasks : DiscoverState(p, t)) \/ DiscoverLegacyState(p) \/ Select(p)
    \/ MoveToQuarantine(p) \/ RequireIdentity(p) \/ UnlinkQuarantined(p)
    \/ Kill(p)

\* What the properties know of a discovery: which tasks of its repository
\* were active all the time since it began, and which were at some time.
Wanted(p) == IF call[p].at \in Discovering THEN Active(call[p].repo) ELSE {}

Since(history, p, more) ==
    IF call'[p].at \notin Discovering THEN {}
    ELSE IF call[p].at \notin Discovering THEN Wanted(p)'
    ELSE IF call[p].at = "select" THEN history ELSE more

Observe ==
    /\ steady' = [p \in Procs |-> Since(steady[p], p, steady[p] \cap Wanted(p)')]
    /\ seen' = [p \in Procs |-> Since(seen[p], p, seen[p] \cup Wanted(p)')]

Next == ((\E p \in Procs : Step(p)) \/ TouchDisposable) /\ Observe

Spec == Init /\ [][Next]_vars

-----------------------------------------------------------------------------
(* Types; and a file has one place: the disposable name, one quarantine of  *)
(* a cleanup past its move, or a quarantine nobody works on.                *)
TypeOK ==
    /\ dir \subseteq Tasks
    /\ doc \in [Tasks -> Documents \cup {None}]
    /\ legacy \in [Tasks -> Documents \cup {None}]
    /\ \A t \in Tasks : doc[t] # None => t \in dir
    /\ place \in Inodes \cup {None}
    /\ stranded \subseteq Inodes \ {place}
    /\ call \in [Procs -> Calls]
    /\ aside \in [Procs -> Inodes \cup {None}]
    /\ \A p \in Procs :
          IF call[p].at \in {"recheck", "unlink"}
          THEN aside[p] \in Inodes \ (stranded \cup {place})
          ELSE aside[p] = None
    /\ \A p, q \in Procs : aside[p] = aside[q] => p = q \/ aside[p] = None
    /\ steady \in [Procs -> SUBSET Tasks]
    /\ seen \in [Procs -> SUBSET Tasks]

(* A discovery that gets through, while tasks are created, moved on and     *)
(* finished beside it, offers every task of the repository that was active  *)
(* all the time and none that was not active at any: sessions can be        *)
(* resumed by what it offers (task_discovery.py, "discover active tasks").  *)
DiscoveryTrue ==
    \A p \in Procs : call[p].at = "select" =>
        steady[p] \subseteq call[p].found /\ call[p].found \subseteq seen[p]

(* No step of the harness destroys what it was not meant to: an initial     *)
(* document never takes the place of another document of the task, in       *)
(* either layout (task_bootstrap.py: "without overwriting existing state"), *)
(* and of all files a cleanup takes away, only the one it examined is gone. *)
DestroysOnlyItsOwn ==
    [][/\ \A t \in Tasks : Current(t) # None /\ Current(t)' # Current(t) =>
             Current(t)'.stage # "intake"
       /\ \A p \in Procs : aside[p] # None /\ aside'[p] = None =>
             aside[p] \in stranded' \/ aside[p] = call[p].identity]_vars

=============================================================================
