-------------------------- MODULE TaskDirectoryProofs --------------------------
(***************************************************************************)
(* Proofs about TaskDirectory, for any number of processes, tasks,         *)
(* repositories and files: types, what steps may destroy, and that a       *)
(* discovery is right about the tasks it offers.                           *)
(***************************************************************************)
EXTENDS TaskDirectory, TLAPS

(* What the call of p may rely on, although nothing is locked: a bootstrap  *)
(* on being the only one to give its task a document, a session on the task *)
(* having one, a cleanup on the identity of the file it unlinks.            *)
Sound(p) ==
    /\ call[p].at \in {"mkdir", "install"} => legacy[call[p].task] = None
    /\ call[p].at = "install" => call[p].task \in dir /\ doc[call[p].task] = None
    /\ call[p].at \in {"prepare", "replace"} =>
          Current(call[p].task) # None /\ call[p].to.stage # "intake"
    /\ call[p].at = "replace" => call[p].task \in dir
    /\ call[p].at = "unlink" => aside[p] = call[p].identity

OneInstaller ==
    \A p, q \in Procs :
        call[p].at = "install" /\ call[q].at = "install" /\ call[p].task = call[q].task
        => p = q

(* What a discovery has found so far, and what it may still find.           *)
Right(p) ==
    /\ call[p].at \in Discovering => call[p].found \subseteq seen[p]
    /\ call[p].at = "select" => steady[p] \subseteq call[p].found
    /\ call[p].at \in {"discover", "discoverLegacy"} =>
          /\ Active(call[p].repo) \subseteq seen[p]
          /\ steady[p] \subseteq Active(call[p].repo)
          /\ steady[p] \subseteq call[p].todo \cup call[p].found
    /\ call[p].at = "discoverLegacy" =>
          /\ IsActive(legacy[call[p].task], call[p].repo) => call[p].task \in seen[p]
          /\ call[p].task \in steady[p] => IsActive(legacy[call[p].task], call[p].repo)

IInv ==
    /\ TypeOK
    /\ OneInstaller
    /\ \A p \in Procs : Sound(p) /\ Right(p)

-----------------------------------------------------------------------------
(* What kind of call stands at which step.                                  *)
LEMMA Shapes ==
  ASSUME NEW c \in Calls
  PROVE  /\ c.at \in {"mkdir", "install"} => c \in [at : {"mkdir", "install"}, task : Tasks, repo : Repos]
         /\ c.at \in {"read", "readLegacy"} => c \in [at : {"read", "readLegacy"}, task : Tasks]
         /\ c.at \in {"prepare", "replace"} =>
               c \in [at : {"prepare", "replace"}, task : Tasks, to : Documents]
         /\ c.at = "discover" =>
               c \in [at : {"discover"}, repo : Repos, todo : SUBSET Tasks, found : SUBSET Tasks]
         /\ c.at = "discoverLegacy" =>
               c \in [at : {"discoverLegacy"}, task : Tasks, repo : Repos,
                      todo : SUBSET Tasks, found : SUBSET Tasks]
         /\ c.at = "select" => c \in [at : {"select"}, repo : Repos, found : SUBSET Tasks]
         /\ c.at \in {"move", "recheck", "unlink"} =>
               c \in [at : {"move", "recheck", "unlink"}, identity : Inodes]
  BY DEF Calls, Idle

(* A document is not the missing one, and neither is a file.                *)
LEMMA SomeIsNotNone == (\A d \in Documents : d # None) /\ (\A i \in Inodes : i # None)
  BY NoneIsNothing

(* The new call of p, next to the calls of the others.                      *)
LEMMA Going ==
  ASSUME call \in [Procs -> Calls], NEW p \in Procs, NEW c \in Calls, Go(p, c)
  PROVE  /\ call' \in [Procs -> Calls] /\ call'[p] = c
         /\ \A q \in Procs \ {p} : call'[q] = call[q]
  BY DEF Go

(* The parts of the type invariant.                                         *)
TasksOK ==
    /\ dir \subseteq Tasks
    /\ doc \in [Tasks -> Documents \cup {None}]
    /\ legacy \in [Tasks -> Documents \cup {None}]
    /\ \A t \in Tasks : doc[t] # None => t \in dir

Holding(p) == call[p].at \in {"recheck", "unlink"}

FilesOK ==
    /\ place \in Inodes \cup {None}
    /\ stranded \subseteq Inodes \ {place}
    /\ aside \in [Procs -> Inodes \cup {None}]
    /\ \A p \in Procs : IF Holding(p) THEN aside[p] \in Inodes \ (stranded \cup {place})
                                      ELSE aside[p] = None
    /\ \A p, q \in Procs : aside[p] = aside[q] => p = q \/ aside[p] = None

HistoryOK == steady \in [Procs -> SUBSET Tasks] /\ seen \in [Procs -> SUBSET Tasks]

LEMMA TypeParts == TypeOK <=> TasksOK /\ FilesOK /\ HistoryOK /\ call \in [Procs -> Calls]
  BY DEF TypeOK, TasksOK, FilesOK, HistoryOK, Holding

-----------------------------------------------------------------------------
(* The histories stay sets of tasks.                                        *)
LEMMA ObserveTyped ==
  ASSUME HistoryOK, Observe
  PROVE  HistoryOK'
<1>1. \A p \in Procs : Wanted(p)' \subseteq Tasks
  BY DEF Wanted, Active
<1>2. \A p \in Procs : /\ Since(steady[p], p, steady[p] \cap Wanted(p)') \subseteq Tasks
                       /\ Since(seen[p], p, seen[p] \cup Wanted(p)') \subseteq Tasks
  BY <1>1 DEF Since, HistoryOK
<1> QED BY <1>2 DEF Observe, HistoryOK

(* What the steps of others leave of a call: its files ...                  *)
LEMMA FilesStand ==
  ASSUME FilesOK, NEW p \in Procs, UNCHANGED files,
         \A q \in Procs \ {p} : call'[q] = call[q],
         ~Holding(p), call'[p].at \notin {"recheck", "unlink"}
  PROVE  FilesOK'
  BY DEF FilesOK, Holding, files

(* ... what it relies on ...                                                *)
LEMMA SoundStands ==
  ASSUME IInv, NEW p \in Procs, legacy' = legacy, dir \subseteq dir',
         \A q \in Procs \ {p} : call'[q] = call[q] /\ aside'[q] = aside[q],
         \/ doc' = doc
         \/ /\ call[p].at \in {"install", "replace"}
            /\ \E d \in Documents : doc' = [doc EXCEPT ![call[p].task] = d]
  PROVE  \A q \in Procs \ {p} : Sound(q)'
<1> SUFFICES ASSUME NEW q \in Procs \ {p} PROVE Sound(q)'
  OBVIOUS
<1>1. call'[q] = call[q] /\ aside'[q] = aside[q] /\ Sound(q) /\ Sound(p)
  BY DEF IInv
<1>2. call[p] \in Calls /\ call[q] \in Calls /\ doc \in [Tasks -> Documents \cup {None}]
  BY DEF IInv, TypeOK
<1>3. CASE doc' = doc
  BY <1>1, <1>3 DEF Sound, Current
<1>4. CASE /\ call[p].at \in {"install", "replace"}
           /\ \E d \in Documents : doc' = [doc EXCEPT ![call[p].task] = d]
  <2>1. PICK d \in Documents : doc' = [doc EXCEPT ![call[p].task] = d]
    BY <1>4
  <2>2. call[p].task \in Tasks
    BY <1>2, <1>4, Shapes
  <2>3. \A t \in Tasks : doc[t] # None => doc'[t] # None
    BY <1>2, <2>1, <2>2, SomeIsNotNone
  <2>4. ASSUME call[q].at = "install" PROVE doc'[call[q].task] = None
    <3>1. call[q].task \in Tasks /\ legacy[call[q].task] = None /\ doc[call[q].task] = None
      BY <1>1, <1>2, <2>4, Shapes DEF Sound
    <3>2. call[p].task # call[q].task
      BY <1>1, <1>4, <2>4, <3>1 DEF IInv, OneInstaller, Sound, Current
    <3> QED BY <1>2, <2>1, <2>2, <3>1, <3>2
  <2>5. ASSUME call[q].at \in {"prepare", "replace"} PROVE Current(call[q].task)' # None
    <3>1. call[q].task \in Tasks
      BY <1>2, <2>5, Shapes
    <3> QED BY <1>1, <2>3, <2>5, <3>1 DEF Sound, Current
  <2> QED BY <1>1, <2>4, <2>5 DEF Sound
<1> QED BY <1>3, <1>4

(* ... and what it found, while the tasks move on.                          *)
LEMMA RightStands ==
  ASSUME IInv, Observe, legacy' = legacy, NEW q \in Procs, call'[q] = call[q]
  PROVE  Right(q)'
<1>1. Right(q) /\ HistoryOK
  BY TypeParts DEF IInv
<1>2. /\ steady'[q] = Since(steady[q], q, steady[q] \cap Wanted(q)')
      /\ seen'[q] = Since(seen[q], q, seen[q] \cup Wanted(q)')
  BY DEF Observe
<1>3. CASE call[q].at \notin Discovering
  BY <1>3 DEF Right, Discovering
<1>4. CASE call[q].at = "select"
  BY <1>1, <1>2, <1>4 DEF Right, Since, Discovering
<1>5. CASE call[q].at \in {"discover", "discoverLegacy"}
  <2>1. /\ Wanted(q)' = Active(call[q].repo)'
        /\ steady'[q] = steady[q] \cap Wanted(q)'
        /\ seen'[q] = seen[q] \cup Wanted(q)'
    BY <1>2, <1>5 DEF Since, Discovering, Wanted
  <2>2. call[q].at # "select" /\ Right(q)
    BY <1>1, <1>5
  <2> QED BY <1>5, <2>1, <2>2 DEF Right, IsActive
<1> QED BY <1>3, <1>4, <1>5 DEF Discovering

(* A call that is not a discovery has found nothing wrong.                  *)
LEMMA RightElsewhere ==
  ASSUME NEW q \in Procs, call'[q].at \notin Discovering
  PROVE  Right(q)'
  BY DEF Right, Discovering

(* Only one of the calls that may install documents of one task.            *)
LEMMA InstallersStand ==
  ASSUME OneInstaller, NEW p \in Procs, call'[p].at # "install",
         \A q \in Procs \ {p} : call'[q] = call[q]
  PROVE  OneInstaller'
  BY DEF OneInstaller

-----------------------------------------------------------------------------
(* The invariant after a step of p, from what p itself has to show.         *)
LEMMA Assembled ==
  ASSUME IInv, Observe, NEW p \in Procs, NEW c \in Calls, Go(p, c), legacy' = legacy,
         TasksOK', FilesOK', OneInstaller', Sound(p)', Right(p)',
         \A q \in Procs \ {p} : Sound(q)'
  PROVE  IInv'
<1>1. TypeOK
  BY DEF IInv
<1>2. call' \in [Procs -> Calls] /\ \A q \in Procs \ {p} : call'[q] = call[q]
  BY <1>1, TypeParts, Going
<1>3. HistoryOK'
  BY <1>1, TypeParts, ObserveTyped
<1>4. TypeOK'
  BY <1>2, <1>3 DEF TypeOK, TasksOK, FilesOK, HistoryOK, Holding
<1>5. \A q \in Procs \ {p} : Right(q)'
  BY <1>2, RightStands
<1> QED BY <1>4, <1>5 DEF IInv

(* A step of p that touches no file: a call that begins, goes on or ends.   *)
LEMMA QuietStep ==
  ASSUME IInv, Observe, NEW p \in Procs, NEW c \in Calls, Go(p, c),
         UNCHANGED <<tasks, files>>, ~Holding(p),
         c.at \notin {"install", "recheck", "unlink"}, Sound(p)', Right(p)'
  PROVE  IInv'
<1>1. TypeOK /\ OneInstaller
  BY DEF IInv
<1>2. /\ call'[p] = c
      /\ \A q \in Procs \ {p} : call'[q] = call[q]
  BY <1>1, TypeParts, Going
<1>3. dir' = dir /\ doc' = doc /\ legacy' = legacy /\ aside' = aside
  BY DEF tasks, files
<1>4. TasksOK'
  BY <1>1, <1>3, TypeParts DEF TasksOK
<1>5. FilesOK'
  BY <1>1, <1>2, TypeParts, FilesStand
<1>6. OneInstaller'
  BY <1>1, <1>2, InstallersStand
<1>7. \A q \in Procs \ {p} : Sound(q)'
  BY <1>2, <1>3, SoundStands
<1> QED BY <1>3, <1>4, <1>5, <1>6, <1>7, Assembled

(* A step of p in a task directory.                                         *)
LEMMA TaskStep ==
  ASSUME IInv, Observe, NEW p \in Procs, NEW c \in Calls, Go(p, c),
         UNCHANGED files, ~Holding(p),
         c.at \notin Discovering \cup {"recheck", "unlink"},
         legacy' = legacy, dir \subseteq dir', TasksOK', OneInstaller', Sound(p)',
         \/ doc' = doc
         \/ /\ call[p].at \in {"install", "replace"}
            /\ \E d \in Documents : doc' = [doc EXCEPT ![call[p].task] = d]
  PROVE  IInv'
<1>1. TypeOK
  BY DEF IInv
<1>2. /\ call'[p] = c
      /\ \A q \in Procs \ {p} : call'[q] = call[q]
  BY <1>1, TypeParts, Going
<1>3. aside' = aside
  BY DEF files
<1>4. FilesOK'
  BY <1>1, <1>2, TypeParts, FilesStand
<1>5. \A q \in Procs \ {p} : Sound(q)'
  BY <1>2, <1>3, SoundStands
<1>6. Right(p)'
  BY <1>2, RightElsewhere
<1> QED BY <1>4, <1>5, <1>6, Assembled

(* A step of p in its quarantine.                                           *)
LEMMA FileStep ==
  ASSUME IInv, Observe, NEW p \in Procs, NEW c \in Calls, Go(p, c),
         UNCHANGED tasks, c.at \notin Discovering \cup {"install"},
         \A q \in Procs \ {p} : aside'[q] = aside[q], FilesOK', Sound(p)'
  PROVE  IInv'
<1>1. TypeOK /\ OneInstaller
  BY DEF IInv
<1>2. /\ call'[p] = c
      /\ \A q \in Procs \ {p} : call'[q] = call[q]
  BY <1>1, TypeParts, Going
<1>3. dir' = dir /\ doc' = doc /\ legacy' = legacy
  BY DEF tasks
<1>4. TasksOK'
  BY <1>1, <1>3, TypeParts DEF TasksOK
<1>5. OneInstaller'
  BY <1>1, <1>2, InstallersStand
<1>6. \A q \in Procs \ {p} : Sound(q)'
  BY <1>2, <1>3, SoundStands
<1>7. Right(p)'
  BY <1>2, RightElsewhere
<1> QED BY <1>3, <1>4, <1>5, <1>6, <1>7, Assembled

-----------------------------------------------------------------------------
(* The steps of a bootstrap and of a session that replaces a document.      *)
LEMMA MakeDirectoryStep ==
  ASSUME IInv, Observe, NEW p \in Procs, MakeDirectory(p)
  PROVE  IInv'
<1>1. /\ TasksOK /\ OneInstaller /\ Sound(p) /\ call \in [Procs -> Calls]
      /\ call[p] \in [at : {"mkdir", "install"}, task : Tasks, repo : Repos]
      /\ call[p].at = "mkdir" /\ ~Holding(p)
  BY TypeParts, Shapes DEF IInv, TypeOK, MakeDirectory, Holding
<1>2. CASE call[p].task \in dir
  <2>1. Go(p, Idle) /\ UNCHANGED <<tasks, files>>
    BY <1>2 DEF MakeDirectory
  <2>2. Idle \in Calls /\ Idle.at = "idle" /\ call'[p] = Idle
    BY <1>1, <2>1, Going DEF Calls, Idle
  <2>3. Sound(p)' /\ Right(p)'
    BY <2>2, RightElsewhere DEF Sound, Discovering
  <2> QED BY <1>1, <2>1, <2>2, <2>3, QuietStep
<1>3. CASE call[p].task \notin dir
  <2> DEFINE c == [call[p] EXCEPT !.at = "install"]
  <2>1. /\ Go(p, c) /\ UNCHANGED files /\ dir' = dir \cup {call[p].task}
        /\ doc' = doc /\ legacy' = legacy
    BY <1>3 DEF MakeDirectory
  <2>2. c \in Calls /\ c.at = "install" /\ c.task = call[p].task
    BY <1>1 DEF Calls
  <2> HIDE DEF c
  <2>3. call'[p] = c /\ \A q \in Procs \ {p} : call'[q] = call[q]
    BY <1>1, <2>1, <2>2, Going
  <2>4. TasksOK'
    BY <1>1, <2>1 DEF TasksOK
  <2>5. \A q \in Procs : call[q].at = "install" => call[q].task # c.task
    BY <1>3, <2>2 DEF IInv, Sound
  <2>6. OneInstaller'
    BY <1>1, <2>3, <2>5 DEF OneInstaller
  <2>7. Sound(p)'
    BY <1>1, <1>3, <2>1, <2>2, <2>3 DEF Sound, TasksOK
  <2> QED BY <1>1, <2>1, <2>2, <2>4, <2>6, <2>7, TaskStep DEF Discovering
<1> QED BY <1>2, <1>3

LEMMA InstallInitialStep ==
  ASSUME IInv, Observe, NEW p \in Procs, InstallInitial(p)
  PROVE  IInv'
<1> DEFINE d == [repo |-> call[p].repo, stage |-> "intake"]
<1>1. /\ TasksOK /\ OneInstaller /\ Sound(p) /\ call \in [Procs -> Calls]
      /\ call[p] \in [at : {"mkdir", "install"}, task : Tasks, repo : Repos]
      /\ call[p].at = "install" /\ ~Holding(p)
  BY TypeParts, Shapes DEF IInv, TypeOK, InstallInitial, Holding
<1>2. /\ Go(p, Idle) /\ UNCHANGED files /\ dir' = dir /\ legacy' = legacy
      /\ doc' = [doc EXCEPT ![call[p].task] = d] /\ d \in Documents
  BY <1>1 DEF InstallInitial, Documents
<1> HIDE DEF d
<1>3. Idle \in Calls /\ Idle.at = "idle" /\ call'[p] = Idle
      /\ \A q \in Procs \ {p} : call'[q] = call[q]
  BY <1>1, <1>2, Going DEF Calls, Idle
<1>4. TasksOK'
  BY <1>1, <1>2 DEF TasksOK, Sound
<1>5. OneInstaller'
  BY <1>1, <1>3, InstallersStand
<1>6. Sound(p)'
  BY <1>3 DEF Sound
<1> QED BY <1>1, <1>2, <1>3, <1>4, <1>5, <1>6, TaskStep DEF Discovering

LEMMA OpenTaskDirectoryStep ==
  ASSUME IInv, Observe, NEW p \in Procs, OpenTaskDirectory(p)
  PROVE  IInv'
<1> DEFINE c == [call[p] EXCEPT !.at = "replace"]
<1>1. /\ TasksOK /\ OneInstaller /\ Sound(p) /\ call \in [Procs -> Calls]
      /\ call[p] \in [at : {"prepare", "replace"}, task : Tasks, to : Documents]
      /\ call[p].at = "prepare" /\ ~Holding(p)
  BY TypeParts, Shapes DEF IInv, TypeOK, OpenTaskDirectory, Holding
<1>2. /\ Go(p, c) /\ UNCHANGED files /\ dir' = dir \cup {call[p].task}
      /\ doc' = doc /\ legacy' = legacy
  BY DEF OpenTaskDirectory
<1>3. c \in Calls /\ c.at = "replace" /\ c.task = call[p].task /\ c.to = call[p].to
  BY <1>1 DEF Calls
<1> HIDE DEF c
<1>4. call'[p] = c /\ \A q \in Procs \ {p} : call'[q] = call[q]
  BY <1>1, <1>2, <1>3, Going
<1>5. TasksOK'
  BY <1>1, <1>2 DEF TasksOK
<1>6. OneInstaller'
  BY <1>1, <1>3, <1>4, InstallersStand
<1>7. Sound(p)'
  BY <1>1, <1>2, <1>3, <1>4 DEF Sound, Current
<1> QED BY <1>1, <1>2, <1>3, <1>5, <1>6, <1>7, TaskStep DEF Discovering

LEMMA ReplaceStateStep ==
  ASSUME IInv, Observe, NEW p \in Procs, ReplaceState(p)
  PROVE  IInv'
<1>1. /\ TasksOK /\ OneInstaller /\ Sound(p) /\ call \in [Procs -> Calls]
      /\ call[p] \in [at : {"prepare", "replace"}, task : Tasks, to : Documents]
      /\ call[p].at = "replace" /\ ~Holding(p)
  BY TypeParts, Shapes DEF IInv, TypeOK, ReplaceState, Holding
<1>2. /\ Go(p, Idle) /\ UNCHANGED files /\ dir' = dir /\ legacy' = legacy
      /\ doc' = [doc EXCEPT ![call[p].task] = call[p].to]
  BY DEF ReplaceState
<1>3. Idle \in Calls /\ Idle.at = "idle" /\ call'[p] = Idle
      /\ \A q \in Procs \ {p} : call'[q] = call[q]
  BY <1>1, <1>2, Going DEF Calls, Idle
<1>4. TasksOK'
  BY <1>1, <1>2 DEF TasksOK, Sound
<1>5. OneInstaller'
  BY <1>1, <1>3, InstallersStand
<1>6. Sound(p)'
  BY <1>3 DEF Sound
<1> QED BY <1>1, <1>2, <1>3, <1>4, <1>5, <1>6, TaskStep DEF Discovering

-----------------------------------------------------------------------------
(* The steps that only read the task directories.                           *)
LEMMA ReadStep ==
  ASSUME IInv, Observe, NEW p \in Procs, ReadState(p) \/ ReadLegacyState(p)
  PROVE  IInv'
<1> DEFINE t == call[p].task
<1>1. /\ TasksOK /\ call \in [Procs -> Calls] /\ ~Holding(p) /\ UNCHANGED <<tasks, files>>
      /\ call[p] \in [at : {"read", "readLegacy"}, task : Tasks]
  BY TypeParts, Shapes DEF IInv, TypeOK, ReadState, ReadLegacyState, Holding
<1>2. doc' = doc /\ legacy' = legacy /\ t \in Tasks
  BY <1>1 DEF tasks
<1>3. CASE Go(p, Idle) \/ Go(p, [call[p] EXCEPT !.at = "readLegacy"])
  <2>1. PICK c \in {Idle, [call[p] EXCEPT !.at = "readLegacy"]} : Go(p, c)
    BY <1>3
  <2>2. c \in Calls /\ c.at \in {"idle", "readLegacy"}
    BY <1>1 DEF Calls, Idle
  <2>3. call'[p] = c
    BY <1>1, <2>1, <2>2, Going
  <2>4. Sound(p)' /\ Right(p)'
    BY <2>2, <2>3, RightElsewhere DEF Sound, Discovering
  <2> QED BY <1>1, <2>1, <2>2, <2>4, QuietStep
<1>4. CASE \E d \in Documents : d \in {doc[t], legacy[t]} /\ Prepared(p, d)
  <2>1. PICK d \in Documents : d \in {doc[t], legacy[t]} /\ Prepared(p, d)
    BY <1>4
  <2>2. PICK s \in {"work", "done"} :
           Go(p, [at |-> "prepare", task |-> t, to |-> [d EXCEPT !.stage = s]])
    BY <2>1 DEF Prepared
  <2> DEFINE c == [at |-> "prepare", task |-> t, to |-> [d EXCEPT !.stage = s]]
  <2>3. [d EXCEPT !.stage = s] \in Documents /\ [d EXCEPT !.stage = s].stage # "intake"
    BY <2>1 DEF Documents
  <2>4. c \in Calls
    BY <1>2, <2>3 DEF Calls
  <2>5. c.at = "prepare" /\ c.task = t /\ c.to.stage # "intake"
    BY <2>3
  <2>6. Go(p, c)
    BY <2>2
  <2> HIDE DEF c
  <2>7. call'[p] = c
    BY <1>1, <2>4, <2>6, Going
  <2>8. Current(t) # None
    BY <2>1, SomeIsNotNone DEF Current
  <2>9. Sound(p)' /\ Right(p)'
    BY <1>2, <2>5, <2>7, <2>8, RightElsewhere DEF Sound, Discovering, Current
  <2> QED BY <1>1, <2>4, <2>5, <2>6, <2>9, QuietStep
<1>5. doc[t] \in Documents \cup {None} /\ legacy[t] \in Documents \cup {None}
  BY <1>1, <1>2 DEF TasksOK
<1>6. CASE ReadState(p)
  BY <1>3, <1>4, <1>5, <1>6 DEF ReadState
<1>7. CASE ReadLegacyState(p)
  BY <1>3, <1>4, <1>5, <1>7 DEF ReadLegacyState
<1> QED BY <1>6, <1>7

(* Calls that begin: a bootstrap, a session, or nothing at all.             *)
LEMMA BeginStep ==
  ASSUME IInv, Observe, NEW p \in Procs, UNCHANGED <<tasks, files>>, ~Holding(p),
         \/ \E t \in Tasks, r \in Repos : Bootstrap(p, t, r)
         \/ \E t \in Tasks : Resume(p, t)
         \/ Examine(p)
         \/ Go(p, Idle)
  PROVE  IInv'
<1>1. /\ FilesOK /\ call \in [Procs -> Calls] /\ legacy' = legacy
  BY TypeParts DEF IInv, tasks
<1>2. \E c \in Calls : /\ Go(p, c)
                       /\ c.at \in {"idle", "mkdir", "read", "move"}
                       /\ c.at = "mkdir" => legacy[c.task] = None
  <2>1. ASSUME NEW t \in Tasks, NEW r \in Repos, Bootstrap(p, t, r) PROVE <1>2
    <3> DEFINE c == [at |-> "mkdir", task |-> t, repo |-> r]
    <3>1. c \in Calls /\ c.at = "mkdir" /\ c.task = t
      BY DEF Calls
    <3> QED BY <2>1, <3>1 DEF Bootstrap
  <2>2. ASSUME NEW t \in Tasks, Resume(p, t) PROVE <1>2
    <3> DEFINE c == [at |-> "read", task |-> t]
    <3>1. c \in Calls /\ c.at = "read"
      BY DEF Calls
    <3> QED BY <2>2, <3>1 DEF Resume
  <2>3. ASSUME Examine(p) PROVE <1>2
    <3> DEFINE c == [at |-> "move", identity |-> place]
    <3>1. c \in Calls /\ c.at = "move"
      BY <1>1, <2>3 DEF Calls, Examine, FilesOK
    <3> QED BY <2>3, <3>1 DEF Examine
  <2>4. ASSUME Go(p, Idle) PROVE <1>2
    <3>1. Idle \in Calls /\ Idle.at = "idle"
      BY DEF Calls, Idle
    <3> QED BY <2>4, <3>1
  <2> QED BY <2>1, <2>2, <2>3, <2>4
<1>3. PICK c \in Calls : /\ Go(p, c)
                         /\ c.at \in {"idle", "mkdir", "read", "move"}
                         /\ c.at = "mkdir" => legacy[c.task] = None
  BY <1>2
<1>4. call'[p] = c
  BY <1>1, <1>3, Going
<1>5. Sound(p)' /\ Right(p)'
  BY <1>1, <1>3, <1>4, RightElsewhere DEF Sound, Discovering
<1> QED BY <1>3, <1>5, QuietStep

(* A discovery that goes on to its next task, or to the selection.          *)
LEMMA LookStep ==
  ASSUME IInv, Observe, NEW p \in Procs, UNCHANGED <<tasks, files>>, ~Holding(p),
         NEW r \in Repos, NEW todo \in SUBSET Tasks, NEW found \in SUBSET Tasks,
         Look(p, r, todo, found),
         IF call[p].at \in Discovering
         THEN /\ call[p].at # "select" /\ call[p].repo = r
              /\ found \subseteq seen[p] \cup Active(r)
              /\ steady[p] \cap Active(r) \subseteq todo \cup found
         ELSE found = {} /\ Active(r) \subseteq todo
  PROVE  IInv'
<1> DEFINE c == IF todo = {} THEN [at |-> "select", repo |-> r, found |-> found]
                ELSE [at |-> "discover", repo |-> r, todo |-> todo, found |-> found]
<1>1. c \in Calls /\ c.at \in {"select", "discover"} /\ Go(p, c)
  BY DEF Calls, Look
<1>2. /\ c.repo = r /\ c.found = found
      /\ c.at = "discover" => c.todo = todo
      /\ c.at = "select" => todo = {}
  OBVIOUS
<1> HIDE DEF c
<1>3. call \in [Procs -> Calls] /\ HistoryOK
  BY TypeParts DEF IInv
<1>4. call'[p] = c
  BY <1>1, <1>3, Going
<1>5. doc' = doc /\ legacy' = legacy /\ Active(r)' = Active(r)
  BY DEF tasks, Active, Current
<1>6. Wanted(p)' = Active(r)
  BY <1>1, <1>2, <1>4, <1>5 DEF Wanted, Discovering
<1>7. /\ steady'[p] = Since(steady[p], p, steady[p] \cap Wanted(p)')
      /\ seen'[p] = Since(seen[p], p, seen[p] \cup Wanted(p)')
  BY DEF Observe
<1>8. /\ found \subseteq seen'[p] /\ Active(r) \subseteq seen'[p]
      /\ steady'[p] \subseteq Active(r) /\ steady'[p] \subseteq todo \cup found
  BY <1>1, <1>4, <1>6, <1>7 DEF Since, Discovering
<1>9. Right(p)'
  BY <1>1, <1>2, <1>4, <1>5, <1>8 DEF Right, Discovering
<1>10. Sound(p)'
  BY <1>1, <1>4 DEF Sound
<1> QED BY <1>1, <1>9, <1>10, QuietStep

LEMMA ListStep ==
  ASSUME IInv, Observe, NEW p \in Procs, NEW r \in Repos, call[p].at = "idle",
         ListTasks(p, r), UNCHANGED <<tasks, files>>
  PROVE  IInv'
<1> DEFINE todo == dir \cup {t \in Tasks : legacy[t] # None}
<1>1. TasksOK /\ ~Holding(p) /\ call[p].at \notin Discovering
  BY TypeParts DEF IInv, Holding, Discovering
<1>2. todo \in SUBSET Tasks /\ Active(r) \subseteq todo
  BY <1>1 DEF TasksOK, Active, IsActive, Current
<1>3. Look(p, r, todo, {})
  BY DEF ListTasks
<1> HIDE DEF todo
<1> QED BY <1>1, <1>2, <1>3, LookStep

(* One that has read a document of task t, of the layout it should read.    *)
LEMMA OfferStep ==
  ASSUME IInv, Observe, NEW p \in Procs, UNCHANGED <<tasks, files>>,
         call[p].at \in {"discover", "discoverLegacy"},
         NEW t \in Tasks, NEW d, Offer(p, t, d),
         IsActive(d, call[p].repo) => t \in seen[p] \cup Active(call[p].repo),
         t \in steady[p] \cap Active(call[p].repo) => IsActive(d, call[p].repo)
  PROVE  IInv'
<1> DEFINE r == call[p].repo
           todo == call[p].todo \ {t}
           found == IF IsActive(d, r) THEN call[p].found \cup {t} ELSE call[p].found
<1>1. Right(p) /\ call[p] \in Calls /\ ~Holding(p) /\ call[p].at \in Discovering /\ call[p].at # "select"
  BY DEF IInv, TypeOK, Holding, Discovering
<1>2. r \in Repos /\ call[p].todo \subseteq Tasks /\ call[p].found \subseteq Tasks
  BY <1>1, Shapes
<1>3. todo \in SUBSET Tasks /\ found \in SUBSET Tasks
  BY <1>2
<1>4. found \subseteq seen[p] \cup Active(r)
  BY <1>1 DEF Right
<1>5. steady[p] \cap Active(r) \subseteq todo \cup found
  BY <1>1 DEF Right
<1>6. Look(p, r, todo, found)
  BY DEF Offer
<1> HIDE DEF todo, found
<1> QED BY <1>1, <1>2, <1>3, <1>4, <1>5, <1>6, LookStep

LEMMA DiscoverStep ==
  ASSUME IInv, Observe, NEW p \in Procs, NEW t \in Tasks, DiscoverState(p, t)
  PROVE  IInv'
<1>1. /\ TasksOK /\ HistoryOK /\ Right(p) /\ call \in [Procs -> Calls] /\ ~Holding(p)
      /\ call[p] \in [at : {"discover"}, repo : Repos, todo : SUBSET Tasks, found : SUBSET Tasks]
      /\ UNCHANGED <<tasks, files>> /\ call[p].at = "discover"
  BY TypeParts, Shapes DEF IInv, TypeOK, DiscoverState, Holding
<1>2. PICK r \in Repos : r = call[p].repo
  BY <1>1
<1>3. CASE doc[t] # None
  <2>1. Offer(p, t, doc[t])
    BY <1>3 DEF DiscoverState
  <2>2. IsActive(doc[t], r) <=> t \in Active(r)
    BY <1>3 DEF Active, Current
  <2> QED BY <1>1, <1>2, <2>1, <2>2, OfferStep
<1>4. CASE doc[t] = None
  <2> DEFINE c == [at |-> "discoverLegacy", task |-> t, repo |-> r,
                   todo |-> call[p].todo, found |-> call[p].found]
  <2>1. Go(p, c)
    BY <1>4, <1>2 DEF DiscoverState
  <2>2. c \in Calls
    BY <1>1 DEF Calls
  <2>3. /\ c.at = "discoverLegacy" /\ c.task = t /\ c.repo = r
        /\ c.todo = call[p].todo /\ c.found = call[p].found
    OBVIOUS
  <2> HIDE DEF c
  <2>4. call'[p] = c
    BY <1>1, <2>1, <2>2, Going
  <2>5. doc' = doc /\ legacy' = legacy /\ Active(r)' = Active(r)
    BY <1>1 DEF tasks, Active, Current
  <2>6. Wanted(p)' = Active(r)
    BY <2>3, <2>4, <2>5 DEF Wanted, Discovering
  <2>7. steady'[p] = steady[p] \cap Active(r) /\ seen'[p] = seen[p] \cup Active(r)
    BY <1>1, <1>2, <2>3, <2>4, <2>6 DEF Observe, Since, Discovering
  <2>8. IsActive(legacy[t], r) <=> t \in Active(r)
    BY <1>4 DEF Active, Current
  <2>9. Right(p)'
    BY <1>1, <1>2, <2>3, <2>4, <2>5, <2>7, <2>8 DEF Right, Discovering
  <2>10. Sound(p)'
    BY <2>3, <2>4 DEF Sound
  <2> QED BY <1>1, <2>1, <2>2, <2>3, <2>9, <2>10, QuietStep
<1> QED BY <1>3, <1>4

LEMMA DiscoverLegacyStep ==
  ASSUME IInv, Observe, NEW p \in Procs, DiscoverLegacyState(p)
  PROVE  IInv'
<1>1. /\ Right(p) /\ call \in [Procs -> Calls] /\ ~Holding(p)
      /\ call[p] \in [at : {"discoverLegacy"}, task : Tasks, repo : Repos,
                      todo : SUBSET Tasks, found : SUBSET Tasks]
      /\ UNCHANGED <<tasks, files>> /\ call[p].at = "discoverLegacy"
  BY TypeParts, Shapes DEF IInv, TypeOK, DiscoverLegacyState, Holding
<1>2. CASE Go(p, Idle)
  BY <1>1, <1>2, BeginStep
<1>3. CASE Offer(p, call[p].task, legacy[call[p].task])
  BY <1>1, <1>3, OfferStep DEF Right
<1> QED BY <1>2, <1>3 DEF DiscoverLegacyState

LEMMA SelectStep ==
  ASSUME IInv, Observe, NEW p \in Procs, Select(p)
  PROVE  IInv'
<1>1. /\ call[p] \in [at : {"select"}, repo : Repos, found : SUBSET Tasks]
      /\ ~Holding(p) /\ UNCHANGED <<tasks, files>>
  BY Shapes DEF IInv, TypeOK, Select, Holding
<1>2. \/ \E t \in Tasks, r \in Repos : Bootstrap(p, t, r)
      \/ \E t \in Tasks : Resume(p, t)
      \/ Go(p, Idle)
  BY <1>1 DEF Select
<1> QED BY <1>1, <1>2, BeginStep

LEMMA InvokeStep ==
  ASSUME IInv, Observe, NEW p \in Procs, Invoke(p)
  PROVE  IInv'
<1>1. ~Holding(p) /\ UNCHANGED <<tasks, files>> /\ call[p].at = "idle"
  BY DEF Invoke, Holding
<1>2. CASE \E r \in Repos : ListTasks(p, r)
  BY <1>1, <1>2, ListStep
<1>3. CASE \/ \E t \in Tasks, r \in Repos : Bootstrap(p, t, r)
           \/ \E t \in Tasks : Resume(p, t)
           \/ Examine(p)
  BY <1>1, <1>3, BeginStep
<1> QED BY <1>2, <1>3 DEF Invoke

-----------------------------------------------------------------------------
(* The steps of a cleanup, and the files nobody cleans up any more.         *)
LEMMA MoveStep ==
  ASSUME IInv, Observe, NEW p \in Procs, MoveToQuarantine(p)
  PROVE  IInv'
<1>1. /\ FilesOK /\ call \in [Procs -> Calls] /\ ~Holding(p) /\ UNCHANGED tasks
      /\ call[p] \in [at : {"move", "recheck", "unlink"}, identity : Inodes]
  BY TypeParts, Shapes DEF IInv, TypeOK, MoveToQuarantine, Holding
<1>2. CASE place = None
  BY <1>1, <1>2, BeginStep DEF MoveToQuarantine
<1>3. CASE place # None
  <2> DEFINE c == [call[p] EXCEPT !.at = "recheck"]
  <2>1. /\ aside' = [aside EXCEPT ![p] = place] /\ place' = None /\ stranded' = stranded
        /\ Go(p, c)
    BY <1>3 DEF MoveToQuarantine
  <2>2. c \in Calls /\ c.at = "recheck"
    BY <1>1 DEF Calls
  <2> HIDE DEF c
  <2>3. call'[p] = c /\ \A q \in Procs \ {p} : call'[q] = call[q]
    BY <1>1, <2>1, <2>2, Going
  <2>4. Holding(p)' /\ \A q \in Procs \ {p} : Holding(q)' <=> Holding(q)
    BY <2>2, <2>3 DEF Holding
  <2>5. place \in Inodes /\ \A q \in Procs : aside[q] # place
    BY <1>1, <1>3 DEF FilesOK
  <2>6. FilesOK'
    <3>1. aside' \in [Procs -> Inodes \cup {None}] /\ place' \in Inodes \cup {None}
          /\ stranded' \subseteq Inodes \ {place'}
      BY <1>1, <2>1, <2>5, SomeIsNotNone DEF FilesOK
    <3>2. aside'[p] = place /\ \A q \in Procs \ {p} : aside'[q] = aside[q]
      BY <1>1, <2>1 DEF FilesOK
    <3>3. place \notin stranded
      BY <1>1, <1>3 DEF FilesOK
    <3>4. ASSUME NEW q \in Procs
          PROVE  IF Holding(q)' THEN aside'[q] \in Inodes \ (stranded' \cup {place'})
                                ELSE aside'[q] = None
      BY <1>1, <2>1, <2>4, <2>5, <3>2, <3>3, SomeIsNotNone DEF FilesOK
    <3>5. \A q1, q2 \in Procs : aside'[q1] = aside'[q2] => q1 = q2 \/ aside'[q1] = None
      BY <1>1, <2>5, <3>2 DEF FilesOK
    <3> QED BY <3>1, <3>4, <3>5 DEF FilesOK
  <2>7. \A q \in Procs \ {p} : aside'[q] = aside[q]
    BY <1>1, <2>1 DEF FilesOK
  <2>8. Sound(p)'
    BY <2>2, <2>3 DEF Sound
  <2> QED BY <1>1, <2>1, <2>2, <2>6, <2>7, <2>8, FileStep DEF Discovering
<1> QED BY <1>2, <1>3

(* A quarantine that p does not work on any more, or that is gone.          *)
LEMMA QuarantineLeft ==
  ASSUME FilesOK, NEW p \in Procs, \A q \in Procs \ {p} : call'[q] = call[q],
         call'[p].at \notin {"recheck", "unlink"}, place' = place,
         aside' = [aside EXCEPT ![p] = None],
         stranded' \in {stranded, stranded \cup ({aside[p]} \ {None})}
  PROVE  FilesOK' /\ \A q \in Procs \ {p} : aside'[q] = aside[q]
<1>1. aside'[p] = None /\ \A q \in Procs \ {p} : aside'[q] = aside[q]
  BY DEF FilesOK
<1>2. ~Holding(p)' /\ \A q \in Procs \ {p} : Holding(q)' <=> Holding(q)
  BY DEF Holding
<1>3. stranded' \subseteq Inodes \ {place'}
  BY DEF FilesOK
<1>4. aside' \in [Procs -> Inodes \cup {None}] /\ place' \in Inodes \cup {None}
  BY DEF FilesOK
<1>5. ASSUME NEW q \in Procs
      PROVE  IF Holding(q)' THEN aside'[q] \in Inodes \ (stranded' \cup {place'})
                            ELSE aside'[q] = None
  <2>1. CASE q = p
    BY <1>1, <1>2, <2>1
  <2>2. CASE q # p
    <3>1. aside[p] = aside[q] => aside[q] = None
      BY <2>2 DEF FilesOK
    <3>2. IF Holding(q) THEN aside[q] \in Inodes \ (stranded \cup {place}) ELSE aside[q] = None
      BY DEF FilesOK
    <3> QED BY <1>1, <1>2, <2>2, <3>1, <3>2, SomeIsNotNone
  <2> QED BY <2>1, <2>2
<1>6. \A q1, q2 \in Procs : aside'[q1] = aside'[q2] => q1 = q2 \/ aside'[q1] = None
  BY <1>1 DEF FilesOK
<1> QED BY <1>1, <1>3, <1>4, <1>5, <1>6 DEF FilesOK

(* A cleanup that ends, by itself or killed, whatever becomes of its file.  *)
LEMMA EndStep ==
  ASSUME IInv, Observe, NEW p \in Procs, UNCHANGED tasks, Go(p, Idle), place' = place,
         aside' = [aside EXCEPT ![p] = None],
         stranded' \in {stranded, stranded \cup ({aside[p]} \ {None})}
  PROVE  IInv'
<1>1. FilesOK /\ call \in [Procs -> Calls]
  BY TypeParts DEF IInv
<1>2. Idle \in Calls /\ Idle.at = "idle"
  BY DEF Calls, Idle
<1>3. call'[p] = Idle /\ \A q \in Procs \ {p} : call'[q] = call[q]
  BY <1>1, <1>2, Going
<1>4. FilesOK' /\ \A q \in Procs \ {p} : aside'[q] = aside[q]
  BY <1>1, <1>2, <1>3, QuarantineLeft
<1>5. Sound(p)'
  BY <1>2, <1>3 DEF Sound
<1> QED BY <1>2, <1>4, <1>5, FileStep DEF Discovering

LEMMA RequireIdentityStep ==
  ASSUME IInv, Observe, NEW p \in Procs, RequireIdentity(p)
  PROVE  IInv'
<1>1. CASE aside[p] = call[p].identity
  <2> DEFINE c == [call[p] EXCEPT !.at = "unlink"]
  <2>1. /\ Go(p, c) /\ UNCHANGED files /\ UNCHANGED tasks /\ call[p].at = "recheck"
        /\ aside' = aside
    BY <1>1 DEF RequireIdentity, files
  <2>2. /\ FilesOK /\ call \in [Procs -> Calls]
        /\ call[p] \in [at : {"move", "recheck", "unlink"}, identity : Inodes]
    BY <2>1, TypeParts, Shapes DEF IInv, TypeOK
  <2>3. c \in Calls /\ c.at = "unlink" /\ c.identity = call[p].identity
    BY <2>2 DEF Calls
  <2> HIDE DEF c
  <2>4. call'[p] = c /\ \A q \in Procs \ {p} : call'[q] = call[q]
    BY <2>1, <2>2, <2>3, Going
  <2>5. \A q \in Procs : Holding(q)' <=> Holding(q)
    BY <2>1, <2>3, <2>4 DEF Holding
  <2>6. FilesOK'
    BY <2>1, <2>2, <2>5 DEF FilesOK, files
  <2>7. Sound(p)'
    BY <1>1, <2>1, <2>3, <2>4 DEF Sound
  <2> QED BY <2>1, <2>3, <2>6, <2>7, FileStep DEF Discovering
<1>2. CASE aside[p] # call[p].identity
  BY <1>2, EndStep DEF RequireIdentity, Abandon
<1> QED BY <1>1, <1>2

LEMMA UnlinkStep ==
  ASSUME IInv, Observe, NEW p \in Procs, UnlinkQuarantined(p)
  PROVE  IInv'
  BY EndStep DEF UnlinkQuarantined

LEMMA KillStep ==
  ASSUME IInv, Observe, NEW p \in Procs, Kill(p)
  PROVE  IInv'
  BY EndStep DEF Kill, Abandon

LEMMA TouchStep ==
  ASSUME IInv, Observe, TouchDisposable
  PROVE  IInv'
<1>1. /\ TypeOK /\ TasksOK /\ FilesOK /\ HistoryOK
      /\ dir' = dir /\ doc' = doc /\ legacy' = legacy /\ call' = call
      /\ aside' = aside /\ stranded' = stranded
  BY TypeParts DEF IInv, TouchDisposable, tasks
<1>2. PICK f \in {None} \cup (Inodes \ InUse) : place' = f
  BY DEF TouchDisposable
<1>3. f \notin stranded /\ \A q \in Procs : aside[q] # None => aside[q] # f
  BY <1>1, <1>2, SomeIsNotNone DEF InUse, Range, FilesOK
<1>4. FilesOK'
  BY <1>1, <1>2, <1>3, SomeIsNotNone DEF FilesOK, Holding
<1>5. TypeOK'
  BY <1>1, <1>4, ObserveTyped DEF TypeOK, TasksOK, FilesOK, HistoryOK, Holding
<1>6. \A q \in Procs : Right(q)'
  BY <1>1, RightStands
<1>7. OneInstaller' /\ \A q \in Procs : Sound(q)'
  BY <1>1 DEF IInv, OneInstaller, Sound, Current
<1> QED BY <1>5, <1>6, <1>7 DEF IInv

-----------------------------------------------------------------------------
(* The invariant is inductive.                                              *)
LEMMA InitIInv == Init => IInv
<1> SUFFICES ASSUME Init PROVE IInv
  OBVIOUS
<1>1. legacy \in [Tasks -> Documents \cup {None}]
  BY DEF Init
<1>2. \A p \in Procs : call[p].at = "idle" /\ Idle \in Calls
  BY DEF Init, Idle, Calls
<1>3. TypeOK
  BY <1>1, <1>2 DEF Init, TypeOK
<1>4. \A p \in Procs : Sound(p) /\ Right(p)
  BY <1>2 DEF Sound, Right, Discovering
<1> QED BY <1>2, <1>3, <1>4 DEF IInv, OneInstaller

LEMMA StepIInv ==
  ASSUME IInv, Observe, NEW p \in Procs, Step(p)
  PROVE  IInv'
<1>1. CASE Invoke(p)
  BY <1>1, InvokeStep
<1>2. CASE MakeDirectory(p)
  BY <1>2, MakeDirectoryStep
<1>3. CASE InstallInitial(p)
  BY <1>3, InstallInitialStep
<1>4. CASE ReadState(p) \/ ReadLegacyState(p)
  BY <1>4, ReadStep
<1>5. CASE OpenTaskDirectory(p)
  BY <1>5, OpenTaskDirectoryStep
<1>6. CASE ReplaceState(p)
  BY <1>6, ReplaceStateStep
<1>7. CASE \E t \in Tasks : DiscoverState(p, t)
  BY <1>7, DiscoverStep
<1>8. CASE DiscoverLegacyState(p)
  BY <1>8, DiscoverLegacyStep
<1>9. CASE Select(p)
  BY <1>9, SelectStep
<1>10. CASE MoveToQuarantine(p)
  BY <1>10, MoveStep
<1>11. CASE RequireIdentity(p)
  BY <1>11, RequireIdentityStep
<1>12. CASE UnlinkQuarantined(p)
  BY <1>12, UnlinkStep
<1>13. CASE Kill(p)
  BY <1>13, KillStep
<1> QED BY <1>1, <1>2, <1>3, <1>4, <1>5, <1>6, <1>7, <1>8, <1>9, <1>10, <1>11, <1>12, <1>13
        DEF Step

LEMMA NextIInv == IInv /\ [Next]_vars => IInv'
<1>1. ASSUME IInv, Next PROVE IInv'
  BY <1>1, StepIInv, TouchStep DEF Next
<1>2. ASSUME IInv, UNCHANGED vars PROVE IInv'
  BY <1>2 DEF vars, tasks, files, IInv, TypeOK, OneInstaller, Sound, Right, Current, Active,
              Discovering
<1> QED BY <1>1, <1>2

(* The invariant of every behaviour.                                        *)
THEOREM Invariance == Spec => []IInv
  BY InitIInv, NextIInv, PTL DEF Spec

(* The types, and that a file has one place: see TypeOK.                    *)
THEOREM TypeCorrect == Spec => []TypeOK
<1>1. IInv => TypeOK
  BY DEF IInv
<1> QED BY <1>1, Invariance, PTL

(* A discovery that gets through is right about every task: see             *)
(* DiscoveryTrue.                                                           *)
THEOREM DiscoveryIsTrue == Spec => []DiscoveryTrue
<1>1. IInv => DiscoveryTrue
  BY DEF IInv, Right, DiscoveryTrue, Discovering
<1> QED BY <1>1, Invariance, PTL

-----------------------------------------------------------------------------
(* What a step may destroy: see DestroysOnlyItsOwn.                         *)
KeepsDocuments ==
    \A t \in Tasks : Current(t) # None /\ Current(t)' # Current(t) => Current(t)'.stage # "intake"
KeepsFiles ==
    \A p \in Procs : aside[p] # None /\ aside'[p] = None =>
        aside[p] \in stranded' \/ aside[p] = call[p].identity

LEMMA DocumentsKept ==
  ASSUME IInv, NEW p \in Procs, Step(p)
  PROVE  KeepsDocuments
<1>1. /\ doc \in [Tasks -> Documents \cup {None}] /\ Sound(p)
      /\ call[p].at = "install" => call[p].task \in Tasks
      /\ call[p].at = "replace" => call[p].task \in Tasks /\ call[p].to \in Documents
  BY Shapes DEF IInv, TypeOK
<1>2. CASE InstallInitial(p)
  <2>1. \A t \in Tasks \ {call[p].task} : doc'[t] = doc[t] /\ legacy'[t] = legacy[t]
    BY <1>1, <1>2 DEF InstallInitial
  <2>2. Current(call[p].task) = None
    BY <1>1, <1>2 DEF InstallInitial, Sound, Current
  <2> QED BY <2>1, <2>2 DEF KeepsDocuments, Current
<1>3. CASE ReplaceState(p)
  <2>1. \A t \in Tasks \ {call[p].task} : doc'[t] = doc[t] /\ legacy'[t] = legacy[t]
    BY <1>1, <1>3 DEF ReplaceState
  <2>2. doc'[call[p].task] = call[p].to /\ call[p].to # None /\ call[p].to.stage # "intake"
    BY <1>1, <1>3, SomeIsNotNone DEF ReplaceState, Sound
  <2> QED BY <2>1, <2>2 DEF KeepsDocuments, Current
<1>4. CASE doc' = doc /\ legacy' = legacy
  BY <1>4 DEF KeepsDocuments, Current
<1> QED BY <1>2, <1>3, <1>4
        DEF Step, Invoke, MakeDirectory, ReadState, ReadLegacyState, OpenTaskDirectory,
            DiscoverState, DiscoverLegacyState, Select, MoveToQuarantine, RequireIdentity,
            UnlinkQuarantined, Kill, tasks

LEMMA FilesKept ==
  ASSUME IInv, NEW p \in Procs, Step(p)
  PROVE  KeepsFiles
<1>1. /\ aside \in [Procs -> Inodes \cup {None}] /\ Sound(p)
      /\ call[p].at = "move" => aside[p] = None
  BY DEF IInv, TypeOK
<1>2. CASE aside' = aside
  BY <1>2 DEF KeepsFiles
<1>3. CASE /\ aside' = [aside EXCEPT ![p] = None]
           /\ \/ aside[p] \in stranded' \cup {None}
              \/ aside[p] = call[p].identity
  BY <1>1, <1>3 DEF KeepsFiles
<1>4. CASE MoveToQuarantine(p)
  BY <1>1, <1>2, <1>4 DEF MoveToQuarantine, KeepsFiles, files
<1>5. CASE RequireIdentity(p)
  BY <1>2, <1>3, <1>5 DEF RequireIdentity, Abandon, files
<1>6. CASE UnlinkQuarantined(p)
  BY <1>1, <1>3, <1>6 DEF UnlinkQuarantined, Sound
<1>7. CASE Kill(p)
  BY <1>3, <1>7 DEF Kill, Abandon
<1> QED BY <1>2, <1>4, <1>5, <1>6, <1>7
        DEF Step, Invoke, MakeDirectory, InstallInitial, ReadState, ReadLegacyState,
            OpenTaskDirectory, ReplaceState, DiscoverState, DiscoverLegacyState, Select, files

(* No step destroys what it was not meant to: see DestroysOnlyItsOwn.       *)
THEOREM NothingElseDestroyed == Spec => DestroysOnlyItsOwn
<1>1. ASSUME IInv, Next PROVE KeepsDocuments /\ KeepsFiles
  <2>1. ASSUME TouchDisposable PROVE KeepsDocuments /\ KeepsFiles
    BY <2>1 DEF TouchDisposable, KeepsDocuments, KeepsFiles, Current, tasks
  <2> QED BY <1>1, <2>1, DocumentsKept, FilesKept DEF Next
<1>2. IInv /\ [Next]_vars => [KeepsDocuments /\ KeepsFiles]_vars
  BY <1>1
<1> QED BY <1>2, Invariance, PTL DEF Spec, DestroysOnlyItsOwn, KeepsDocuments, KeepsFiles

=============================================================================
