-------------------------- MODULE ObservationStore --------------------------
(***************************************************************************)
(* Learned observations: what the engine keeps in memory (learning,        *)
(* persistedLearning and observationRevision of                            *)
(* packages/layout/src/engine.ts) and the file several processes share     *)
(* (apps/wm/src/observation-file.ts): the write lock, the comparison of    *)
(* revisions, the atomic replacement, the watcher, quarantine.             *)
(*                                                                         *)
(* Within a process a save runs to its end without a pause; processes      *)
(* interleave between any two calls of the file system.  One action is one *)
(* such call, with the computation up to the next one.  A revision is the  *)
(* digest of the content, so the content stands for it.                    *)
(***************************************************************************)
EXTENDS Naturals, Sequences

CONSTANTS
    Processes,
    Fields, Values,       \* learned fields, and what they can be
    Empty,              \* the document without observations
    Contradictory,      \* documents that decoding refuses: a minimum above its maximum
    Lessons,            \* what can be learned, and whether its command fails if it is not saved
    Stored,             \* what the file may say at first
    Missing, Garbage,   \* no file, and a file that is no document
    Unloaded,           \* the revision "memory" of an engine that could not load
    Free,
    Attempts,           \* of persistLearning
    MaxSessions,        \* bound: times a process learns something
    MaxMishaps          \* bound: crashes and failing calls of the file system

Documents == [Fields -> Values]
Contents == Documents \cup {Missing, Garbage}
Revisions == Documents \cup {Missing, Unloaded}

ASSUME StoreAssumption ==
    /\ Empty \in Documents \ Contradictory /\ Contradictory \subseteq Documents
    /\ Lessons \subseteq [key : Fields, value : Values, verified : BOOLEAN]
    /\ Stored \subseteq Contents \ Contradictory
    /\ Missing \notin Documents /\ Garbage \notin Documents /\ Unloaded \notin Documents
    /\ Missing # Garbage /\ Missing # Unloaded /\ Garbage # Unloaded
    /\ Free \notin Processes
    /\ Attempts \in Nat \ {0} /\ MaxSessions \in Nat /\ MaxMishaps \in Nat

VARIABLES
    file,
    lock,       \* whose token observations.json.lock holds
    orphans,    \* processes that know their own token is still in it
    proc,       \* per process: where it is, and what it remembers
    watching,   \* processes whose stream of changes has not failed
    due,        \* those whose debounce timer runs
    stream,     \* per process: lastRevision, and snapshots emitted but not installed
    spoiled,    \* history: the file was unreadable once
    sessions, mishaps

watchers == <<watching, due, stream>>
tally == <<spoiled, sessions, mishaps>>
storeVars == <<file, lock, orphans, proc, watchers, tally>>

DocumentOf(revision) == IF revision \in Documents THEN revision ELSE Empty

Saving == {"encode", "acquire", "check", "recheck", "rename", "sync", "release", "answer"}
Locked == {"check", "recheck", "rename", "sync", "release"}
Stages == Saving \cup {"down", "clear", "idle", "working", "asleep", "reload", "reclear"}
\* unsynced: an io error after the file was replaced.
Errors == {"none", "busy", "conflict", "invalid", "io", "unsynced"}

Memories ==
    [stage : Stages, learned : Documents, base : Revisions, before : Revisions,
     verified : BOOLEAN, attempt : 1..Attempts, error : Errors]

\* Memory that holds just what some content of the file says.
Memory(revision) ==
    [stage |-> "idle", learned |-> DocumentOf(revision), base |-> revision,
     before |-> revision, verified |-> FALSE, attempt |-> 1, error |-> "none"]

Dead == [Memory(Unloaded) EXCEPT !.stage = "down"]

StoreInit ==
    /\ file \in Stored
    /\ lock = Free /\ orphans = {}
    /\ proc = [p \in Processes |-> Dead]
    /\ watching = {} /\ due = {}
    /\ stream = [p \in Processes |-> [last |-> Unloaded, queue |-> <<>>]]
    /\ spoiled = (file = Garbage)
    /\ sessions = [p \in Processes |-> 0] /\ mishaps = 0

Become(p, m) == proc' = [proc EXCEPT ![p] = m]
Proceed(p, stage) == Become(p, [proc[p] EXCEPT !.stage = stage])
Err(p, error, stage) == Become(p, [proc[p] EXCEPT !.error = error, !.stage = stage])

Mishap == mishaps < MaxMishaps /\ mishaps' = mishaps + 1 /\ UNCHANGED <<spoiled, sessions>>

\* The name of the file is changed in its directory, which wakes all watchers.
Replace(content) == file' = content /\ due' = due \cup watching

(***************************************************************************)
(* Start of a process: load, and quarantine of an unreadable file.         *)
(***************************************************************************)

\* The engine exists, and watches from the revision it has; the watcher
\* looks at once.  awake: whom a change of the file wakes besides.
OpenFile(p, revision, awake) ==
    /\ Become(p, Memory(revision))
    /\ watching' = watching \cup {p}
    /\ due' = due \cup awake \cup {p}
    /\ stream' = [stream EXCEPT ![p] = [last |-> revision, queue |-> <<>>]]

Start(p) ==
    /\ proc[p].stage = "down"
    /\ IF file = Garbage THEN Proceed(p, "clear") /\ UNCHANGED watchers
       ELSE OpenFile(p, file, {})
    /\ UNCHANGED <<file, lock, orphans, tally>>

\* The renaming looks neither at the content it moves away nor at the lock.
Clear(p) ==
    /\ proc[p].stage = "clear"
    /\ file' = Missing
    /\ OpenFile(p, Missing, IF file = Missing THEN {} ELSE watching)
    /\ UNCHANGED <<lock, orphans, tally>>

LoadFails(p) ==
    /\ proc[p].stage \in {"down", "clear"}
    /\ Mishap
    /\ OpenFile(p, Unloaded, {})
    /\ UNCHANGED <<file, lock, orphans>>

(***************************************************************************)
(* A session under the gate: learn, then persist.                          *)
(***************************************************************************)

\* A cycle or a direct command, or (verified) a probe or a compound command.
Learn(p) ==
    /\ proc[p].stage = "idle" /\ sessions[p] < MaxSessions
    /\ \E lesson \in Lessons :
          /\ proc[p].learned[lesson.key] # lesson.value
          /\ Become(p, [proc[p] EXCEPT
                !.stage = "working", !.before = proc[p].base, !.verified = lesson.verified,
                !.learned = [@ EXCEPT ![lesson.key] = lesson.value]])
    /\ sessions' = [sessions EXCEPT ![p] = @ + 1]
    /\ UNCHANGED <<file, lock, orphans, watchers, spoiled, mishaps>>

\* The caller of persistLearning drops what could not be saved.
Rejected(m) == Memory(IF m.verified THEN m.before ELSE m.base)

\* Observations become a document only if it can be decoded again.
Persist(p) ==
    /\ proc[p].stage \in {"working", "encode"}
    /\ IF proc[p].learned \in Contradictory THEN Become(p, Rejected(proc[p]))
       ELSE Proceed(p, "acquire")
    /\ UNCHANGED <<file, lock, orphans, watchers, tally>>

\* A hard link publishes the token.  A token known to be the process's own is
\* removed, and the lock tried again.
Acquire(p) ==
    /\ proc[p].stage = "acquire"
    /\ \/ lock = Free /\ lock' = p /\ Proceed(p, "check") /\ UNCHANGED orphans
       \/ lock = p /\ p \in orphans /\ lock' = Free /\ orphans' = orphans \ {p} /\ UNCHANGED proc
       \/ /\ lock # Free /\ ~(lock = p /\ p \in orphans)
          /\ Err(p, "busy", "answer")
          /\ UNCHANGED <<lock, orphans>>
    /\ UNCHANGED <<file, watchers, tally>>

\* The revision is compared under the lock, and again beside the temporary file.
Check(p) ==
    /\ proc[p].stage \in {"check", "recheck"}
    /\ \/ file = Garbage /\ Err(p, "invalid", "release")
       \/ file # Garbage /\ file # proc[p].base /\ Err(p, "conflict", "release")
       \/ /\ file # Garbage /\ file = proc[p].base
          /\ Proceed(p, IF proc[p].stage = "check" THEN "recheck" ELSE "rename")
    /\ UNCHANGED <<file, lock, orphans, watchers, tally>>

Rename(p) ==
    /\ proc[p].stage = "rename"
    /\ Replace(proc[p].learned)
    /\ Proceed(p, "sync")
    /\ UNCHANGED <<lock, orphans, watching, stream, tally>>

Sync(p) ==
    /\ proc[p].stage = "sync"
    /\ Proceed(p, "release")
    /\ UNCHANGED <<file, lock, orphans, watchers, tally>>

CallFails(p) ==
    /\ proc[p].stage \in {"acquire", "check", "recheck", "rename", "sync"}
    /\ Mishap
    /\ Err(p, IF proc[p].stage = "sync" THEN "unsynced" ELSE "io",
              IF proc[p].stage = "acquire" THEN "answer" ELSE "release")
    /\ UNCHANGED <<file, lock, orphans, watchers>>

\* Only the link that the process made itself is removed.
Release(p) ==
    /\ proc[p].stage = "release"
    /\ lock' = IF lock = p THEN Free ELSE lock
    /\ orphans' = orphans \ {p}
    /\ Proceed(p, "answer")
    /\ UNCHANGED <<file, watchers, tally>>

ReleaseFails(p) ==
    /\ proc[p].stage = "release"
    /\ Mishap
    /\ orphans' = orphans \cup {p}
    /\ Proceed(p, "answer")
    /\ UNCHANGED <<file, lock, watchers>>

\* An attempt that failed has succeeded if the file says what it would have
\* written (with degraded health if it is not known to be durable).
Answer(p) ==
    LET m == proc[p]
        saved == m.error = "none" \/ file = m.learned
        another == m.attempt < Attempts
    IN  /\ m.stage = "answer"
        /\ \/ saved /\ Become(p, Memory(m.learned))
           \/ ~saved /\ another /\ m.error = "busy" /\ Proceed(p, "asleep")
           \/ ~saved /\ another /\ m.error = "conflict" /\ Proceed(p, "reload")
           \/ ~saved /\ ~(another /\ m.error \in {"busy", "conflict"}) /\ Become(p, Rejected(m))
        /\ UNCHANGED <<file, lock, orphans, watchers, tally>>

\* Regression (SessionsEnd): a busy store does not count as an attempt.
Regression_NextAttempt(m) ==
    [m EXCEPT !.stage = "encode", !.error = "none",
              !.attempt = IF m.error = "busy" THEN @ ELSE @ + 1]

NextAttempt(m) == [m EXCEPT !.stage = "encode", !.attempt = @ + 1, !.error = "none"]

Wake(p) ==
    /\ proc[p].stage = "asleep"
    /\ Become(p, NextAttempt(proc[p]))
    /\ UNCHANGED <<file, lock, orphans, watchers, tally>>

\* Regression (NoLostUpdate): local observations win as a whole.
Regression_Merge(base, local, remote) == local

\* Local changes win, one by one; all of the local observations, if the
\* result would be contradictory.
Merge(base, local, remote) ==
    LET merged == [k \in Fields |-> IF local[k] = base[k] THEN remote[k] ELSE local[k]]
    IN  IF merged \in Contradictory THEN local ELSE merged

Merged(m, revision) ==
    NextAttempt([m EXCEPT !.base = revision,
                          !.learned = Merge(DocumentOf(m.base), @, DocumentOf(revision))])

Reload(p) ==
    /\ proc[p].stage = "reload"
    /\ IF file = Garbage THEN Proceed(p, "reclear") ELSE Become(p, Merged(proc[p], file))
    /\ UNCHANGED <<file, lock, orphans, watchers, tally>>

Reclear(p) ==
    /\ proc[p].stage = "reclear"
    /\ IF file = Missing THEN UNCHANGED <<file, due>> ELSE Replace(Missing)
    /\ Become(p, Merged(proc[p], Missing))
    /\ UNCHANGED <<lock, orphans, watching, stream, tally>>

ReloadFails(p) ==
    /\ proc[p].stage \in {"reload", "reclear"}
    /\ Mishap
    /\ Become(p, Rejected(proc[p]))
    /\ UNCHANGED <<file, lock, orphans, watchers>>

(***************************************************************************)
(* The stream of changes.                                                  *)
(***************************************************************************)

\* The debounce timer fires where the process's one thread is free: never in
\* the middle of a save.
TimerFires(p) == p \in due /\ proc[p].stage \in {"idle", "working", "asleep"}

Refresh(p) ==
    /\ TimerFires(p)
    /\ due' = due \ {p}
    /\ stream' = IF file \in {Garbage, stream[p].last} THEN stream
                 ELSE [stream EXCEPT ![p] = [last |-> file, queue |-> Append(@.queue, file)]]
    /\ UNCHANGED <<file, lock, orphans, proc, watching, tally>>

StreamFails(p) ==
    /\ TimerFires(p)
    /\ Mishap
    /\ watching' = watching \ {p} /\ due' = due \ {p}
    /\ UNCHANGED <<file, lock, orphans, proc, stream>>

\* Regression (MemoryFollowsFile): a snapshot is not installed when the
\* engine has saved something itself since it was emitted.
Regression_Install(p) ==
    /\ proc[p].stage = "idle" /\ stream[p].queue # <<>>
    /\ stream' = [stream EXCEPT ![p].queue = Tail(@)]
    /\ IF sessions[p] > 0 THEN UNCHANGED proc ELSE Become(p, Memory(Head(stream[p].queue)))
    /\ UNCHANGED <<file, lock, orphans, watching, due, tally>>

\* installObservationSnapshot, under the gate.
Install(p) ==
    /\ proc[p].stage = "idle" /\ stream[p].queue # <<>>
    /\ stream' = [stream EXCEPT ![p].queue = Tail(@)]
    /\ IF Head(stream[p].queue) = proc[p].base THEN UNCHANGED proc
       ELSE Become(p, Memory(Head(stream[p].queue)))
    /\ UNCHANGED <<file, lock, orphans, watching, due, tally>>

(***************************************************************************)
(* Crashes, and the person who removes what they leave.                    *)
(***************************************************************************)

Crash(p) ==
    /\ proc[p].stage # "down"
    /\ Mishap
    /\ Become(p, Dead)
    /\ orphans' = orphans \ {p}
    /\ watching' = watching \ {p} /\ due' = due \ {p}
    /\ stream' = [stream EXCEPT ![p] = [last |-> Unloaded, queue |-> <<>>]]
    /\ UNCHANGED <<file, lock>>

\* Somebody writes without the lock what these processes cannot read: an
\* editor, or a program with another schema.
Spoil ==
    /\ file # Garbage
    /\ mishaps < MaxMishaps /\ mishaps' = mishaps + 1
    /\ Replace(Garbage)
    /\ spoiled' = TRUE
    /\ UNCHANGED <<lock, orphans, proc, watching, stream, sessions>>

\* A lock whose owner is gone is removed by hand, never by a process.
RemoveStaleLock(p) ==
    /\ lock = p /\ p \notin orphans /\ proc[p].stage \notin Locked
    /\ lock' = Free
    /\ UNCHANGED <<file, orphans, proc, watchers, tally>>

\* What goes on by itself in a session.
Session(p) ==
    \/ Persist(p) \/ Acquire(p) \/ Check(p) \/ Rename(p) \/ Sync(p) \/ Release(p)
    \/ Answer(p) \/ Wake(p) \/ Reload(p) \/ Reclear(p)

Misfortune(p) ==
    LoadFails(p) \/ CallFails(p) \/ ReleaseFails(p) \/ ReloadFails(p) \/ StreamFails(p) \/ Crash(p)

StoreNext ==
    \/ Spoil
    \/ \E p \in Processes :
          \/ Start(p) \/ Clear(p) \/ Learn(p) \/ Session(p) \/ Refresh(p) \/ Install(p)
          \/ Misfortune(p) \/ RemoveStaleLock(p)

StoreSpec ==
    /\ StoreInit /\ [][StoreNext]_storeVars
    /\ \A p \in Processes :
          WF_storeVars(Session(p)) /\ WF_storeVars(Refresh(p)) /\ WF_storeVars(Install(p))

(***************************************************************************)
(* Properties.                                                             *)
(***************************************************************************)

\* Nothing learned is unsaved in memory once the gate is free: a snapshot that
\* installObservationSnapshot then puts in its place discards nothing.
IdleIsSaved ==
    \A p \in Processes :
        proc[p].stage = "idle" => proc[p].learned = DocumentOf(proc[p].base)

\* At most one process is between taking the write lock and releasing it,
\* whoever crashed with the lock or failed to release it (withWriteLock in
\* observation-file.ts).
OneWriter ==
    \A p, q \in Processes :
        proc[p].stage \in Locked /\ proc[q].stage \in Locked => p = q

\* The file has been replaced, and the engine does not know yet.
Replaced(m) ==
    \/ m.stage = "sync"
    \/ m.stage \in {"release", "answer"} /\ m.error \in {"none", "unsynced"}

\* What was learned and is not committed.
Unsaved(m) ==
    LET base == DocumentOf(m.base)
        fresh == IF Replaced(m) THEN {} ELSE {k \in Fields : m.learned[k] # base[k]}
    IN  [k \in fresh |-> m.learned[k]]

Catalog == INSTANCE SharedCatalog WITH
    catalog <- DocumentOf(file),
    wishes <- [p \in Processes |-> Unsaved(proc[p])]

\* Processes that save, conflict, merge and crash concurrently implement one
\* shared catalog: a save changes what its process learned and nothing that
\* others committed (mergeLearningChanges in observation-store.ts,
\* persistLearning in engine.ts), unless the file was once unreadable.
NoLostUpdate == Catalog!Spec

\* persistLearning comes to an end, whatever the lock and the other writers do.
SessionsEnd ==
    \A p \in Processes : []<>(proc[p].stage \in {"idle", "down", "clear"})

\* A process whose watcher lives has, again and again, what the file says: it
\* follows the corrections of other writers (unless the file was once
\* unreadable).
MemoryFollowsFile ==
    \A p \in Processes : []<>(p \in watching /\ ~spoiled => proc[p].base = file)
=============================================================================
