----------------------------- MODULE StoreProofs -----------------------------
(***************************************************************************)
(* Proofs about ObservationStore, for any number of processes, keys,       *)
(* sessions, attempts and mishaps: one process at a time holds the write   *)
(* lock, and the processes implement SharedCatalog.                        *)
(***************************************************************************)
EXTENDS ObservationStore, TLAPS

\* What holds of the memory of one process by itself.
Sound(m) ==
    /\ m \in Memories
    /\ m.stage \in {"down", "clear", "idle"} => m.learned = DocumentOf(m.base)
    /\ m.stage \in {"asleep", "reload", "reclear"} => m.attempt < Attempts
    /\ m.stage \in {"idle", "working", "encode", "acquire", "check", "recheck", "rename", "sync"}
          => m.error = "none"
    /\ m.stage \in {"acquire", "check", "recheck", "rename"} => m.learned \notin Contradictory

\* What ties the processes to the file and the lock.  Only the holder of the
\* lock replaces the file while nothing has spoiled it, so that the file still
\* is what the holder compared.
Inv ==
    /\ file \in Contents \ Contradictory
    /\ file = Garbage => spoiled = TRUE
    /\ spoiled \in BOOLEAN
    /\ proc = [p \in Processes |-> proc[p]]
    /\ \A p \in Processes :
          /\ Sound(proc[p])
          /\ proc[p].stage \in Locked => lock = p
          /\ proc[p].stage \in {"recheck", "rename"} => spoiled = TRUE \/ file = proc[p].base
          /\ proc[p].stage \in {"clear", "reclear"} => spoiled = TRUE

Wanted == [p \in Processes |-> Unsaved(proc[p])]
Mapped == <<DocumentOf(file), Wanted, spoiled>>

\* What each step does: it keeps the invariant, and changes the abstract
\* catalog as SharedCatalog allows.
Implements == Inv' /\ (Catalog!Next \/ UNCHANGED Mapped)

\* The documents and revisions are what they should be.
LEMMA Documents1 ==
    ASSUME StoreAssumption, NEW r
    PROVE  /\ DocumentOf(r) \in Documents
           /\ r \in Documents => DocumentOf(r) = r
           /\ DocumentOf(Missing) = Empty /\ DocumentOf(Unloaded) = Empty
           /\ DocumentOf(Garbage) = Empty
BY DEF StoreAssumption, DocumentOf

\* Memory that says what some content of the file says is sound, and holds
\* nothing unsaved.
LEMMA MemoryIsSound ==
    ASSUME StoreAssumption, NEW r \in Revisions
    PROVE  /\ Sound(Memory(r)) /\ Unsaved(Memory(r)) = Catalog!Nothing
           /\ Memory(r).stage = "idle" /\ Memory(r).base = r
           /\ Memory(r).learned = DocumentOf(r)
<1>1. /\ Memory(r).stage = "idle" /\ Memory(r).learned = DocumentOf(r)
      /\ Memory(r).base = r /\ Memory(r).error = "none"
  BY DEF Memory
<1>2. Memory(r) \in Memories
  BY Documents1 DEF Memory, Memories, Stages, Saving, Errors, StoreAssumption
<1>3. Unsaved(Memory(r)) = Catalog!Nothing
  <2>1. Unsaved(Memory(r)) = [k \in {} |-> Memory(r).learned[k]]
    BY <1>1 DEF Unsaved, Replaced
  <2>2. QED
    BY <2>1 DEF Catalog!Nothing
<1>4. QED
  BY <1>1, <1>2, <1>3 DEF Sound

\* What is unsaved is a function from some keys to values.
LEMMA UnsavedType ==
    ASSUME NEW m \in Memories
    PROVE  /\ Unsaved(m) \in Catalog!Wishes
           /\ DOMAIN Unsaved(m) \subseteq Fields
<1>1. m.learned \in [Fields -> Values]
  BY DEF Memories, Documents
<1>2. \A S \in SUBSET Fields : [k \in S |-> m.learned[k]] \in [S -> Values]
  BY <1>1
<1>3. PICK S \in SUBSET Fields : Unsaved(m) = [k \in S |-> m.learned[k]]
  BY DEF Unsaved
<1>4. Unsaved(m) \in [S -> Values]
  BY <1>2, <1>3
<1>5. QED
  BY <1>3, <1>4 DEF Catalog!Wishes

\* A step of process p, after which it remembers m, keeps the invariant if
\* others keep the lock and the file is replaced by its holder or spoiled.
LEMMA StepKeeps ==
    ASSUME StoreAssumption, Inv, NEW p \in Processes, NEW m, Sound(m), Become(p, m),
           file' \in Contents \ Contradictory, file' = Garbage => spoiled' = TRUE,
           spoiled' \in BOOLEAN, spoiled = TRUE => spoiled' = TRUE,
           file' # file => spoiled' = TRUE \/ proc[p].stage = "rename",
           m.stage \in Locked => lock' = p,
           \A q \in Processes \ {p} : lock = q => lock' = q,
           m.stage \in {"recheck", "rename"} => spoiled' = TRUE \/ file' = m.base,
           m.stage \in {"clear", "reclear"} => spoiled' = TRUE
    PROVE  Inv' /\ Wanted' = [Wanted EXCEPT ![p] = Unsaved(m)]
<1>1. /\ proc'[p] = m /\ \A q \in Processes \ {p} : proc'[q] = proc[q]
      /\ proc' = [q \in Processes |-> proc'[q]]
  BY DEF Become, Inv
<1>2. ASSUME NEW q \in Processes
      PROVE  /\ Sound(proc'[q])
             /\ proc'[q].stage \in Locked => lock' = q
             /\ proc'[q].stage \in {"recheck", "rename"} => spoiled' = TRUE \/ file' = proc'[q].base
             /\ proc'[q].stage \in {"clear", "reclear"} => spoiled' = TRUE
  <2>1. CASE q = p
    BY <2>1, <1>1
  <2>2. CASE q # p
    <3>1. /\ proc'[q] = proc[q] /\ Sound(proc[q])
          /\ proc[q].stage \in Locked => lock = q
          /\ proc[q].stage \in {"recheck", "rename"} => spoiled = TRUE \/ file = proc[q].base
          /\ proc[q].stage \in {"clear", "reclear"} => spoiled = TRUE
          /\ proc[p].stage \in Locked => lock = p
      BY <2>2, <1>1 DEF Inv
    <3>2. proc[q].stage \in {"recheck", "rename"} /\ proc[p].stage = "rename" => FALSE
      BY <3>1, <2>2 DEF Locked
    <3>3. QED
      BY <3>1, <3>2, <2>2
  <2>3. QED
    BY <2>1, <2>2
<1>3. Inv'
  BY <1>1, <1>2 DEF Inv
<1>4. Wanted' = [q \in Processes |-> Unsaved(proc'[q])]
  BY DEF Wanted, Unsaved, Replaced, DocumentOf, Documents
<1>5. QED
  BY <1>1, <1>3, <1>4 DEF Wanted

\* Nothing is unsaved between sessions.
LEMMA SettledUnsaved ==
    ASSUME NEW m, m.learned = DocumentOf(m.base)
    PROVE  Unsaved(m) = Catalog!Nothing
<1>1. {k \in Fields : m.learned[k] # DocumentOf(m.base)[k]} = {}
  OBVIOUS
<1>2. Unsaved(m) = [k \in {} |-> m.learned[k]]
  BY <1>1 DEF Unsaved
<1>3. QED
  BY <1>2 DEF Catalog!Nothing

\* A step of p that does not touch the file, the lock of others or what p has
\* yet to save, or that gives up what p has yet to save.
LEMMA QuietStep ==
    ASSUME StoreAssumption, Inv, NEW p \in Processes, NEW m, Sound(m), Become(p, m),
           file' = file, spoiled' = spoiled,
           Unsaved(m) = Unsaved(proc[p]) \/ Unsaved(m) = Catalog!Nothing,
           m.stage \in Locked => lock' = p,
           \A q \in Processes \ {p} : lock = q => lock' = q,
           m.stage \in {"recheck", "rename"} => spoiled = TRUE \/ file = m.base,
           m.stage \in {"clear", "reclear"} => spoiled = TRUE
    PROVE  Implements
<1>1. Inv' /\ Wanted' = [Wanted EXCEPT ![p] = Unsaved(m)]
  <2>1. /\ file' \in Contents \ Contradictory /\ (file' = Garbage => spoiled' = TRUE)
        /\ spoiled' \in BOOLEAN /\ (spoiled = TRUE => spoiled' = TRUE)
    BY DEF Inv
  <2>2. QED
    BY <2>1, StepKeeps
<1>2. DocumentOf(file') = DocumentOf(file)
  OBVIOUS
<1>3. CASE Unsaved(m) = Unsaved(proc[p])
  <2>1. Wanted' = Wanted
    BY <1>1, <1>3 DEF Wanted
  <2>2. QED
    BY <1>1, <1>2, <2>1 DEF Implements, Mapped, DocumentOf, Documents
<1>4. CASE Unsaved(m) = Catalog!Nothing
  <2>1. Catalog!GiveUp(p)
    BY <1>1, <1>2, <1>4 DEF Catalog!GiveUp, Wanted, DocumentOf, Documents
  <2>2. QED
    BY <1>1, <2>1 DEF Implements, Catalog!Next
<1>5. QED
  BY <1>3, <1>4

\* Whatever happens to a file that has been spoiled is allowed.
LEMMA SpoiledStep ==
    ASSUME StoreAssumption, Inv', spoiled' = TRUE
    PROVE  Implements
<1>1. DocumentOf(file') \in Documents
  BY Documents1
<1>2. \A q \in Processes : proc'[q] \in Memories
  BY DEF Inv, Sound
<1>3. ASSUME NEW q \in Processes
      PROVE  Unsaved(proc'[q]) \in Catalog!Wishes
  BY <1>2, UnsavedType
<1>4. [q \in Processes |-> Unsaved(proc'[q])] \in [Processes -> Catalog!Wishes]
  BY <1>3
<1>5. Catalog!Spoil
  BY <1>1, <1>4 DEF Catalog!Spoil, Catalog!Documents, Documents, Unsaved, Replaced, DocumentOf
<1>6. QED
  BY <1>5 DEF Implements, Catalog!Next

\* A process that only goes to another stage, or meets an error on its way.
LEMMA ProceedFields ==
    ASSUME Inv, NEW p \in Processes, NEW s \in Stages, Proceed(p, s)
    PROVE  \E m \in Memories :
              /\ Become(p, m) /\ m.stage = s
              /\ m.learned = proc[p].learned /\ m.base = proc[p].base /\ m.error = proc[p].error
              /\ m.attempt = proc[p].attempt
<1>1. proc[p] \in Memories
  BY DEF Inv, Sound
<1>2. QED
  BY <1>1 DEF Proceed, Memories

LEMMA ErrFields ==
    ASSUME Inv, NEW p \in Processes, NEW s \in Stages, NEW e \in Errors, Err(p, e, s)
    PROVE  \E m \in Memories :
              /\ Become(p, m) /\ m.stage = s
              /\ m.learned = proc[p].learned /\ m.base = proc[p].base /\ m.error = e
              /\ m.attempt = proc[p].attempt
<1> DEFINE m1 == [proc[p] EXCEPT !.error = e]
<1> DEFINE m == [m1 EXCEPT !.stage = s]
<1>1. proc[p] \in Memories
  BY DEF Inv, Sound
<1>2. /\ m1 \in Memories /\ m1.error = e
      /\ m1.learned = proc[p].learned /\ m1.base = proc[p].base /\ m1.attempt = proc[p].attempt
  BY <1>1 DEF Memories
<1> HIDE DEF m1
<1>3. /\ m \in Memories /\ m.stage = s /\ m.error = m1.error
      /\ m.learned = m1.learned /\ m.base = m1.base /\ m.attempt = m1.attempt
  BY <1>2 DEF Memories
<1>4. Become(p, m)
  BY DEF Err, m1
<1> HIDE DEF m
<1>5. QED
  BY <1>2, <1>3, <1>4

\* What a process that starts or starts again remembers.
LEMMA OpenKeeps ==
    ASSUME StoreAssumption, Inv, NEW p \in Processes, NEW r \in Revisions, NEW awake,
           proc[p].stage \in {"down", "clear"}, OpenFile(p, r, awake),
           file' = file, spoiled' = spoiled, lock' = lock
    PROVE  Implements
BY MemoryIsSound, QuietStep DEF OpenFile, Locked

LEMMA StartImplements ==
    ASSUME StoreAssumption, Inv, NEW p \in Processes, Start(p)
    PROVE  Implements
<1>1. /\ proc[p].stage = "down" /\ file' = file /\ spoiled' = spoiled /\ lock' = lock
  BY DEF Start, tally
<1>2. CASE file = Garbage
  <2>1. Proceed(p, "clear") /\ spoiled = TRUE /\ "clear" \in Stages
    BY <1>2 DEF Start, Inv, Stages
  <2>2. PICK m \in Memories :
              /\ Become(p, m) /\ m.stage = "clear"
              /\ m.learned = proc[p].learned /\ m.base = proc[p].base
    BY <2>1, ProceedFields
  <2>3. m.learned = DocumentOf(m.base)
    BY <1>1, <2>2 DEF Inv, Sound
  <2>4. Sound(m) /\ Unsaved(m) = Catalog!Nothing
    BY <2>2, <2>3, SettledUnsaved DEF Sound
  <2>5. QED
    BY <1>1, <2>1, <2>2, <2>4, QuietStep DEF Locked
<1>3. CASE file # Garbage
  <2>1. file \in Revisions
    BY <1>3 DEF Inv, Contents, Revisions
  <2>2. QED
    BY <1>1, <1>3, <2>1, OpenKeeps DEF Start
<1>4. QED
  BY <1>2, <1>3

\* A process that goes on has the same unsaved observations, unless it has
\* just replaced the file or learned that it was replaced.
LEMMA TravelStep ==
    ASSUME StoreAssumption, Inv, NEW p \in Processes, NEW m, Sound(m), Become(p, m),
           m.learned = proc[p].learned, m.base = proc[p].base,
           Replaced(m) <=> Replaced(proc[p]),
           file' = file, spoiled' = spoiled,
           m.stage \in Locked => lock' = p,
           \A q \in Processes \ {p} : lock = q => lock' = q,
           m.stage \in {"recheck", "rename"} => spoiled = TRUE \/ file = m.base,
           m.stage \in {"clear", "reclear"} => spoiled = TRUE
    PROVE  Implements
<1>1. Unsaved(m) = Unsaved(proc[p])
  BY DEF Unsaved
<1>2. QED
  BY <1>1, QuietStep

\* A process that stays where it is, outside any save.
LEMMA StayStep ==
    ASSUME StoreAssumption, Inv, NEW p \in Processes, proc' = proc,
           proc[p].stage \notin Locked, file' = file, spoiled' = spoiled,
           \A q \in Processes \ {p} : lock = q => lock' = q
    PROVE  Implements
<1>1. Become(p, proc[p])
  BY DEF Become, Inv
<1>2. /\ Sound(proc[p])
      /\ proc[p].stage \in {"recheck", "rename"} => spoiled = TRUE \/ file = proc[p].base
      /\ proc[p].stage \in {"clear", "reclear"} => spoiled = TRUE
  BY DEF Inv
<1>3. QED
  BY <1>1, <1>2, TravelStep

LEMMA LoadFailsImplements ==
    ASSUME StoreAssumption, Inv, NEW p \in Processes, LoadFails(p)
    PROVE  Implements
<1>1. Unloaded \in Revisions
  BY DEF Revisions
<1>2. QED
  BY <1>1, OpenKeeps DEF LoadFails, Mishap

LEMMA ClearImplements ==
    ASSUME StoreAssumption, Inv, NEW p \in Processes, Clear(p)
    PROVE  Implements
<1>1. /\ Missing \in Revisions /\ Missing \in Contents \ Contradictory /\ Missing # Garbage
  BY DEF Revisions, Contents, StoreAssumption
<1>2. /\ Become(p, Memory(Missing)) /\ file' = Missing /\ lock' = lock /\ spoiled' = TRUE
      /\ spoiled' \in BOOLEAN
  BY DEF Clear, OpenFile, tally, Inv
<1>3. Sound(Memory(Missing)) /\ Memory(Missing).stage = "idle"
  BY <1>1, MemoryIsSound
<1>4. Inv'
  BY <1>1, <1>2, <1>3, StepKeeps DEF Locked
<1>5. QED
  BY <1>2, <1>4, SpoiledStep

\* What fails to be saved is given up.
LEMMA RejectedStep ==
    ASSUME StoreAssumption, Inv, NEW p \in Processes, Become(p, Rejected(proc[p])),
           file' = file, spoiled' = spoiled, lock' = lock
    PROVE  Implements
<1>1. PICK r \in Revisions : Rejected(proc[p]) = Memory(r)
  <2>1. proc[p].before \in Revisions /\ proc[p].base \in Revisions
    BY DEF Inv, Sound, Memories
  <2>2. QED
    BY <2>1 DEF Rejected
<1>2. QED
  BY <1>1, MemoryIsSound, QuietStep DEF Locked

LEMMA LearnImplements ==
    ASSUME StoreAssumption, Inv, NEW p \in Processes, Learn(p)
    PROVE  Implements
<1>1. PICK l \in Lessons :
         Become(p, [proc[p] EXCEPT
                !.stage = "working", !.before = proc[p].base, !.verified = l.verified,
                !.learned = [@ EXCEPT ![l.key] = l.value]])
  BY DEF Learn
<1> DEFINE m == [proc[p] EXCEPT !.stage = "working", !.before = proc[p].base,
                                !.verified = l.verified,
                                !.learned = [@ EXCEPT ![l.key] = l.value]]
<1>2. m \in Memories /\ m.stage = "working" /\ m.error = proc[p].error
  <2>1. proc[p] \in Memories /\ proc[p].base \in Revisions /\ proc[p].learned \in Documents
    BY DEF Inv, Sound, Memories
  <2>2. l.verified \in BOOLEAN /\ l.key \in Fields /\ l.value \in Values
    BY DEF StoreAssumption
  <2>3. [proc[p].learned EXCEPT ![l.key] = l.value] \in Documents
    BY <2>1, <2>2 DEF Documents
  <2> DEFINE d == [proc[p].learned EXCEPT ![l.key] = l.value]
             m1 == [proc[p] EXCEPT !.stage = "working"]
             m2 == [m1 EXCEPT !.before = proc[p].base]
             m3 == [m2 EXCEPT !.verified = l.verified]
             m4 == [m3 EXCEPT !.learned = d]
  <2>4. m1 \in Memories /\ m1.stage = "working" /\ m1.learned = proc[p].learned /\ m1.error = proc[p].error
    BY <2>1 DEF Memories, Stages
  <2> HIDE DEF m1
  <2>5. m2 \in Memories /\ m2.stage = "working" /\ m2.learned = proc[p].learned /\ m2.error = proc[p].error
    BY <2>1, <2>4 DEF Memories
  <2> HIDE DEF m2
  <2>6. m3 \in Memories /\ m3.stage = "working" /\ m3.learned = proc[p].learned /\ m3.error = proc[p].error
    BY <2>2, <2>5 DEF Memories
  <2> HIDE DEF m3, d
  <2>7. m4 \in Memories /\ m4.stage = "working" /\ m4.error = proc[p].error
    BY <2>3, <2>6 DEF Memories, d
  <2>8. m = m4
    BY <2>6 DEF m1, m2, m3, d
  <2> HIDE DEF m, m4
  <2>9. QED
    BY <2>7, <2>8
<1>3. Become(p, m)
  BY <1>1
<1> HIDE DEF m
<1>4. Sound(m)
  BY <1>2 DEF Learn, Inv, Sound
<1>5. /\ file' = file /\ spoiled' = spoiled /\ lock' = lock
      /\ file \in Contents \ Contradictory /\ spoiled \in BOOLEAN
      /\ file = Garbage => spoiled = TRUE
  BY DEF Learn, Inv
<1>6. Inv' /\ Wanted' = [Wanted EXCEPT ![p] = Unsaved(m)]
  BY <1>2, <1>3, <1>4, <1>5, StepKeeps DEF Locked
<1>7. Unsaved(proc[p]) = Catalog!Nothing
  BY SettledUnsaved DEF Learn, Inv, Sound
<1>8. DOMAIN Unsaved(proc[p]) = {}
  BY <1>7 DEF Catalog!Nothing
<1>9. Unsaved(m) \in Catalog!Wishes
  BY <1>2, UnsavedType
<1>10. Catalog!Learn(p)
  BY <1>5, <1>6, <1>8, <1>9 DEF Catalog!Learn, Wanted, DocumentOf, Documents
<1>11. QED
  BY <1>6, <1>10 DEF Implements, Catalog!Next

LEMMA PersistImplements ==
    ASSUME StoreAssumption, Inv, NEW p \in Processes, Persist(p)
    PROVE  Implements
<1>1. /\ proc[p].stage \in {"working", "encode"} /\ lock' = lock
      /\ file' = file /\ spoiled' = spoiled
  BY DEF Persist, tally
<1>2. CASE proc[p].learned \in Contradictory
  BY <1>1, <1>2, RejectedStep DEF Persist
<1>3. CASE proc[p].learned \notin Contradictory
  <2>1. Proceed(p, "acquire") /\ "acquire" \in Stages
    BY <1>3 DEF Persist, Stages, Saving
  <2>2. PICK m \in Memories :
              /\ Become(p, m) /\ m.stage = "acquire" /\ m.error = proc[p].error
              /\ m.learned = proc[p].learned /\ m.base = proc[p].base
    BY <2>1, ProceedFields
  <2>3. m.error = "none"
    BY <1>1, <2>2 DEF Inv, Sound
  <2>4. Sound(m)
    BY <1>3, <2>2, <2>3 DEF Sound
  <2>5. QED
    BY <1>1, <2>2, <2>4, TravelStep DEF Locked, Replaced
<1>4. QED
  BY <1>2, <1>3

LEMMA AcquireImplements ==
    ASSUME StoreAssumption, Inv, NEW p \in Processes, Acquire(p)
    PROVE  Implements
<1>1. /\ proc[p].stage = "acquire" /\ file' = file /\ spoiled' = spoiled
      /\ proc[p].error = "none" /\ proc[p].learned \notin Contradictory /\ Free \notin Processes
  BY DEF Acquire, tally, Inv, Sound, StoreAssumption
<1>2. CASE lock = Free /\ lock' = p /\ Proceed(p, "check")
  <2>1. "check" \in Stages
    BY DEF Stages, Saving
  <2>2. PICK m \in Memories :
              /\ Become(p, m) /\ m.stage = "check" /\ m.error = proc[p].error
              /\ m.learned = proc[p].learned /\ m.base = proc[p].base
    BY <1>2, <2>1, ProceedFields
  <2>3. Sound(m)
    BY <1>1, <2>2 DEF Sound
  <2>4. QED
    BY <1>1, <1>2, <2>2, <2>3, TravelStep DEF Replaced
<1>3. CASE lock = p /\ lock' = Free /\ proc' = proc
  BY <1>1, <1>3, StayStep DEF Locked
<1>4. CASE lock' = lock /\ Err(p, "busy", "answer")
  <2>1. "answer" \in Stages /\ "busy" \in Errors
    BY DEF Stages, Saving, Errors
  <2>2. PICK m \in Memories :
              /\ Become(p, m) /\ m.stage = "answer" /\ m.error = "busy"
              /\ m.learned = proc[p].learned /\ m.base = proc[p].base
    BY <1>4, <2>1, ErrFields
  <2>3. Sound(m)
    BY <2>2 DEF Sound
  <2>4. QED
    BY <1>1, <1>4, <2>2, <2>3, TravelStep DEF Replaced, Locked
<1>5. QED
  BY <1>2, <1>3, <1>4 DEF Acquire

\* An error before the file is replaced ends the part under the lock.
LEMMA ErrorStep ==
    ASSUME StoreAssumption, Inv, NEW p \in Processes,
           proc[p].stage \in {"acquire", "check", "recheck", "rename"},
           NEW e \in {"busy", "conflict", "invalid", "io"}, NEW s \in {"release", "answer"},
           s = "release" => proc[p].stage # "acquire",
           Err(p, e, s), lock' = lock, file' = file, spoiled' = spoiled
    PROVE  Implements
<1>1. s \in Stages /\ e \in Errors
  BY DEF Stages, Saving, Errors
<1>2. PICK m \in Memories :
            /\ Become(p, m) /\ m.stage = s /\ m.error = e
            /\ m.learned = proc[p].learned /\ m.base = proc[p].base
  BY <1>1, ErrFields
<1>3. Sound(m)
  BY <1>2 DEF Sound
<1>4. m.stage \in Locked => lock' = p
  BY <1>2 DEF Inv, Locked
<1>5. QED
  BY <1>2, <1>3, <1>4, TravelStep DEF Replaced

LEMMA CheckImplements ==
    ASSUME StoreAssumption, Inv, NEW p \in Processes, Check(p)
    PROVE  Implements
<1>1. /\ proc[p].stage \in {"check", "recheck"} /\ lock' = lock
      /\ file' = file /\ spoiled' = spoiled
  BY DEF Check, tally
<1>2. CASE Err(p, "invalid", "release") \/ Err(p, "conflict", "release")
  BY <1>1, <1>2, ErrorStep
<1>3. CASE /\ file = proc[p].base
           /\ Proceed(p, IF proc[p].stage = "check" THEN "recheck" ELSE "rename")
  <2>1. PICK s \in {"recheck", "rename"} : Proceed(p, s)
    BY <1>3
  <2>2. s \in Stages
    BY DEF Stages, Saving
  <2>3. PICK m \in Memories :
              /\ Become(p, m) /\ m.stage = s /\ m.error = proc[p].error
              /\ m.learned = proc[p].learned /\ m.base = proc[p].base
    BY <2>1, <2>2, ProceedFields
  <2>4. Sound(m) /\ lock' = p
    BY <1>1, <2>3 DEF Inv, Sound, Locked
  <2>5. QED
    BY <1>1, <1>3, <2>3, <2>4, TravelStep DEF Replaced
<1>4. QED
  BY <1>2, <1>3 DEF Check

LEMMA CallFailsImplements ==
    ASSUME StoreAssumption, Inv, NEW p \in Processes, CallFails(p)
    PROVE  Implements
<1>1. lock' = lock /\ file' = file /\ spoiled' = spoiled
  BY DEF CallFails, Mishap
<1>2. CASE proc[p].stage = "acquire"
  BY <1>1, <1>2, ErrorStep DEF CallFails
<1>3. CASE proc[p].stage \in {"check", "recheck", "rename"}
  BY <1>1, <1>3, ErrorStep DEF CallFails
<1>4. CASE proc[p].stage = "sync"
  <2>1. "release" \in Stages /\ "unsynced" \in Errors /\ Err(p, "unsynced", "release")
    BY <1>4 DEF Stages, Saving, Errors, CallFails
  <2>2. PICK m \in Memories :
              /\ Become(p, m) /\ m.stage = "release" /\ m.error = "unsynced"
              /\ m.learned = proc[p].learned /\ m.base = proc[p].base
    BY <2>1, ErrFields
  <2>3. Sound(m) /\ lock' = p
    BY <1>1, <1>4, <2>2 DEF Inv, Sound, Locked
  <2>4. QED
    BY <1>1, <1>4, <2>2, <2>3, TravelStep DEF Replaced
<1>5. QED
  BY <1>2, <1>3, <1>4 DEF CallFails

LEMMA SyncImplements ==
    ASSUME StoreAssumption, Inv, NEW p \in Processes, Sync(p)
    PROVE  Implements
<1>1. /\ proc[p].stage = "sync" /\ lock' = lock /\ file' = file /\ spoiled' = spoiled
      /\ Proceed(p, "release") /\ "release" \in Stages
  BY DEF Sync, tally, Stages, Saving
<1>2. PICK m \in Memories :
            /\ Become(p, m) /\ m.stage = "release" /\ m.error = proc[p].error
            /\ m.learned = proc[p].learned /\ m.base = proc[p].base
  BY <1>1, ProceedFields
<1>3. Sound(m) /\ lock' = p /\ m.error = "none"
  BY <1>1, <1>2 DEF Inv, Sound, Locked
<1>4. QED
  BY <1>1, <1>2, <1>3, TravelStep DEF Replaced

\* The part under the lock is over.
LEMMA LeaveLock ==
    ASSUME StoreAssumption, Inv, NEW p \in Processes, proc[p].stage = "release",
           Proceed(p, "answer"), lock' \in {lock, Free}, lock' = lock \/ lock = p,
           file' = file, spoiled' = spoiled
    PROVE  Implements
<1>1. "answer" \in Stages
  BY DEF Stages, Saving
<1>2. PICK m \in Memories :
            /\ Become(p, m) /\ m.stage = "answer" /\ m.error = proc[p].error
            /\ m.learned = proc[p].learned /\ m.base = proc[p].base
  BY <1>1, ProceedFields
<1>3. Sound(m)
  BY <1>2 DEF Sound
<1>4. QED
  BY <1>2, <1>3, TravelStep DEF Replaced, Locked

LEMMA ReleaseImplements ==
    ASSUME StoreAssumption, Inv, NEW p \in Processes, Release(p) \/ ReleaseFails(p)
    PROVE  Implements
<1>1. CASE Release(p)
  BY <1>1, LeaveLock DEF Release, tally
<1>2. CASE ReleaseFails(p)
  BY <1>2, LeaveLock DEF ReleaseFails, Mishap
<1>3. QED
  BY <1>1, <1>2

LEMMA RenameImplements ==
    ASSUME StoreAssumption, Inv, NEW p \in Processes, Rename(p)
    PROVE  Implements
<1>1. /\ proc[p].stage = "rename" /\ lock' = lock /\ spoiled' = spoiled
      /\ file' = proc[p].learned
      /\ Proceed(p, "sync") /\ "sync" \in Stages
  BY DEF Rename, Replace, tally, Stages, Saving
<1>2. PICK m \in Memories :
            /\ Become(p, m) /\ m.stage = "sync" /\ m.error = proc[p].error
            /\ m.learned = proc[p].learned /\ m.base = proc[p].base
  BY <1>1, ProceedFields
<1>3. /\ Sound(m) /\ lock' = p
      /\ proc[p].learned \in Documents /\ proc[p].learned \notin Contradictory
      /\ spoiled = TRUE \/ file = proc[p].base
      /\ spoiled \in BOOLEAN
  BY <1>1, <1>2 DEF Inv, Sound, Locked, Memories
<1>4. /\ file' \in Contents \ Contradictory /\ file' # Garbage
  BY <1>1, <1>3 DEF Contents, StoreAssumption
<1>5. Inv' /\ Wanted' = [Wanted EXCEPT ![p] = Unsaved(m)]
  BY <1>1, <1>2, <1>3, <1>4, StepKeeps DEF Locked
<1>6. CASE spoiled = TRUE
  BY <1>1, <1>5, <1>6, SpoiledStep
<1>7. CASE file = proc[p].base
  <2>1. Unsaved(m) = Catalog!Nothing
    BY <1>2 DEF Unsaved, Replaced, Catalog!Nothing
  <2>2. Unsaved(proc[p]) = [k \in {k \in Fields : proc[p].learned[k] # DocumentOf(file)[k]} |->
                                proc[p].learned[k]]
    BY <1>1, <1>7 DEF Unsaved, Replaced
  <2>3. proc[p].learned = [k \in Fields |-> proc[p].learned[k]]
    BY <1>3 DEF Documents
  <2>4. Catalog!Overlay(Unsaved(proc[p]), DocumentOf(file)) = proc[p].learned
    BY <2>2, <2>3 DEF Catalog!Overlay
  <2>5. DocumentOf(file') = proc[p].learned
    BY <1>1, <1>3 DEF DocumentOf
  <2>6. Wanted[p] = Unsaved(proc[p])
    BY DEF Wanted
  <2>7. Catalog!Commit(p)
    BY <1>1, <1>5, <2>1, <2>4, <2>5, <2>6 DEF Catalog!Commit, Wanted, DocumentOf, Documents
  <2>8. QED
    BY <1>5, <2>7 DEF Implements, Catalog!Next
<1>8. QED
  BY <1>3, <1>6, <1>7

LEMMA AnswerImplements ==
    ASSUME StoreAssumption, Inv, NEW p \in Processes, Answer(p)
    PROVE  Implements
<1>1. /\ proc[p].stage = "answer" /\ lock' = lock /\ file' = file /\ spoiled' = spoiled
      /\ proc[p] \in Memories /\ proc[p].learned \in Documents
  BY DEF Answer, tally, Inv, Sound, Memories
<1>2. CASE Become(p, Rejected(proc[p]))
  BY <1>1, <1>2, RejectedStep
<1>3. CASE /\ proc[p].attempt < Attempts /\ proc[p].error \in {"busy", "conflict"}
           /\ Proceed(p, "asleep") \/ Proceed(p, "reload")
  <2>1. PICK s \in {"asleep", "reload"} : Proceed(p, s)
    BY <1>3
  <2>2. s \in Stages
    BY DEF Stages
  <2>3. PICK m \in Memories :
              /\ Become(p, m) /\ m.stage = s /\ m.error = proc[p].error
              /\ m.learned = proc[p].learned /\ m.base = proc[p].base
              /\ m.attempt = proc[p].attempt
    BY <2>1, <2>2, ProceedFields
  <2>4. Sound(m)
    BY <1>3, <2>3 DEF Sound
  <2>5. QED
    BY <1>1, <1>3, <2>3, <2>4, TravelStep DEF Replaced, Locked
<1>4. CASE /\ proc[p].error = "none" \/ file = proc[p].learned
           /\ Become(p, Memory(proc[p].learned))
  <2> DEFINE m == Memory(proc[p].learned)
  <2>1. proc[p].learned \in Revisions
    BY <1>1 DEF Revisions
  <2>2. Sound(m) /\ Unsaved(m) = Catalog!Nothing /\ m.stage = "idle"
    BY <2>1, MemoryIsSound
  <2> HIDE DEF m
  <2>3. CASE proc[p].error = "none"
    BY <1>1, <1>4, <2>2, <2>3, QuietStep DEF Locked, m
  <2>4. CASE file = proc[p].learned
    <3>1. Inv' /\ Wanted' = [Wanted EXCEPT ![p] = Unsaved(m)]
      <4>1. /\ file' \in Contents \ Contradictory /\ (file' = Garbage => spoiled' = TRUE)
            /\ spoiled' \in BOOLEAN /\ (spoiled = TRUE => spoiled' = TRUE)
        BY <1>1 DEF Inv
      <4>2. Become(p, m)
        BY <1>4 DEF m
      <4>3. QED
        BY <1>1, <2>2, <4>1, <4>2, StepKeeps DEF Locked
    <3>2. DocumentOf(file) = proc[p].learned
      BY <1>1, <2>4 DEF DocumentOf
    <3>3. /\ DOMAIN Unsaved(proc[p]) \subseteq Fields
          /\ \A k \in DOMAIN Unsaved(proc[p]) : Unsaved(proc[p])[k] = proc[p].learned[k]
      BY DEF Unsaved
    <3>4. proc[p].learned = [k \in Fields |-> proc[p].learned[k]]
      BY <1>1 DEF Documents
    <3>5. Catalog!Overlay(Unsaved(proc[p]), DocumentOf(file)) = proc[p].learned
      BY <3>2, <3>3, <3>4 DEF Catalog!Overlay
    <3>6. Wanted[p] = Unsaved(proc[p])
      BY DEF Wanted
    <3>7. Catalog!Commit(p)
      BY <1>1, <2>2, <3>1, <3>2, <3>5, <3>6 DEF Catalog!Commit, Wanted, DocumentOf, Documents
    <3>8. QED
      BY <3>1, <3>7 DEF Implements, Catalog!Next
  <2>5. QED
    BY <1>4, <2>3, <2>4
<1>5. QED
  BY <1>1, <1>2, <1>3, <1>4 DEF Answer

\* The next attempt encodes the observations again.
LEMMA NextAttemptFields ==
    ASSUME StoreAssumption, NEW m \in Memories, m.attempt < Attempts
    PROVE  /\ NextAttempt(m) \in Memories /\ Sound(NextAttempt(m))
           /\ NextAttempt(m).stage = "encode" /\ NextAttempt(m).error = "none"
           /\ NextAttempt(m).learned = m.learned /\ NextAttempt(m).base = m.base
<1> DEFINE m1 == [m EXCEPT !.stage = "encode"]
           m2 == [m1 EXCEPT !.attempt = m.attempt + 1]
           m3 == [m2 EXCEPT !.error = "none"]
<1>1. m.attempt + 1 \in 1..Attempts
  BY DEF Memories, StoreAssumption
<1>2. m1 \in Memories /\ m1.stage = "encode" /\ m1.learned = m.learned /\ m1.base = m.base
  BY DEF Memories, Stages, Saving
<1> HIDE DEF m1
<1>3. m2 \in Memories /\ m2.stage = "encode" /\ m2.learned = m.learned /\ m2.base = m.base
  BY <1>1, <1>2 DEF Memories
<1> HIDE DEF m2
<1>4. /\ m3 \in Memories /\ m3.stage = "encode" /\ m3.learned = m.learned /\ m3.base = m.base
      /\ m3.error = "none"
  BY <1>3 DEF Memories, Errors
<1>5. NextAttempt(m) = m3
  BY DEF NextAttempt, m1, m2
<1> HIDE DEF m3
<1>6. QED
  BY <1>4, <1>5 DEF Sound

LEMMA WakeImplements ==
    ASSUME StoreAssumption, Inv, NEW p \in Processes, Wake(p)
    PROVE  Implements
<1>1. /\ proc[p].stage = "asleep" /\ lock' = lock /\ file' = file /\ spoiled' = spoiled
      /\ Become(p, NextAttempt(proc[p]))
      /\ proc[p] \in Memories /\ proc[p].attempt < Attempts
  BY DEF Wake, tally, Inv, Sound
<1>2. QED
  BY <1>1, NextAttemptFields, TravelStep DEF Replaced, Locked

\* What is merged is a document.
LEMMA MergeType ==
    ASSUME NEW base \in Documents, NEW local \in Documents, NEW remote \in Documents
    PROVE  Merge(base, local, remote) \in Documents
BY DEF Merge, Documents

LEMMA MergedFields ==
    ASSUME StoreAssumption, NEW m \in Memories, m.attempt < Attempts, NEW r \in Revisions
    PROVE  /\ Merged(m, r) \in Memories /\ Sound(Merged(m, r))
           /\ Merged(m, r).stage = "encode" /\ Merged(m, r).base = r
           /\ Merged(m, r).learned = Merge(DocumentOf(m.base), m.learned, DocumentOf(r))
<1> DEFINE d == Merge(DocumentOf(m.base), m.learned, DocumentOf(r))
           m1 == [m EXCEPT !.base = r]
           m2 == [m1 EXCEPT !.learned = d]
<1>1. d \in Documents
  BY MergeType, Documents1 DEF Memories
<1> HIDE DEF d
<1>2. m1 \in Memories /\ m1.base = r /\ m1.attempt = m.attempt /\ m1.learned = m.learned
  BY DEF Memories
<1> HIDE DEF m1
<1>3. m2 \in Memories /\ m2.base = r /\ m2.attempt = m.attempt /\ m2.learned = d
  BY <1>1, <1>2 DEF Memories
<1>4. Merged(m, r) = NextAttempt(m2)
  BY DEF Merged, m1, d
<1> HIDE DEF m2
<1>5. QED
  BY <1>3, <1>4, NextAttemptFields DEF d

LEMMA ReloadImplements ==
    ASSUME StoreAssumption, Inv, NEW p \in Processes, Reload(p)
    PROVE  Implements
<1>1. /\ proc[p].stage = "reload" /\ lock' = lock /\ file' = file /\ spoiled' = spoiled
      /\ proc[p] \in Memories /\ proc[p].attempt < Attempts
  BY DEF Reload, tally, Inv, Sound
<1>2. CASE file = Garbage
  <2>1. Proceed(p, "reclear") /\ "reclear" \in Stages /\ spoiled = TRUE
    BY <1>2 DEF Reload, Stages, Inv
  <2>2. PICK m \in Memories :
              /\ Become(p, m) /\ m.stage = "reclear" /\ m.attempt = proc[p].attempt
              /\ m.learned = proc[p].learned /\ m.base = proc[p].base
    BY <2>1, ProceedFields
  <2>3. Sound(m)
    BY <1>1, <2>2 DEF Sound
  <2>4. QED
    BY <1>1, <2>1, <2>2, <2>3, TravelStep DEF Replaced, Locked
<1>3. CASE file # Garbage
  <2> DEFINE m == Merged(proc[p], file)
             local == proc[p].learned
             remote == DocumentOf(file)
             base == DocumentOf(proc[p].base)
             merged == [k \in Fields |-> IF local[k] = base[k] THEN remote[k] ELSE local[k]]
  <2>1. file \in Revisions /\ Become(p, m)
    BY <1>3 DEF Inv, Contents, Revisions, Reload
  <2>2. /\ Sound(m) /\ m.stage = "encode" /\ m.base = file
        /\ m.learned = IF merged \in Contradictory THEN local ELSE merged
    BY <1>1, <2>1, MergedFields DEF Merge
  <2> HIDE DEF m
  <2>3. Inv' /\ Wanted' = [Wanted EXCEPT ![p] = Unsaved(m)]
    <3>1. /\ file' \in Contents \ Contradictory /\ (file' = Garbage => spoiled' = TRUE)
          /\ spoiled' \in BOOLEAN /\ (spoiled = TRUE => spoiled' = TRUE)
      BY <1>1 DEF Inv
    <3>2. QED
      BY <1>1, <2>1, <2>2, <3>1, StepKeeps DEF Locked
  <2>4. Unsaved(proc[p]) = [k \in {k \in Fields : local[k] # base[k]} |-> local[k]]
    BY <1>1 DEF Unsaved, Replaced
  <2>5. Unsaved(m) = [k \in {k \in Fields : m.learned[k] # remote[k]} |-> m.learned[k]]
    BY <2>2 DEF Unsaved, Replaced
  <2>6. Wanted[p] = Unsaved(proc[p]) /\ DocumentOf(file') = remote
    BY <1>1 DEF Wanted
  <2>7. Catalog!Overlay(Unsaved(proc[p]), remote) = merged
    BY <2>4 DEF Catalog!Overlay
  <2>8. CASE merged \in Contradictory
    <3>1. m.learned = local
      BY <2>2, <2>8
    <3>2. Unsaved(m) \in Catalog!Wishes
      BY <2>2, UnsavedType DEF Sound
    <3>3. \A k \in DOMAIN Unsaved(proc[p]) :
             Catalog!Overlay(Unsaved(m), remote)[k] = Unsaved(proc[p])[k]
      BY <2>4, <2>5, <3>1 DEF Catalog!Overlay
    <3>4. Catalog!Insist(p)
      BY <1>1, <2>3, <2>6, <2>7, <2>8, <3>2, <3>3
      DEF Catalog!Insist, Wanted, DocumentOf, Documents
    <3>5. QED
      BY <2>3, <3>4 DEF Implements, Catalog!Next
  <2>9. CASE merged \notin Contradictory
    <3> DEFINE S == {k \in Fields : local[k] # base[k] /\ local[k] # remote[k]}
    <3>1. m.learned = merged
      BY <2>2, <2>9
    <3>2. {k \in Fields : m.learned[k] # remote[k]} = S
      BY <3>1
    <3>3. \A k \in S : m.learned[k] = Unsaved(proc[p])[k]
      BY <2>4, <3>1
    <3>4. Unsaved(m) = [k \in S |-> Unsaved(proc[p])[k]]
      BY <2>5, <3>2, <3>3
    <3>5. /\ S \in SUBSET DOMAIN Unsaved(proc[p])
          /\ \A k \in DOMAIN Unsaved(proc[p]) \ S : remote[k] = Unsaved(proc[p])[k]
      BY <2>4
    <3> HIDE DEF S
    <3>6. Wanted' = [Wanted EXCEPT ![p] = [k \in S |-> Wanted[p][k]]]
      BY <2>3, <2>6, <3>4
    <3>7. /\ S \in SUBSET DOMAIN Wanted[p]
          /\ \A k \in DOMAIN Wanted[p] \ S : DocumentOf(file)[k] = Wanted[p][k]
      BY <2>6, <3>5
    <3>8. \E T \in SUBSET DOMAIN Wanted[p] :
             /\ \A k \in DOMAIN Wanted[p] \ T : DocumentOf(file)[k] = Wanted[p][k]
             /\ Wanted' = [Wanted EXCEPT ![p] = [k \in T |-> Wanted[p][k]]]
      BY <3>6, <3>7
    <3>9. DocumentOf(file)' = DocumentOf(file) /\ spoiled' = spoiled
      BY <1>1 DEF DocumentOf, Documents
    <3>10. Catalog!Absorb(p)
      BY <3>8, <3>9 DEF Catalog!Absorb, Wanted
    <3>11. QED
      BY <2>3, <3>10 DEF Implements, Catalog!Next
  <2>10. QED
    BY <2>8, <2>9
<1>4. QED
  BY <1>2, <1>3

LEMMA ReclearImplements ==
    ASSUME StoreAssumption, Inv, NEW p \in Processes, Reclear(p)
    PROVE  Implements
<1>1. /\ proc[p].stage = "reclear" /\ lock' = lock /\ file' = Missing /\ spoiled' = spoiled
      /\ spoiled = TRUE /\ Become(p, Merged(proc[p], Missing))
      /\ proc[p] \in Memories /\ proc[p].attempt < Attempts
  BY DEF Reclear, Replace, tally, Inv, Sound
<1>2. /\ Missing \in Revisions /\ Missing \in Contents \ Contradictory /\ Missing # Garbage
  BY DEF Revisions, Contents, StoreAssumption
<1>3. Sound(Merged(proc[p], Missing)) /\ Merged(proc[p], Missing).stage = "encode"
  BY <1>1, <1>2, MergedFields
<1>4. Inv'
  BY <1>1, <1>2, <1>3, StepKeeps DEF Locked
<1>5. QED
  BY <1>1, <1>4, SpoiledStep

LEMMA ReloadFailsImplements ==
    ASSUME StoreAssumption, Inv, NEW p \in Processes, ReloadFails(p)
    PROVE  Implements
BY RejectedStep DEF ReloadFails, Mishap

LEMMA StreamImplements ==
    ASSUME StoreAssumption, Inv, NEW p \in Processes, Refresh(p) \/ StreamFails(p)
    PROVE  Implements
BY StayStep DEF Refresh, StreamFails, TimerFires, Mishap, tally, Locked

\* An installed snapshot replaces memory in which nothing is unsaved; what is
\* queued is what the file once said.
LEMMA InstallImplements ==
    ASSUME StoreAssumption, Inv, NEW p \in Processes, Install(p),
           Head(stream[p].queue) \in Revisions
    PROVE  Implements
<1>1. /\ proc[p].stage = "idle" /\ lock' = lock /\ file' = file /\ spoiled' = spoiled
  BY DEF Install, tally
<1>2. CASE proc' = proc
  BY <1>1, <1>2, StayStep DEF Locked
<1>3. CASE Become(p, Memory(Head(stream[p].queue)))
  BY <1>1, <1>3, MemoryIsSound, QuietStep DEF Locked
<1>4. QED
  BY <1>2, <1>3 DEF Install

LEMMA CrashImplements ==
    ASSUME StoreAssumption, Inv, NEW p \in Processes, Crash(p)
    PROVE  Implements
<1> DEFINE m == [Memory(Unloaded) EXCEPT !.stage = "down"]
<1>1. Unloaded \in Revisions
  BY DEF Revisions
<1>2. /\ Sound(Memory(Unloaded)) /\ Memory(Unloaded) \in Memories
      /\ Memory(Unloaded).learned = DocumentOf(Memory(Unloaded).base)
  BY <1>1, MemoryIsSound DEF Sound
<1>3. /\ m \in Memories /\ m.stage = "down" /\ m.learned = Memory(Unloaded).learned
      /\ m.base = Memory(Unloaded).base
  BY <1>2 DEF Memories, Stages
<1>4. Become(p, m) /\ file' = file /\ lock' = lock /\ spoiled' = spoiled
  BY DEF Crash, Mishap, Dead
<1> HIDE DEF m
<1>5. Sound(m) /\ Unsaved(m) = Catalog!Nothing
  BY <1>2, <1>3, SettledUnsaved DEF Sound
<1>6. QED
  BY <1>3, <1>4, <1>5, QuietStep DEF Locked

LEMMA RemoveImplements ==
    ASSUME StoreAssumption, Inv, NEW p \in Processes, RemoveStaleLock(p)
    PROVE  Implements
BY StayStep DEF RemoveStaleLock, tally

LEMMA SpoilImplements ==
    ASSUME StoreAssumption, Inv, Spoil
    PROVE  Implements
<1>1. /\ file' = Garbage /\ spoiled' = TRUE /\ proc' = proc /\ lock' = lock
      /\ Garbage \in Contents \ Contradictory
  BY DEF Spoil, Replace, Contents, StoreAssumption
<1>2. spoiled' \in BOOLEAN
  BY <1>1
<1>3. Inv'
  BY <1>1, <1>2 DEF Inv
<1>4. QED
  BY <1>1, <1>3, SpoiledStep

\* What watchers have emitted is what the file said.
Emitted == /\ stream \in [Processes -> [last : Revisions, queue : Seq(Revisions)]]

LEMMA EmittedStep ==
    ASSUME StoreAssumption, Inv, Emitted, [StoreNext]_storeVars
    PROVE  Emitted'
<1>1. Unloaded \in Revisions /\ Missing \in Revisions /\ (file \notin {Garbage} => file \in Revisions)
  BY DEF Revisions, Inv, Contents
<1>2. ASSUME NEW p \in Processes, NEW r \in Revisions,
             stream' = [stream EXCEPT ![p] = [last |-> r, queue |-> <<>>]]
      PROVE  Emitted'
  BY <1>2 DEF Emitted
<1>3. ASSUME NEW p \in Processes, Start(p) \/ Clear(p) \/ LoadFails(p) \/ Crash(p)
      PROVE  Emitted'
  <2>1. CASE UNCHANGED stream
    BY <2>1 DEF Emitted
  <2>2. QED
    BY <1>1, <1>2, <1>3, <2>1 DEF Start, Clear, LoadFails, Crash, OpenFile, watchers
<1>4. ASSUME NEW p \in Processes, Refresh(p)
      PROVE  Emitted'
  <2>1. CASE stream' = stream
    BY <2>1 DEF Emitted
  <2>2. CASE /\ file \in Revisions
             /\ stream' = [stream EXCEPT ![p] = [last |-> file, queue |-> Append(@.queue, file)]]
    <3>1. Append(stream[p].queue, file) \in Seq(Revisions)
      BY <2>2 DEF Emitted
    <3>2. QED
      BY <2>2, <3>1 DEF Emitted
  <2>3. QED
    BY <1>1, <1>4, <2>1, <2>2 DEF Refresh
<1>5. ASSUME NEW p \in Processes, Install(p)
      PROVE  Emitted'
  <2>1. Tail(stream[p].queue) \in Seq(Revisions)
    BY <1>5 DEF Install, Emitted
  <2>2. stream' = [stream EXCEPT ![p].queue = Tail(stream[p].queue)]
    BY <1>5 DEF Install
  <2>3. QED
    BY <2>1, <2>2 DEF Emitted
<1>6. CASE UNCHANGED stream
  BY <1>6 DEF Emitted
<1>7. ASSUME NEW p \in Processes,
             \/ Learn(p) \/ Session(p) \/ CallFails(p) \/ ReleaseFails(p) \/ ReloadFails(p)
             \/ StreamFails(p) \/ RemoveStaleLock(p)
      PROVE  UNCHANGED stream
  BY <1>7 DEF Learn, Session, Persist, Acquire, Check, Rename, Sync, Release, Answer, Wake,
              Reload, Reclear, CallFails, ReleaseFails, ReloadFails, StreamFails,
              RemoveStaleLock, watchers
<1>8. CASE Spoil \/ UNCHANGED storeVars
  BY <1>6, <1>8 DEF Spoil, storeVars, watchers
<1>9. QED
  BY <1>3, <1>4, <1>5, <1>6, <1>7, <1>8 DEF StoreNext, Misfortune

\* Every step keeps the invariant and is a step of the abstract catalog.
LEMMA StepImplements ==
    ASSUME StoreAssumption, Inv, Emitted, [StoreNext]_storeVars
    PROVE  Implements
<1>1. CASE UNCHANGED storeVars
  <2>1. Inv'
    BY <1>1 DEF storeVars, tally, Inv
  <2>2. UNCHANGED Mapped
    BY <1>1 DEF storeVars, tally, Mapped, Wanted, DocumentOf, Documents, Unsaved, Replaced
  <2>3. QED
    BY <2>1, <2>2 DEF Implements
<1>2. CASE Spoil
  BY <1>2, SpoilImplements
<1>3. ASSUME NEW p \in Processes, Session(p)
      PROVE  Implements
  BY <1>3, PersistImplements, AcquireImplements, CheckImplements, RenameImplements,
     SyncImplements, ReleaseImplements, AnswerImplements, WakeImplements, ReloadImplements,
     ReclearImplements
  DEF Session
<1>4. ASSUME NEW p \in Processes, Misfortune(p)
      PROVE  Implements
  BY <1>4, LoadFailsImplements, CallFailsImplements, ReleaseImplements, ReloadFailsImplements,
     StreamImplements, CrashImplements
  DEF Misfortune
<1>5. ASSUME NEW p \in Processes, Install(p)
      PROVE  Implements
  <2>1. Head(stream[p].queue) \in Revisions
    BY <1>5 DEF Install, Emitted
  <2>2. QED
    BY <1>5, <2>1, InstallImplements
<1>6. ASSUME NEW p \in Processes,
             Start(p) \/ Clear(p) \/ Learn(p) \/ Refresh(p) \/ RemoveStaleLock(p)
      PROVE  Implements
  BY <1>6, StartImplements, ClearImplements, LearnImplements, StreamImplements, RemoveImplements
<1>7. QED
  BY <1>1, <1>2, <1>3, <1>4, <1>5, <1>6 DEF StoreNext

LEMMA InitImplements ==
    ASSUME StoreAssumption, StoreInit
    PROVE  Inv /\ Emitted /\ Catalog!Init
<1>1. Unloaded \in Revisions
  BY DEF Revisions
<1> DEFINE m == [Memory(Unloaded) EXCEPT !.stage = "down"]
<1>2. /\ Sound(Memory(Unloaded)) /\ Memory(Unloaded) \in Memories
      /\ Memory(Unloaded).learned = DocumentOf(Memory(Unloaded).base)
  BY <1>1, MemoryIsSound DEF Sound
<1>3. /\ m \in Memories /\ m.stage = "down" /\ m.learned = Memory(Unloaded).learned
      /\ m.base = Memory(Unloaded).base
  BY <1>2 DEF Memories, Stages
<1>4. proc = [p \in Processes |-> m]
  BY DEF StoreInit, Dead
<1> HIDE DEF m
<1>5. Sound(m) /\ Unsaved(m) = Catalog!Nothing
  BY <1>2, <1>3, SettledUnsaved DEF Sound
<1>6. file \in Contents \ Contradictory /\ spoiled \in BOOLEAN /\ (file = Garbage => spoiled = TRUE)
  BY DEF StoreInit, StoreAssumption
<1>7. Inv
  BY <1>3, <1>4, <1>5, <1>6 DEF Inv, Locked
<1>8. Emitted
  BY <1>1 DEF StoreInit, Emitted
<1>9. Catalog!Init
  BY <1>4, <1>5, <1>6, Documents1 DEF Catalog!Init, Catalog!Documents, Documents
<1>10. QED
  BY <1>7, <1>8, <1>9

\* Nobody's observations are lost: concurrent processes, with conflicts,
\* merges, crashes and failures of the file system, implement one shared
\* catalog (persistLearning, mergeLearningChanges, observation-file.ts).
THEOREM UpdatesAreKept == StoreSpec => NoLostUpdate
<1>1. StoreInit => Inv /\ Emitted /\ Catalog!Init
  BY InitImplements, StoreAssumption
<1>2. Inv /\ Emitted /\ [StoreNext]_storeVars
         => Inv' /\ Emitted' /\ [Catalog!Next]_Mapped
  BY StepImplements, EmittedStep, StoreAssumption DEF Implements
<1>3. QED
  BY <1>1, <1>2, PTL DEF StoreSpec, NoLostUpdate, Catalog!Spec, Mapped, Wanted

\* At most one process is inside the write lock (withWriteLock).
THEOREM OneWriterAtATime == StoreSpec => []OneWriter
<1>1. StoreInit => Inv /\ Emitted
  BY InitImplements, StoreAssumption
<1>2. Inv /\ Emitted /\ [StoreNext]_storeVars => Inv' /\ Emitted'
  BY StepImplements, EmittedStep, StoreAssumption DEF Implements
<1>3. Inv => OneWriter
  BY DEF Inv, OneWriter
<1>4. QED
  BY <1>1, <1>2, <1>3, PTL DEF StoreSpec

\* No snapshot that is installed between sessions discards what was learned
\* (installObservationSnapshot).
THEOREM NothingUnsavedWhenIdle == StoreSpec => []IdleIsSaved
<1>1. StoreInit => Inv /\ Emitted
  BY InitImplements, StoreAssumption
<1>2. Inv /\ Emitted /\ [StoreNext]_storeVars => Inv' /\ Emitted'
  BY StepImplements, EmittedStep, StoreAssumption DEF Implements
<1>3. Inv => IdleIsSaved
  BY DEF Inv, Sound, IdleIsSaved
<1>4. QED
  BY <1>1, <1>2, <1>3, PTL DEF StoreSpec
=============================================================================
