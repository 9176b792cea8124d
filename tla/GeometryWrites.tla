--------------------------- MODULE GeometryWrites ---------------------------
(***************************************************************************)
(* The writing side of the Swift sidecar: requests that set frames and     *)
(* give focus, alone or in batches, as tasks of the main actor.  What a    *)
(* task does between two awaits is one action; while it sleeps, between    *)
(* the component writes of a frame or between two readings of a window     *)
(* that settles, the turns of other tasks run.  A batch runs in waves: the *)
(* operations whose dependencies have results, one per window.  A single   *)
(* write (setWindowFrame) is a batch of one.                               *)
(*                                                                         *)
(* Outside the sidecar: windows are replaced by others that take their     *)
(* place, calls into the Accessibility API are refused, and settling       *)
(* windows read as they please.  The sidecar knows a window by its look:   *)
(* application, role and number or, where the application tells no number, *)
(* frame, title and subrole.  An application's AXEnhancedUserInterface is  *)
(* changed by nobody else, and an application that answers says what it    *)
(* is.                                                                     *)
(***************************************************************************)
EXTENDS Naturals, Sequences

CONSTANTS
    Messages,     \* requests, each sent once
    Batches,      \* what a request may ask: sequences of operations
    MaxLength,    \* the longest of them
    Windows, Apps, Owner,
    Names,        \* operationIds
    Looks,        \* what windows look like
    Needed,       \* readings alike that make a window settled (3)
    Samples,      \* readings 17 ms apart (36)
    MaxReplaced   \* bound: how often one window is replaced

Writes == [frame |-> 3, position |-> 1, size |-> 1]   \* component writes

Operations == [name : Names, kind : DOMAIN Writes \cup {"focus", "invalid"},
               window : Windows, after : SUBSET Names]

ASSUME WritesAssumption ==
    /\ Owner \in [Windows -> Apps]
    /\ MaxLength \in Nat /\ Needed \in Nat \ {0} /\ Samples \in Nat /\ MaxReplaced \in Nat
    /\ \A b \in Batches : b \in Seq(Operations) /\ Len(b) <= MaxLength

VARIABLES
    running,      \* the process
    looks,        \* of the windows that have been in each window's place, in turn
    enhanced,     \* AXEnhancedUserInterface of each application
    wanted,       \* what it was when nobody wrote
    stage,        \* of each request
    batch,        \* what it asks
    captured,     \* which of these its metadata are about; 0 for an unknown window
    job           \* its operations

writesVars == <<running, looks, enhanced, wanted, stage, batch, captured, job>>

Jobs == Messages \X (1 .. MaxLength)
Outcomes == {"settled", "unsettled", "refused", "stale", "unknown", "invalid", "cyclic"}

Fresh == [at |-> "waiting", left |-> 0, was |-> FALSE, refused |-> FALSE,
          hits |-> 0, quiet |-> 0, reads |-> 0, outcome |-> "none"]
Finished(outcome) == [Fresh EXCEPT !.at = "done", !.outcome = outcome]

Op(j) == batch[j[1]][j[2]]
App(j) == Owner[Op(j).window]

\* sameLogicalWindow, resolve and matches: what is in the window's place now looks like
\* the window that was asked for.
Same(j) ==
    LET past == looks[Op(j).window]
    IN  past[Len(past)] = past[captured[j[1]][Op(j).window]]

WritesInit ==
    /\ running = TRUE
    /\ looks \in [Windows -> {<<look>> : look \in Looks}]
    /\ wanted \in [Apps -> BOOLEAN] /\ enhanced = wanted
    /\ stage = [m \in Messages |-> "unsent"]
    /\ batch = [m \in Messages |-> <<>>]
    /\ captured = [m \in Messages |-> [w \in Windows |-> 0]]
    /\ job = [j \in Jobs |-> Fresh]

-----------------------------------------------------------------------------
(* dispatchBatch.  The inventory, from which the metadata is taken, may    *)
(* be behind.                                                              *)

Receive(m) ==
    /\ stage[m] = "unsent"
    /\ stage' = [stage EXCEPT ![m] = "open"]
    /\ \E b \in Batches, seen \in [Windows -> 0 .. MaxReplaced + 1] :
         /\ \A w \in Windows : seen[w] <= Len(looks[w])
         /\ \A w \in Windows \ {b[i].window : i \in DOMAIN b} : seen[w] = 0
         /\ batch' = [batch EXCEPT ![m] = b]
         /\ captured' = [captured EXCEPT ![m] = seen]
    /\ UNCHANGED <<running, looks, enhanced, wanted, job>>

Pending(m) == {i \in DOMAIN batch[m] : job[<<m, i>>].at = "waiting"}
WithResult(m) == {batch[m][i].name : i \in {k \in DOMAIN batch[m] : job[<<m, k>>].at = "done"}}
Possible(m) == {i \in Pending(m) : batch[m][i].after \subseteq WithResult(m)}

Regression_InOrderOnly(m) == {i \in Possible(m) :
    \A k \in Pending(m) : k < i => batch[m][k].window # batch[m][i].window}

Ready(m) == {i \in Possible(m) :
                \A k \in Possible(m) : k < i => batch[m][k].window # batch[m][i].window}

\* No child of the task group is running.
Between(m) ==
    /\ stage[m] = "open"
    /\ \A i \in DOMAIN batch[m] : job[<<m, i>>].at \in {"waiting", "done"}

Wave(m) ==
    /\ Between(m) /\ Ready(m) # {}
    /\ job' = [j \in Jobs |-> IF j[1] = m /\ j[2] \in Ready(m)
                              THEN [Fresh EXCEPT !.at = "ready"] ELSE job[j]]
    /\ UNCHANGED <<running, looks, enhanced, wanted, stage, batch, captured>>

Reply(m) ==
    /\ Between(m) /\ Ready(m) = {}
    /\ job' = [j \in Jobs |-> IF j[1] = m /\ j[2] \in Pending(m)
                              THEN Finished("cyclic") ELSE job[j]]
    /\ stage' = [stage EXCEPT ![m] = "answered"]
    /\ UNCHANGED <<running, looks, enhanced, wanted, batch, captured>>

-----------------------------------------------------------------------------
(* settle.  A reading may match the target, differ little from the one     *)
(* before, and be nearer to the target than that one.                      *)

Regression_ValidateOnce(s, outcome, same) ==
    IF s.refused THEN Finished("refused") ELSE Finished(outcome)

\* The identity is validated once more when settling is over.
Judged(s, outcome, same) ==
    IF ~same THEN Finished("stale")
    ELSE IF s.refused THEN Finished("refused") ELSE Finished(outcome)

Sample(s, match, still, nearer, same) ==
    LET hits == IF match THEN s.hits + 1 ELSE 0
        quiet == IF still THEN s.quiet + 1 ELSE 0
    IN  IF s.reads = Samples THEN Judged(s, "unsettled", same)
        ELSE IF hits >= Needed \/ (quiet >= Needed /\ ~nearer) THEN Judged(s, "settled", same)
        ELSE [Fresh EXCEPT !.at = "settling", !.refused = s.refused,
                           !.hits = hits, !.quiet = quiet, !.reads = s.reads + 1]

\* There is nothing to compare the first reading with.
Likeness(s) == IF s.reads > 0 THEN BOOLEAN ELSE {FALSE}

\* A window whose frame or identity cannot be read is stale.
Reading(s, same) ==
    {Finished("stale")} \cup
    {Sample(s, match, still, nearer, same) :
        match \in BOOLEAN, still \in Likeness(s), nearer \in BOOLEAN}

\* A call was refused: settleAfterRejectedWrite, unless the error is `stale`.
Refusal(same) ==
    {Finished("stale"), Finished("refused")} \cup
    (IF same THEN Reading([Fresh EXCEPT !.refused = TRUE], same) ELSE {})

-----------------------------------------------------------------------------
(* executeBatchOperation, focus and write.                                 *)

Becomes(j, s) == job' = [job EXCEPT ![j] = s]

Regression_ClearedNow(j) ==
    enhanced' = IF job[j].was /\ Same(j) THEN [enhanced EXCEPT ![App(j)] = TRUE] ELSE enhanced

Restore(j) ==
    enhanced' = IF job[j].was THEN [enhanced EXCEPT ![App(j)] = TRUE] ELSE enhanced

Begins(j) ==
    /\ job[j].at = "ready"
    /\ UNCHANGED <<running, looks, wanted, stage, batch, captured>>

Unknown(j) ==
    /\ Begins(j) /\ captured[j[1]][Op(j).window] = 0
    /\ Becomes(j, Finished("unknown")) /\ UNCHANGED enhanced

Known(j) == Begins(j) /\ captured[j[1]][Op(j).window] # 0

Invalid(j) ==
    /\ Known(j) /\ Op(j).kind = "invalid"
    /\ Becomes(j, Finished("invalid")) /\ UNCHANGED enhanced

Focus(j) ==
    /\ Known(j) /\ Op(j).kind = "focus"
    /\ \E outcome \in {"refused", "stale"} \cup (IF Same(j) THEN {"settled"} ELSE {}) :
         Becomes(j, Finished(outcome))
    /\ UNCHANGED enhanced

\* The window is resolved and identified, and may be written to ...
BeginWrite(j) ==
    /\ Known(j) /\ Op(j).kind \in DOMAIN Writes /\ Same(j)
    /\ enhanced' = [enhanced EXCEPT ![App(j)] = FALSE]
    /\ Becomes(j, [Fresh EXCEPT !.at = "writing", !.left = Writes[Op(j).kind] - 1,
                                !.was = enhanced[App(j)]])

\* ... or not, or its first write is refused: the flag is restored at once.
RefuseWrite(j) ==
    /\ Known(j) /\ Op(j).kind \in DOMAIN Writes
    /\ \E s \in Refusal(Same(j)) : Becomes(j, s)
    /\ UNCHANGED enhanced

\* 25 ms after a component write.
Wakes(j) ==
    /\ job[j].at = "writing"
    /\ UNCHANGED <<running, looks, wanted, stage, batch, captured>>

NextWrite(j) ==
    /\ Wakes(j) /\ Same(j) /\ job[j].left > 0
    /\ Becomes(j, [job[j] EXCEPT !.left = @ - 1]) /\ UNCHANGED enhanced

\* The next write is refused, or the window is not what it was.
BreakOff(j) ==
    /\ Wakes(j)
    /\ \E s \in IF Same(j) /\ job[j].left > 0 THEN Refusal(TRUE) ELSE {Finished("stale")} :
         Becomes(j, s)
    /\ Restore(j)

LastWritten(j) ==
    /\ Wakes(j) /\ Same(j) /\ job[j].left = 0
    /\ \E s \in Reading(Fresh, TRUE) : Becomes(j, s)
    /\ Restore(j)

Read(j) ==
    /\ job[j].at = "settling"
    /\ \E s \in Reading(job[j], Same(j)) : Becomes(j, s)
    /\ UNCHANGED <<running, looks, enhanced, wanted, stage, batch, captured>>

Turn(j) == \/ Unknown(j) \/ Invalid(j) \/ Focus(j) \/ BeginWrite(j) \/ RefuseWrite(j)
           \/ NextWrite(j) \/ BreakOff(j) \/ LastWritten(j) \/ Read(j)

-----------------------------------------------------------------------------
Replace(w) ==
    /\ \A v \in Windows : Len(looks[v]) <= MaxReplaced
    /\ \E look \in Looks : looks' = [looks EXCEPT ![w] = Append(@, look)]
    /\ UNCHANGED <<running, enhanced, wanted, stage, batch, captured, job>>

\* SIGTERM or SIGINT: the process exits, whatever its tasks are doing.
Terminate ==
    /\ running' = FALSE
    /\ UNCHANGED <<looks, enhanced, wanted, stage, batch, captured, job>>

WritesNext ==
    /\ running
    /\ \/ \E m \in Messages : Receive(m) \/ Wave(m) \/ Reply(m)
       \/ \E j \in Jobs : Turn(j)
       \/ \E w \in Windows : Replace(w)
       \/ Terminate

\* Calls are bounded by their timeouts and sleeps end: a task that can go on
\* gets its turn.
WritesFairness ==
    /\ \A m \in Messages : WF_writesVars(running /\ (Wave(m) \/ Reply(m)))
    /\ \A j \in Jobs : WF_writesVars(running /\ Turn(j))

WritesSpec == WritesInit /\ [][WritesNext]_writesVars /\ WritesFairness

-----------------------------------------------------------------------------
JobRecord == [at : {"waiting", "ready", "writing", "settling", "done"}, left : 0 .. 2,
              was : BOOLEAN, refused : BOOLEAN, hits : 0 .. Needed, quiet : Nat,
              reads : 0 .. Samples, outcome : Outcomes \cup {"none"}]

\* Types of the variables.
WritesOK ==
    /\ running \in BOOLEAN
    /\ looks \in [Windows -> Seq(Looks)]
    /\ enhanced \in [Apps -> BOOLEAN] /\ wanted \in [Apps -> BOOLEAN]
    /\ stage \in [Messages -> {"unsent", "open", "answered"}]
    /\ batch \in [Messages -> Batches \cup {<<>>}]
    /\ captured \in [Messages -> [Windows -> Nat]]
    /\ job \in [Jobs -> JobRecord]

Inside(j) == job[j].at = "writing"

\* However writes to one application overlap and fail, as long as the sidecar runs its
\* flag is what it was, or a write that has cleared it will restore it before its request
\* is answered.  It does not hold beyond: Terminate leaves the flag cleared for ever, where
\* GeometryAdapter.swift:242-243 has it restored "always".
FlagIsRestored ==
    running =>
        \A a \in Apps :
            \/ enhanced[a] = wanted[a]
            \/ wanted[a] /\ \E j \in Jobs : /\ stage[j[1]] = "open" /\ Inside(j)
                                             /\ App(j) = a /\ job[j].was

Active(j) == job[j].at \in {"ready", "writing", "settling"}

\* Operations of a batch on one window never overlap, and none begins before
\* all it depends on have results.
OneAtATime ==
    \A j \in Jobs : Active(j) =>
        /\ \A k \in Jobs : k # j /\ k[1] = j[1] /\ Active(k) => Op(k).window # Op(j).window
        /\ Op(j).after \subseteq WithResult(j[1])

\* The operations of a batch that wait for a name no operation outside them has.
Stuck(m) ==
    UNION {u \in SUBSET DOMAIN batch[m] :
              \A i \in u : \E n \in batch[m][i].after :
                 \A k \in DOMAIN batch[m] : batch[m][k].name = n => k \in u}

\* A batch is answered with a result for each operation, and exactly those are
\* left undone whose dependencies are unknown or wait for each other: neither
\* the order within the batch nor shared windows hold back any other.
DoesAllItCan ==
    \A m \in Messages : stage[m] = "answered" =>
        \A i \in DOMAIN batch[m] :
            /\ job[<<m, i>>].at = "done"
            /\ job[<<m, i>>].outcome = "cyclic" <=> i \in Stuck(m)

\* A batch keeps the order it asks for and no other: operations on one window never
\* overlap, none begins before all it depends on have results, and none is held
\* back that could be done (dispatchBatch).
WavesAreSound == OneAtATime /\ DoesAllItCan

\* What is reported as written and read back is about the window that was asked for or,
\* if that has been replaced, about one that nobody could tell from it: a replacement
\* that looks different is never taken for it, whenever it comes while the sidecar sleeps.
ReportsItsOwn ==
    [][\A j \in Jobs : job[j].at # "done" /\ job'[j].outcome \in {"settled", "unsettled"} =>
            LET past == looks[Op(j).window]
                k == captured[j[1]][Op(j).window]
            IN  k = Len(past) \/ past[k] = past[Len(past)]]_writesVars

\* Every request that is received is answered, whatever its operations meet.
RequestsEnd == \A m \in Messages : stage[m] = "open" ~> stage[m] = "answered" \/ ~running
=============================================================================
