--------------------------- MODULE ReconcileCycle ---------------------------
(***************************************************************************)
(* The settled lifecycle of packages/layout/src/engine.ts: who asks for a  *)
(* reconciliation cycle, which cycle answers, what the cycle observes, and *)
(* what shutdown does to it.                                               *)
(*                                                                         *)
(* One fiber, lifecycleLoop, runs the cycles.  A request joins the cycle   *)
(* that has not started yet (pendingCycle) or makes one.  A cycle holds    *)
(* reconcileGate while it repeats observe - plan - apply - verify until a  *)
(* pass changes nothing.  Commands that write take the same gate.  Hints   *)
(* of the platform arrive as a stream that one fiber consumes.  stop()     *)
(* interrupts every fiber, restores parked windows under the gate and      *)
(* answers whoever still waits.                                            *)
(*                                                                         *)
(* What runs between two awaits is one action.  Geometry, membership and   *)
(* the contents of plans are abstracted to the facts the control depends   *)
(* on: whether a pass planned something, failed, or changed the world.     *)
(* The platform's reads fail at will, as the adapter's may; the queue's    *)
(* recovery mode, which fails a pass before it reads, is one such failure. *)
(* A display is connected throughout.  Of the platform's hints only        *)
(* removals can be late: what they say is compared with what is read.  The *)
(* others carry nothing a cycle depends on and are handled as they come.   *)
(***************************************************************************)
EXTENDS Integers, Sequences, FiniteSets

CONSTANTS
    Windows,
    InitiallyOpen,  \* the windows open when the engine starts
    Ops,            \* start(), commands and API calls, one each
    Boot,           \* start()
    Exclusive,      \* the operations that take the gate themselves
    Reconciling,    \* those that await a cycle (after leaving the gate)
    Resumes,        \* resume commands
    Free, Loop, Stopper,    \* holders of the gate that are not operations
    MaxPasses,      \* MAX_CONVERGENCE_PASSES
    MaxFocus,       \* bound: focus hints sent by the platform
    MaxConflicts    \* bound: revision conflicts met by persistLearning

ASSUME CycleAssumption ==
    /\ InitiallyOpen \subseteq Windows
    /\ Boot \in Exclusive \cap Reconciling
    /\ Exclusive \cup Reconciling = Ops
    /\ Resumes \subseteq Reconciling \ Exclusive
    /\ {Free, Loop, Stopper} \cap Ops = {}
    /\ Free # Loop /\ Free # Stopper /\ Loop # Stopper
    /\ MaxPasses \in Nat \ {0} /\ MaxFocus \in Nat /\ MaxConflicts \in Nat

VARIABLES
    live,           \* the windows open on the desktop
    gone,           \* those that were open and have been closed
    stream,         \* the closed windows whose hint is not consumed yet, in order
    known,          \* world.windows
    paused,         \* world.paused
    ready,          \* startupReady
    stop,           \* what stop() has done
    pending,        \* pendingCycle # null
    loop,           \* where the lifecycle fiber is
    pass,           \* the pass the cycle is in
    batch,          \* removals of the cycle that has been taken
    removals,       \* pendingBatch.removals
    focus,          \* pendingFocusSignals, numbered as they are accepted
    again,          \* reconcileAgain
    conflicts,      \* how many revision conflicts there have been
    unsettled,      \* the world differs from the pass's first fingerprint
    gate,           \* who holds reconcileGate
    op,             \* where each operation is, or what it returned
    \* observation only
    seen,           \* operations whose cycle began a read since they asked
    accepted,       \* windows whose removal hint has been accepted
    announced,      \* those named in a cycle's removedWindowIds
    adopted,        \* those named by a cycle that converged
    installed       \* the focus hints applied, in order

desktop == <<live, gone, stream>>
control == <<ready, stop, pending, loop, pass, batch, removals, again, conflicts,
             unsettled, gate, op>>
history == <<seen, accepted, announced, adopted>>
vars == <<desktop, known, paused, control, focus, history, installed>>

LoopStates == {"off", "forked", "queued", "reading", "applying"}

Waits == {"queued", "inside", "next", "running"}

Results == {"ok", "failed", "interrupted", "skipped"}

Init ==
    /\ live = InitiallyOpen /\ gone = {} /\ stream = <<>>
    /\ known = {} /\ paused = FALSE
    /\ ready = FALSE /\ stop = "running"
    /\ pending = FALSE /\ loop = "off" /\ pass = 0
    /\ batch = {} /\ removals = {} /\ focus = <<>>
    /\ again = FALSE /\ conflicts = 0 /\ unsettled = FALSE
    /\ gate = Free
    /\ op = [o \in Ops |-> "idle"]
    /\ seen = {} /\ accepted = {} /\ announced = {} /\ adopted = {} /\ installed = <<>>

InPass == loop \in {"reading", "applying"}

Started == op[Boot] # "idle"

\* Every release of the gate first installs the focus hints that came while it
\* was held.
InstallFocus ==
    /\ installed' = installed \o focus
    /\ focus' = <<>>

(***************************************************************************)
(* Requests.                                                               *)
(***************************************************************************)

\* requestReconcile by anyone: there is a pending cycle, and a fiber to run it.
WakeLoop ==
    /\ pending' = TRUE
    /\ loop' = IF loop = "off" THEN "forked" ELSE loop

\* A request joins the cycle that is running (AwaitedIsFresh).
Regression_JoinRunning(o) ==
    IF InPass
    THEN op' = [op EXCEPT ![o] = "running"] /\ UNCHANGED <<pending, loop>>
    ELSE op' = [op EXCEPT ![o] = "next"] /\ WakeLoop

\* requestReconcile(true) in an operation: it awaits the cycle that has not
\* started.  An engine that stops refuses silently.
Join(o) ==
    \/ /\ stop = "running"
       /\ op' = [op EXCEPT ![o] = "next"]
       /\ WakeLoop
    \/ /\ stop # "running"
       /\ op' = [op EXCEPT ![o] = "skipped"]
       /\ UNCHANGED <<pending, loop>>

\* An operation starts: it takes the gate first, or changes the world at once
\* (or not at all) and asks for a cycle.  The hosts offer the engine's API when
\* start() has returned.
Begin(o) ==
    /\ op[o] = "idle" /\ stop = "running"
    /\ o = Boot \/ ready
    /\ \/ /\ o \in Exclusive
          /\ op' = [op EXCEPT ![o] = "queued"]
          /\ UNCHANGED <<pending, loop, unsettled, paused>>
       \/ /\ o \notin Exclusive
          /\ paused' = (paused /\ o \notin Resumes)
          /\ unsettled' \in {unsettled, InPass}
          /\ Join(o)
    /\ seen' = seen \ {o}
    /\ UNCHANGED <<desktop, known, ready, stop, pass, batch, removals, again, conflicts,
                   gate, focus, accepted, announced, adopted, installed>>

Pause ==
    /\ ~paused /\ ready /\ stop = "running"
    /\ paused' = TRUE
    /\ unsettled' = InPass
    /\ UNCHANGED <<desktop, known, ready, stop, pending, loop, pass, batch, removals,
                   again, conflicts, gate, op, focus, history, installed>>

\* start() begins by adopting the windows it finds, or none.
EnterGate(o) ==
    /\ op[o] = "queued" /\ gate = Free /\ stop = "running"
    /\ gate' = o
    /\ op' = [op EXCEPT ![o] = "inside"]
    /\ known' \in IF o = Boot THEN {live, {}} ELSE {known}
    /\ UNCHANGED <<desktop, paused, ready, stop, pending, loop, pass, batch,
                   removals, again, conflicts, unsettled, focus, history, installed>>

\* persistLearning met a revision that is not the one it loaded, inside the gate.
MeetConflict ==
    \/ UNCHANGED <<again, conflicts>>
    \/ /\ conflicts < MaxConflicts
       /\ conflicts' = conflicts + 1
       /\ again' = TRUE

\* Whatever a command under the gate has read is believed: it commits the inventory it
\* planned with, which may be empty, or by now behind the desktop.
CommitInventory == known' \in SUBSET (known \cup live)

\* A focus that turns out stale has the window read again: it is gone, or here.
RefreshStale ==
    \/ UNCHANGED known
    \/ \E w \in known : known' = known \ {w}
    \/ \E w \in live : known' = known \cup {w}

LeaveGate(o) ==
    /\ op[o] = "inside" /\ stop = "running"
    /\ gate' = Free
    /\ InstallFocus
    /\ MeetConflict
    /\ \/ /\ o = Boot
          /\ Join(o)
          /\ UNCHANGED known
       \/ /\ o # Boot
          /\ CommitInventory
          /\ \/ o \in Reconciling /\ Join(o)
             \/ /\ o \notin Reconciling
                /\ op' = [op EXCEPT ![o] = "ok"]
                /\ UNCHANGED <<pending, loop>>
       \/ /\ o # Boot
          /\ RefreshStale
          /\ op' = [op EXCEPT ![o] = "failed"]
          /\ UNCHANGED <<pending, loop>>
    /\ UNCHANGED <<desktop, paused, ready, stop, pass, batch, removals, unsettled, history>>

\* start() goes on once the initial cycle is answered, whatever the answer.
FinishStartup ==
    /\ op[Boot] \in {"ok", "failed", "skipped"} /\ ~ready
    /\ ready' = TRUE
    /\ UNCHANGED <<desktop, known, paused, stop, pending, loop, pass, batch, removals, again,
                   conflicts, unsettled, gate, op, focus, history, installed>>

(***************************************************************************)
(* The desktop, and the fiber that consumes its hints.  Before startup is  *)
(* done that fiber keeps focus hints only: the others are dropped, and     *)
(* none asks for a cycle.  Window ids are not used twice.                  *)
(***************************************************************************)

HandleHint ==
    \/ ready /\ WakeLoop
    \/ ~ready /\ UNCHANGED <<pending, loop>>

Open(w) ==
    /\ w \notin live \cup gone /\ Started /\ stop = "running"
    /\ live' = live \cup {w}
    /\ HandleHint
    /\ UNCHANGED <<gone, stream, known, paused, ready, stop, pass, batch, removals, again,
                   conflicts, unsettled, gate, op, focus, history, installed>>

Close(w) ==
    /\ w \in live /\ stop = "running"
    /\ live' = live \ {w}
    /\ gone' = gone \cup {w}
    /\ stream' = Append(stream, w)
    /\ UNCHANGED <<known, paused, control, focus, history, installed>>

HearRemoval ==
    /\ stream # <<>> /\ Started /\ stop = "running"
    /\ stream' = Tail(stream)
    /\ removals' = IF ready THEN removals \cup {Head(stream)} ELSE removals
    /\ accepted' = IF ready THEN accepted \cup {Head(stream)} ELSE accepted
    /\ HandleHint
    /\ UNCHANGED <<live, gone, known, paused, ready, stop, pass, batch, again, conflicts,
                   unsettled, gate, op, focus, seen, announced, adopted, installed>>

FocusHints == Len(installed) + Len(focus)

HearFocus ==
    /\ FocusHints < MaxFocus /\ Started /\ stop = "running"
    /\ focus' = Append(focus, FocusHints + 1)
    /\ HandleHint
    /\ UNCHANGED <<desktop, known, paused, ready, stop, pass, batch, removals, again,
                   conflicts, unsettled, gate, op, history, installed>>

(***************************************************************************)
(* The lifecycle fiber.                                                    *)
(***************************************************************************)

\* The hints of the batch are forgotten with the old pendingBatch
\* (EverythingIsAnswered).
Regression_TakeEmptyBatch ==
    /\ loop = "forked" /\ stop = "running"
    /\ loop' = "queued"
    /\ pending' = FALSE
    /\ batch' = {} /\ removals' = {}
    /\ op' = [o \in Ops |-> IF op[o] = "next" THEN "running" ELSE op[o]]
    /\ UNCHANGED <<desktop, known, paused, ready, stop, pass, again, conflicts, unsettled,
                   gate, focus, history, installed>>

TakeCycle ==
    /\ loop = "forked" /\ stop = "running"
    /\ loop' = "queued"
    /\ pending' = FALSE
    /\ batch' = removals /\ removals' = {}
    /\ op' = [o \in Ops |-> IF op[o] = "next" THEN "running" ELSE op[o]]
    /\ UNCHANGED <<desktop, known, paused, ready, stop, pass, again, conflicts, unsettled,
                   gate, focus, history, installed>>

\* A pass begins: it takes the fingerprint and starts to read.
BeginPass(n) ==
    /\ loop' = "reading"
    /\ pass' = n
    /\ unsettled' = FALSE
    /\ seen' = seen \cup {o \in Ops : op[o] = "running"}

EnterCycle ==
    /\ loop = "queued" /\ gate = Free /\ stop = "running"
    /\ gate' = Loop
    /\ BeginPass(1)
    /\ UNCHANGED <<desktop, known, paused, ready, stop, pending, batch, removals, again,
                   conflicts, op, focus, accepted, announced, adopted, installed>>

\* A failed cycle forgets the removals it had taken (HintsAreKept).
Regression_ForgetFailed(ok, rerun) ==
    /\ gate' = Free
    /\ announced' = announced \cup batch
    /\ adopted' = IF ok THEN adopted \cup batch ELSE adopted
    /\ batch' = {} /\ pass' = 0 /\ unsettled' = FALSE
    /\ op' = [o \in Ops |-> IF op[o] # "running" THEN op[o] ELSE IF ok THEN "ok" ELSE "failed"]
    /\ again' = FALSE
    /\ pending' = (pending \/ rerun)
    /\ loop' = IF pending' /\ stop = "running" THEN "forked" ELSE "off"
    /\ UNCHANGED <<removals, seen>>

\* The cycle is over: it tells what it did with its batch, releases the gate
\* and answers those who waited; a failed one keeps its removals for the next.
\* The loop goes on while there is a pending cycle, and makes one itself if
\* learning met a conflict meanwhile.
EndCycle(ok, rerun) ==
    /\ gate' = Free
    /\ announced' = announced \cup batch
    /\ adopted' = IF ok THEN adopted \cup batch ELSE adopted
    /\ removals' = IF ok THEN removals ELSE removals \cup batch
    /\ batch' = {} /\ pass' = 0 /\ unsettled' = FALSE
    /\ op' = [o \in Ops |-> IF op[o] # "running" THEN op[o] ELSE IF ok THEN "ok" ELSE "failed"]
    /\ again' = FALSE
    /\ pending' = (pending \/ rerun)
    /\ loop' = IF pending' /\ stop = "running" THEN "forked" ELSE "off"
    /\ UNCHANGED seen

\* A pass succeeded; `changed` says whether the fingerprint did.
EndPass(changed, rerun) ==
    \/ ~changed /\ EndCycle(TRUE, rerun)
    \/ changed /\ pass = MaxPasses /\ EndCycle(FALSE, rerun)
    \/ /\ changed /\ pass < MaxPasses
       /\ BeginPass(pass + 1)
       /\ again' = rerun
       /\ UNCHANGED <<gate, announced, adopted, removals, batch, op, pending>>

\* Only the first pass knows the batch.
PassRemovals == IF pass = 1 THEN batch ELSE {}

\* Any empty inventory is believed (NoPhantomEmpty).
Regression_EmptyIsBelieved(inventory) == FALSE

\* An inventory without a single window is not believed unless it was empty
\* before or every known window was reported closed.
Implausible(inventory) ==
    /\ inventory = {} /\ known # {}
    /\ paused \/ ~(known \subseteq PassRemovals)

\* The reads return.  From here to the writes there is no await.
Observe(inventory) ==
    /\ loop = "reading"
    /\ InstallFocus
    /\ \/ /\ Implausible(inventory)
          /\ EndCycle(FALSE, again)
          /\ UNCHANGED known
       \/ /\ ~Implausible(inventory)
          /\ known' = inventory
          /\ LET changed == unsettled \/ known' # known \/ focus # <<>>
             IN  \/ EndPass(changed, again)         \* the plan is empty
                 \/ /\ loop' = "applying"           \* it is not
                    /\ unsettled' = changed
                    /\ UNCHANGED <<gate, announced, adopted, removals, batch, pass, op, again,
                                   pending, seen>>
    /\ UNCHANGED <<desktop, paused, ready, stop, conflicts, accepted>>

ObserveFailed ==
    /\ loop = "reading"
    /\ InstallFocus
    /\ EndCycle(FALSE, again)
    /\ UNCHANGED <<desktop, known, paused, ready, stop, conflicts, accepted>>

\* The plan's receipt is in and its writes have been read back.  The receipt, or
\* the reading back, may say that it failed; the plan may have changed the world.
Apply ==
    /\ loop = "applying"
    /\ \E rerun \in {again, conflicts < MaxConflicts \/ again} :
          /\ conflicts' = IF rerun # again THEN conflicts + 1 ELSE conflicts
          /\ \/ EndCycle(FALSE, rerun) /\ RefreshStale
             \/ /\ \E moved \in BOOLEAN : EndPass(unsettled \/ moved, rerun)
                /\ UNCHANGED known
    /\ \/ gate' = Free /\ InstallFocus
       \/ gate' # Free /\ UNCHANGED <<focus, installed>>
    /\ UNCHANGED <<desktop, paused, ready, stop, accepted>>

(***************************************************************************)
(* stop().                                                                 *)
(***************************************************************************)

Stop ==
    /\ stop = "running" /\ Started
    /\ stop' = "closing"
    /\ UNCHANGED <<desktop, known, paused, ready, pending, loop, pass, batch, removals,
                   again, conflicts, unsettled, gate, op, focus, history, installed>>

\* The lifecycle fiber is interrupted.  Its wait for the gate is not
\* interruptible: it must get the gate first, and releases it at once.
InterruptLoop ==
    /\ stop = "closing"
    /\ \/ loop = "forked" /\ UNCHANGED <<gate, focus, installed>>
       \/ InPass /\ gate' = Free /\ InstallFocus
       \/ loop = "queued" /\ gate = Free /\ InstallFocus /\ UNCHANGED gate
    /\ loop' = "off" /\ pass' = 0 /\ batch' = {} /\ unsettled' = FALSE
    /\ op' = [o \in Ops |-> IF op[o] = "running" THEN "failed" ELSE op[o]]
    /\ UNCHANGED <<desktop, known, paused, ready, stop, pending, removals, again, conflicts,
                   history>>

\* So are the operations; start() itself runs outside the scope that is closed
\* and keeps waiting for its cycle.  What a command has committed stays committed.
InterruptOp(o) ==
    /\ stop = "closing"
    /\ \/ /\ op[o] = "inside" /\ gate' = Free /\ InstallFocus
          /\ IF o = Boot THEN UNCHANGED known ELSE CommitInventory
       \/ op[o] = "queued" /\ gate = Free /\ InstallFocus /\ UNCHANGED <<gate, known>>
       \/ /\ op[o] \in {"next", "running"} /\ o # Boot
          /\ UNCHANGED <<gate, known, focus, installed>>
    /\ op' = [op EXCEPT ![o] = "interrupted"]
    /\ UNCHANGED <<desktop, paused, ready, stop, pending, loop, pass, batch,
                   removals, again, conflicts, unsettled, history>>

\* The scope is closed: no fiber is left.  Whoever waits for a cycle that will
\* not run is told so, and the gate is taken to restore the parked windows.
CloseScope ==
    /\ stop = "closing" /\ loop = "off" /\ gate = Free
    /\ \A o \in Ops : op[o] \in Waits => o = Boot /\ op[o] \in {"next", "running"}
    /\ stop' = "restoring"
    /\ gate' = Stopper
    /\ again' = FALSE
    /\ pending' = FALSE
    /\ op' = [o \in Ops |-> IF op[o] = "next" THEN "failed" ELSE op[o]]
    /\ UNCHANGED <<desktop, known, paused, ready, loop, pass, batch, removals, conflicts,
                   unsettled, focus, history, installed>>

FinishStop ==
    /\ stop = "restoring"
    /\ stop' = "stopped"
    /\ gate' = Free
    /\ InstallFocus
    /\ UNCHANGED <<desktop, known, paused, ready, pending, loop, pass, batch, removals,
                   again, conflicts, unsettled, op, history>>

Operate ==
    \/ \E w \in Windows : Open(w) \/ Close(w)
    \/ HearRemoval \/ Pause \/ FinishStartup
    \/ \E o \in Ops : Begin(o) \/ EnterGate(o) \/ LeaveGate(o) \/ InterruptOp(o)
    \/ TakeCycle \/ EnterCycle \/ ObserveFailed \/ Apply
    \/ \E inventory \in {live, {}} : Observe(inventory)
    \/ Stop \/ InterruptLoop \/ CloseScope \/ FinishStop

Next == Operate \/ HearFocus

\* Reads and writes of the adapter return (each has a deadline of its own), the
\* scheduler runs every runnable fiber, and a waiter of the gate gets it when it
\* is free.  Nothing makes a user or the platform act.
Fairness ==
    /\ WF_vars(HearRemoval) /\ WF_vars(FinishStartup)
    /\ WF_vars(TakeCycle) /\ WF_vars(EnterCycle) /\ WF_vars(Apply)
    /\ WF_vars(ObserveFailed
               \/ \E inventory \in {live, {}} : Observe(inventory))
    /\ \A o \in Ops :
          WF_vars(EnterGate(o)) /\ WF_vars(LeaveGate(o)) /\ WF_vars(InterruptOp(o))
    /\ WF_vars(InterruptLoop) /\ WF_vars(CloseScope) /\ WF_vars(FinishStop)

Spec == Init /\ [][Next]_vars /\ Fairness

-----------------------------------------------------------------------------
(***************************************************************************)
(* Properties.                                                             *)
(***************************************************************************)

\* The gate's holder is where the code under the gate runs, and nowhere else:
\* a cycle, one exclusive command, or the restoration at shutdown.
GateMatchesHolder ==
    /\ gate = Loop <=> InPass
    /\ \A o \in Ops : gate = o <=> op[o] = "inside"
    /\ gate = Stopper <=> stop = "restoring"

\* No lost wakeup.  A cycle that was asked for has a fiber that will run it, as
\* long as the engine runs; whoever awaits one awaits the cycle still to start
\* or the one in progress, and never one that has gone.
NoOrphanedWaiter ==
    /\ pending /\ stop = "running" => loop # "off"
    /\ \A o \in Ops : op[o] = "next" => pending
    /\ \A o \in Ops : op[o] = "running" => loop = "queued" \/ InPass

\* A request that is answered with success was answered by a cycle that began to
\* read the desktop after the request: joining the pending cycle never returns
\* what was observed before one asked.
AwaitedIsFresh == \A o \in Reconciling : op[o] = "ok" => o \in seen

\* Once stop() restores windows, no cycle or operation runs or waits any more.
Quiescent ==
    stop \in {"restoring", "stopped"} =>
        loop = "off" /\ ~pending /\ \A o \in Ops : op[o] \notin Waits

\* Whoever asks for a cycle gets one, and one that began afterwards; and none is left
\* running or waiting when stop() restores windows (requestReconcile, lifecycleLoop, stop).
RequestsAreServed == NoOrphanedWaiter /\ AwaitedIsFresh /\ Quiescent

\* Focus hints are applied exactly once and in the order they were accepted,
\* whether a pass, a command, startup or shutdown applies them.
FocusExactlyOnce ==
    installed \o focus = [i \in 1..(Len(installed) + Len(focus)) |-> i]

\* While the engine runs no accepted removal gets lost: one that a failed cycle had taken
\* is there again for the next, and so on until a cycle that names it has converged.
RemovalsAreKept == stop = "running" => accepted \subseteq removals \cup batch \cup adopted

\* What the platform tells the engine between cycles is neither lost nor taken out of
\* turn, whatever cycles fail or commands splice in between: see the two above
\* (applyPendingFocusSignals, mergePendingBatch).
HintsAreKept == FocusExactlyOnce /\ RemovalsAreKept

\* A cycle does not believe an inventory that came back empty: what it observes empties
\* the known windows only when each of them has been reported closed, and not while
\* paused.  Besides, a plan's failing focus may forget the one window it was for; but the
\* inventory of a command under the gate nobody questions (validatedWindows in
\* executeCompound), and it is exempt.
NoPhantomEmpty ==
    [][known # {} /\ known' = {} =>
          \/ loop = "reading" /\ ~paused /\ known \subseteq accepted
          \/ loop = "applying" /\ \E w \in Windows : known = {w}
          \/ gate \in Ops]_vars

\* Every request is answered, with the cycle's result or at shutdown, and shutdown
\* terminates whatever it interrupts.
EveryRequestSettles ==
    /\ \A o \in Ops : op[o] \in Waits ~> op[o] \in Results
    /\ stop = "closing" ~> stop = "stopped"

\* Every accepted removal is named in the outcome of a cycle, so that a client
\* may wait for it, unless the engine stops.
RemovalsAnnounced ==
    \A w \in Windows : w \in accepted ~> w \in announced \/ stop # "running"

\* Nobody who told or asked the engine something waits for ever: see the two above
\* (lifecycleLoop, stop).
EverythingIsAnswered == EveryRequestSettles /\ RemovalsAnnounced

=============================================================================
