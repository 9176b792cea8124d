# Specifications of the window manager's engine

TLA+ models of the layout engine in `packages/layout/src` (TypeScript, Effect
fibers on one thread), their TLC instances, and TLAPS proofs.  Paths and line
numbers refer to the repository; `PROJECT.json` maps every definition to the
lines it translates.

Concurrency here is cooperative: fibers interleave only where the code awaits
(`yield*` on something that suspends).  In every module **what runs between two
awaits is one action**.

## 1. The system

| Part | State it keeps | Operations | Talks to |
|---|---|---|---|
| Transaction queue (`transactions.ts`) | pending FIFO, `processing`/`pumping`, recovery flag, key counts, receipts | `submit`, `submitBatch`, `setRecovery`, drain loop, deadlines, rollback | every command and every plan is a unit of it |
| Settled lifecycle and gate (`engine.ts` 1228–1660, 4874–5090) | `reconcileGate`, `pendingCycle`, `pendingBatch`, `pendingFocusSignals`, `reconcileAgain`, `lifecycleRunning`, `stopping`/`stopped`, `startupReady` | `start`, `stop`, `requestReconcile`, `lifecycleLoop`, `runConvergentCycle`, `runExclusive` | platform reads/hints, the queue (plans), commands |
| Startup and shutdown (`engine.ts` 4339–4868, 4874–5058) | `startupQuarantine`, `startupRollbackIncomplete`, `shutdownRestoreIntents`, `firstSeen`, `parkedFrames`, health | `preserveOrdinaryStartup`, `hydrateInitialLayout`, `restoreParkedWindows` | writes before the first cycle and after the last; notes that cycles and commands keep |
| World and membership (`engine.ts`, `world.ts`, `rules/`) | windows, workspaces, members, overrides, tombstones, assigned displays, pause | the rules, manage/unmanage, move, reveal, park | one pass of a cycle; compound commands |
| Compound commands (`engine.ts` 2064–2785) | captured before-image, draft world, buffered events | capture, tentative run, persist, commit, rollback | gate, store, platform |
| Learning and store (`learn.ts`, `observation-store.ts`, `engine.ts` 456–560, `apps/wm/src/observation-file.ts`) | learned profiles, revision, write lock | load, save with expected revision, merge, watch | compound commands, cycles |
| Event bus (`events.ts`) | sequence number, bounded buffer, listeners | publish, replay, subscribe | clients |
| macOS host (`platform-macos/src/host.ts`) and sidecar | handshake promise, request table, timers | request, answer, deadline, exit, stop | engine's adapter |
| Swift sidecar (`Server.swift`, `GeometryAdapter.swift`, `InventoryService.swift`) | tasks and their waves, retained elements, inventory, subscription | dispatch, batches, component writes, settling, focus, collection | the host's pipe, other applications through the Accessibility API |
| BSP trees, planning, parking, direction (`layout/`, `parking.ts`, `direction.ts`) | none (pure) | insert, remove, partition, choose | rules and planning |
| Geometry service and learning from it (`geometry-service.ts`, `geometry.ts`, `learn.ts`) | pending samples, profiles | write and read back, classify, promote, use | cycles and compound commands |
| Parking search (`parking.ts`) | none between searches; the window it tries | write, read back, halve, verify, restore | adapter; facts that parking uses |
| Configuration (`config.ts`, `config-file.ts`, `engine.ts` 2980–3030, 4874–4965, the daemon's `prepare`) | `config`, `keybindCommands`, `nativeConfigReady`, the watcher's timer | load, hotload, `reloadConfig`, prepare, commit | sidecar's key monitor, gate, health |
| Limit probe (`engine.ts` 3046–3758) | the guarded window's identity, place and findings | nudge, measure, put back, publish, save | adapter, gate, store |
| Command bus, daemon's transport, CLI, status bar, browser host | little | parsing, transport, rendering | engine API |

How they interact: a command enters the queue as a unit; its step runs the
command, which may change the world at once, or take the gate (`runExclusive`),
write, and leave; most then call `requestReconcile(true)` and await a cycle.  The
lifecycle fiber runs cycles under the same gate, and submits its plans to the
same queue (inline, if a command is in flight).  Platform hints wake the
lifecycle fiber.  `stop()` interrupts all of it.

What is hard, and what correctness means for each part:

* **Queue** — a drain loop that submitters and recovery both start; units that
  bypass it; shared receipts; deadlines that cut a rollback short.  Correct: no
  entry stranded, FIFO, one receipt per submission, complete rollback in reverse.
* **Lifecycle** — requests that arrive just as a cycle or the loop ends; hints
  during reads; failed cycles; shutdown at any point, with waits for the gate that
  cannot be interrupted.  Correct: no orphaned waiter, no stale answer, no lost or
  doubled hint, no removal lost, no cycle that believes an empty read, silence after shutdown.
* **Queue and gate together** — a unit that waits for the gate blocks the drain
  loop that the gate's holder may need.  Correct: writers exclude each other, every
  receipt comes.
* **Startup and shutdown** — a group of windows is taken over with several writes that may fail or be interrupted; what stop() shows is decided by
  notes that many actions keep or drop.  Correct: a group is admitted whole or put back, what could not be is in health, and no parked window
  is left in its corner in silence.
* **World** — commands change it in the middle of a pass or of a compound command.  Correct: a window in
  at most one workspace, at most one visible workspace per display, overrides
  respected, membership restored to the same identity only.
* **Compound commands** — failure or interruption after some writes.  Correct:
  all or nothing, or degraded health.
* **Store** — lost updates between processes, crashes holding the lock.
* **Host** — deadlines racing answers, exit before the handshake.
* **Sidecar's inventory** — refreshes that overlap, applications that do not answer, windows that look the same.  Correct: whoever
  follows the events knows the inventory, and a window keeps its own id.
* **Sidecar's writes** — tasks that write to windows of one application while each other sleeps; windows replaced meanwhile.  Correct:
  the application gets its setting back while the sidecar runs, nothing is reported of a window that is visibly another, batches keep their order and are answered.
* **Trees** — parts add up to the whole, every window exactly once; a window that
  opens or closes, and a restart, move no divider that nobody moved.
* **Geometry and learning** — a frame read after a write may be a limit, an animation, the
  edge of the screen or somebody else's doing.  Correct: what is learned is real, plans made with it
  settle, and what cannot be placed ends in degraded health rather than in an endless fight.
* **Probe** — nine visible writes to the user's window, any of which may fail or be given up on.  Correct: the
  window is put back, what is published is true and saved, and the probe ends.
* **Parking search** — it learns what the system refuses by trying it on the user's windows.  Correct: what it finds is granted and
  least, and the windows are put back.
* **Configuration** — three kinds of readers of one file, each with an answer of the sidecar between its merge and its commit.  Correct: what
  keys do is what the configuration in force says, and that says what the file says once all is quiet.
* **Event bus** — increasing sequence numbers, replay without holes while the
  buffer reaches back.

## 2. Modules

| Module | Models |
|---|---|
| `TransactionQueue`; `QueueMC`, `EngineProofs` | the queue; its instance and theorems |
| `ReconcileCycle`; `CycleMC`, `SessionMC`, `CycleProofs` | settled lifecycle, gate, hints, startup's first cycle, shutdown |
| `EngineGate`; `EngineGateMC`, `EngineProofs` | extends the queue: units that wait for the gate, plans, recovery |
| `AtomicCommit` | what a compound command promises: all or nothing, in one step |
| `CompoundTransaction`; `CompoundMC`, `CompoundProofs` | capture, draft, batch, verification, other policies, persistence, commit or rollback, refining it, with the user, cycles, pause and late writes |
| `SharedCatalog` | what the store promises: one catalog that processes update atomically |
| `ObservationStore`; `QueueMC`, `StoreProofs` | learning sessions, the file with its lock and watcher, crashes, refining it |
| `Session`; `SessionMC`, `SessionProofs` | one life of an engine: taking over windows at startup, health, notes of parked windows, restoration at shutdown |
| `Workspaces`; `WorkspacesMC`, `ConfigMC`, `WorkspacesProofs` | membership, overrides, tombstones, display assignment, the rules and passes of a cycle, the commands that change membership under the gate or outside it |
| `ConfigReload`; `ConfigMC`, `CycleProofs` | the configuration file, its watcher, hotload and `reloadConfig`, key bindings in the daemon and in the sidecar |
| `BspTree`, `InitialLayout`, `GeometricMove`, `Tiling`; `PlanningMC` | trees, limits and the division of lengths; inference of a tree from frames; directional focus and moves; a tiled workspace that uses them |
| `LearnedLimits`; `LearnedLimitsMC`, `PlanningMC` | extends `BspTree`: the retry ladder, classification, profiles, and cycles that plan with them |
| `LimitProbe`; `LimitProbeMC`, `ProbeProofs` | `probeWindowLimits`, with the sidecar's writes beside it |
| `ParkingSearch`; `LimitProbeMC`, `ProbeProofs` | `discoverParkingLimits`: how much of a window the system keeps visible at a corner |
| `SidecarHost`; `SidecarMC`, `SidecarProofs` | requests to the sidecar process: handshake, answers, deadlines, events, exit and stop |
| `GeometryWrites`; `SidecarMC`, `SidecarProofs` | the sidecar's writing side: batches in waves, component writes around another application's setting, settling, focus |
| `Inventory`; `SidecarMC`, `SidecarProofs` | the sidecar's reading side: refreshes, the join with the window server's list, ids, events |

An `...MC` module gives values to constants.  Some put parts that do not interact beside each other in one run, where a variable `atWork`
says which one takes steps and the others stay at an initial state: `QueueMC` (queue and file), `SessionMC` (session and
loop), `SidecarMC` (host, writes, inventory), `LimitProbeMC` (probe and search), `PlanningMC` (tiled workspace and learning), `ConfigMC` (workspaces and configuration).  There the
behaviours are those of each part alone, and where liveness is checked, what is fair is what is at work.  The tiling modules declare
RECURSIVE operators, as the code recurses over trees; they, and `LearnedLimits` which uses them, are
model-checked and nothing is proved about them.

Definitions that name a slip the code might have (a dropped guard, a missing
reset, a swapped order) stand before the definition they would replace and are
not part of any model; `PROJECT.json` lists them as mutants, each with the
property that notices it.

### TransactionQueue

`pending`, `current`, `recovering`, `keyCounts` are `pendingEntries`, the entry
being processed (which stands for both `processing` and `pumping`: they change
together between awaits), the flag and `keyCounts`.  `phase`, `applied`,
`standing`, `receipt` and `shares` describe the fibers that wait in `submit` and
`executeWithDeadline`; `arrived` only observes.

`Submit`/`SubmitBatch` take the code's branches in its order: coalesce with an
equivalent pending entry, run inline if something runs, else enqueue (or refuse
at the limit).  `Pump` is what `drain` does up to its next await and is part of each
action after which the code reaches it: enqueueing, settling the current
unit, leaving recovery.  `StepDone`, `StepFailed`, `Undo` are one turn each of
`runSteps`; `Deadline` is the sleep winning the race, in a compensation too.

Left out: the ring of past receipts (a log), and the interruption of a submitter's
own fiber, which happens at shutdown only.

### ReconcileCycle

`live`, `gone`, `stream` are the desktop; `known` is `world.windows`, reduced to
which windows it has.  `loop` is where the lifecycle fiber is: not running, forked
and not yet in its loop (or between two cycles), waiting for the gate,
reading, applying.  `op[o]` follows each operation: waiting for the gate,
inside it, awaiting the pending cycle (`next`) or the running one (`running`), or
its result.  `seen`, `accepted`, `announced`, `adopted`, `installed` observe.

| Action | Code |
|---|---|
| `Begin`, `EnterGate`, `LeaveGate`, `Join` | `execute`/`reconcile`/`start`, `runExclusive`, `requestReconcile(true)`; for `start()` entering the gate includes the adoption that precedes its first write |
| `HearRemoval`, `HearFocus`, `Open` | one element of `adapter.events` in the event fiber |
| `TakeCycle`, `EnterCycle` | the head of `lifecycleLoop`; acquisition of the gate by `runConvergentCycle` |
| `Observe`, `ObserveFailed` | the end of `observePhase`'s reads, with the membership, focus and plan phases that follow without an await |
| `Apply` | the receipt of the plan's unit and the read-back (`applyPhase`, `refreshVerifyPhase`); a failing plan may have refreshed a stale window (`RefreshStale`) |
| `CommitInventory`, `RefreshStale` in `LeaveGate` | the two ways in which whoever holds the gate changes `world.windows`: a compound command's commit of the inventory it has read (2203–2207, 2791–2797), which nobody checks, and `refreshWindowAfterStale` (413–423) |
| `EndPass`, `EndCycle` | the convergence loop and everything up to the loop's next await: outcome, release, answers, merging, the rerun |
| `Pause`, `Begin` of a resume | `applyMutation` 3763–3772: they change the world outside the gate |
| `Stop`, `InterruptLoop`, `InterruptOp`, `CloseScope`, `FinishStop` | `stop()` |

The fingerprint comparison that decides convergence is the flag `unsettled`: it
is reset where the fingerprint is taken and set by whatever changes the world
before it is compared, also by a command outside the gate.  `CommitInventory` leaves open which of the windows
known or open a commit leaves known, so that it may forget all of them.  `Apply` leaves open
whether the plan or its read-back changed anything.

`NoPhantomEmpty` is therefore about cycles: what they read themselves empties the world only if every known window has been reported closed.  It exempts the
commits of commands under the gate, and a failing focus of the only window.  `RemovalsAreKept` says that no accepted removal gets lost on its way: it
is with the pending batch, with the running cycle, or named by a cycle that has converged, whatever cycles fail in between; `HintsAreKept` is that and the order of focus hints.

Abstractions: geometry, membership and the contents of plans; recovery mode is one
of the ways a read phase may fail; a display stays connected; window ids are not
reused; of the hints other than focus and removal only `Open`'s wake-up is kept,
since they carry nothing a cycle depends on.  The fibers for store changes and
the configuration's hotload are two more callers of `requestReconcile`; the preview of
an initial layout and losing every display are not modelled.  Operations begin
once `start()` has returned, which is when the hosts offer the API.

### Session

`desk` is the desktop, `observed` `world.windows`, `parked` the keys of all `parkedFrames`, `intent` and `first`
`shutdownRestoreIntents` and `firstSeen`.  `lasting` stands for `startupRollbackIncomplete` and
`observationStoreFailed`.  `fiber` is what the engine does under the gate.  `touched`, `forsaken` and `lifted` only observe.
`Managed` are the windows.  A place is a window's tile, its corner, or somewhere else on the display.

| Action | Code |
|---|---|
| `LoadConfig`, `Adopt`, `HydrateInitialLayout` | `start()` up to the first reading; a scenario's layout instead of the desktop's |
| `BeginGroup`, `AdmitWrite`, `BeginVerify`, `VerifyOne`, `CommitGroup` | the admission of one workspace's windows in `preserveOrdinaryStartup` |
| `UndoWrite`, `UndoCheck`, `EndUndo`, `NextGroup` | its uninterruptible rollback, newest first, each write followed by a read; quarantine |
| `ObservePass`, `CycleWrite`, `Compensate`, `FailedCycle`, `PassEnds` | a cycle, as far as it writes, notes and heals |
| `ShowWorkspace`, `Float`, `LoadAgain`, `StoreFails`, `StoreSpeaks` | `focusWorkspace`, `doFloat`, a reload or hotload, a failed save, a snapshot of the store |
| `StopEngine`, `InterruptAdmission`, `InterruptFiber`, `Restore`, `Stopped` | `stop()`: what runs is interrupted, `restoreParkedWindows` and its report |
| `Drag`, `Destroy`, `Land` | the user; a window that closes, or whose id is reused; a write that was given up on |

A write is one step with its answer (the ladder is in `LearnedLimits`, partial writes in `LimitProbe`); a command that shows a
workspace succeeds or changes nothing (`CompoundTransaction` says why).  There is one display, whose corner is always feasible.
`forsaken` collects the windows that stand in a corner without a note, where the code drops it: see *Other disagreements*.

### EngineGate

The module extends `TransactionQueue` and says of each action what it does to the
queue with an action of that module, so the queue is not modelled twice.
`Units` are the `Commands`, of one step each as `mutate` builds them, and the `Plans`
that cycles submit.  Added are `gate`, the lifecycle fiber (`loop`, `wanted`, the
`plan` it awaits) and, for each command, how far its step is (`at`).

| Action | Code |
|---|---|
| `Execute` | `mutate` submits the command's unit |
| `EnterGate`, `LeaveGate`, `RequestCycle`, `FinishCommand` | the awaits of `applyMutation`: the gate, what it does under it, `gatedReconcile`, the cycle's answer |
| `Timeout`, `EnterTooLate` | the deadline of a command: it interrupts the step where it is, or, if the step waits for the gate, takes effect when the gate is granted |
| `TakeCycle`, `EnterCycle`, `FinishWithoutPlan`, `SubmitPlan`, `PlanAnswered` | the awaits of the lifecycle fiber, with the failure of a pass that begins in recovery |
| `PlanStep`, `Recover` | the queue's own steps on a plan; `setRecovery` |

What a cycle reads and whether it converges is open here, as ReconcileCycle has
it; whether a plan is needed and whether another pass follows is a choice.
`stop()` and startup are left out: nothing is submitted after the one or before
the end of the other.  The engine gives the queue no escalation hook and submits
no batch, and its commands' keys only merge equal commands, which `QueueMC`
covers; `GateAssumption` excludes the first two.

### CompoundTransaction and AtomicCommit

`tx[c].stage` is where a command is: waiting for the gate, capturing, awaiting the
inventory or the topology, writing, reading again, persisting, restoring, saving
what other policies taught (`forget`), or its receipt.  The rest of `tx[c]` is
`CompoundCtx` and the locals of `executeCompound`: what is captured (`taken`), what
was read (`seen`), the `draft`, the answers (`result`), the learning `before`,
`preserveLearning` (`keep`), and an interruption that waits for `persist` to
end (`late`).  `frame` and `ident` are the desktop, `flight` is what the sidecar was
asked to do and has not done; `mover` and `disturbances` only observe or bound.

| Action | Code |
|---|---|
| `Begin`, `EnterGate`, `EnterInVain` | `execute`'s pause check; `runExclusive` and the choice of what to capture; what may end the command right there |
| `Capture`, `ReadWindows`, `ReadFails` | `adapter.getWindow` for each captured window; `validatedWindows`, `validatedTopology` |
| `Plan` | from the topology's answer to the first write: draft, reducer, plan, the second pause check, the expected identities |
| `Land`, `CallFails`, `BatchFails` | the sidecar carries out one write and answers; a call that fails or times out in the engine but is carried out later |
| `Judge` | the loop over the batch's results, with the retry of one write and the way into `retryPolicies` |
| `Refresh`, with `Decide` | `refreshCaptured`, the comparison with the targets, the next policy |
| `Persist`, with `Commit` or `Abort` | `persistLearning` under `uninterruptible`; the finalizer |
| `Interrupt` | the deadline or `stop()`, in any interruptible stage |
| `RestoreRead`, `RestoreWritten`, `Forget` | `rollbackCompound`, window by window |
| `Disturb`, `Cycle`, `BeginSwitch`, `EndSwitch` | the user; a cycle that makes a new window a member; pause, resume and toggle around their native call |

Abstractions.  One workspace; the reducer's change is the command's name in
`world.done`.  A place is named by command and policy, so that two policies never agree on a
place.  Parking differs only in where it places windows; the focus write is
one more reason to fail.  A window refused or clamped is `Halfway`.  When `retryPolicies`
refreshes twice in a row, one refresh stands for both.  Applications do not move windows
by themselves after an answer (`Disturb` is whoever moves them).  Conflicts in the store, with their
merge, are `ObservationStore`'s subject: here a save succeeds or fails.  Cycles
are only what they do to members, since they exclude commands by the gate
(`CommandsExcludeCycles`).

`Atomic` is refinement: a command is committed when its events have been flushed, and
its effect is the name in `world.done`.  What the desktop shows is not part of it;
`RestoredOrDegraded`, `CommittedAsPlaced` and `MovesOnlyCaptured` are about that.

### ObservationStore and SharedCatalog

`file`, `lock` and `orphan` are the file system: the document (a function from
observations to what is known of them), the token in the lock file, and tokens whose owner has died.
`proc[p]` is one daemon: `stage` is where its save is, `local` the learned
state in memory, `base` the revision it was loaded from, `before` what a rejected sample is taken back to.
`watching` and `due` are the directory watchers and their debounce timers.

| Action | Code |
|---|---|
| `StoreInit`, `OpenFile`, `Start`, `Clear`, `LoadFails` | the file as it is found; the load at startup, with quarantine of an invalid file |
| `Learn`, `Persist` | a cycle, command or probe changes learned state; `persistLearning` |
| `Acquire`, `Check`, `Rename`, `Sync`, `Release`, `CallFails`, `ReleaseFails`, `Answer` | `save` in `observation-file.ts`, one action per call that others can get between |
| `Wake`, `Reload`, `Reclear`, `ReloadFails` | a conflict: the delay, the load, the three-way merge, the next attempt |
| `Refresh`, `StreamFails`, `Install` | the watcher's read after the debounce; `installObservationSnapshot` under the gate |
| `Crash`, `Spoil`, `RemoveStaleLock` | the environment: a process dies between any two calls; somebody damages the file; a person removes the lock of a process that has died (the code never does: there is no limit to a lock's age) |

Abstractions: the revision is the document itself (the code uses its digest); the second
comparison stands beside the temporary file's rename, since what is written to that file is seen by nobody
before; durability after a power failure and health reports are left out.  An error after the
rename is `unsynced`: the save reads the file and counts an equal document as its success.
A merge of a minimum and a maximum that contradict each other falls back on the local view.
Lessons are monotone, which excludes that a value changes back within the debounce interval.

### Workspaces

`place` and `live`, `plugged` are the desktop; `world` is `world.ts`'s record of it.  `stage`, `plan`, `pass`
are the cycle; `draft` is a compound command that holds the gate.  A tree is the set of its windows;
a tiled frame is a display and the set of windows that share it, so that a window is at its place when it
is where the layout of that set on that display puts it.  All parking corners are `Parked`, every other place is `Stray`.

| Definition | Code |
|---|---|
| `PruneDeadMembership` … `RecoverLostWindows`, `Rules` | the rules of `rules/`, one operator each, in the order of the rule list |
| `BeginCycle`, `Observe`, `Verify`, `EndCycle` | passes: what is read, what rules make of it, the fingerprint comparison, convergence or another pass |
| `ApplyRemove` … `ApplyUncover`, `ApplyFails` | one step of the plan each, and the failure of a step with what its compensation leaves |
| `FocusWorkspace`, `MoveWindowToWorkspace`, `MoveFocusedWindowToWorkspace`, `MoveWorkspaceToDisplay`, `MoveFocusedWorkspaceToNextDisplay`, `Retile`, `Commit`, `Abort` | the reducers and what a compound command writes |
| `ManageWindow`, `UnmanageWindow`, `FloatOrTile`, `SetWorkspaceMode` | commands that change the world outside the gate, between any two steps of a cycle |
| `Open`, `Close`, `Plug`, `Unplug` | windows and displays that come and go |

The order of displays is left open, so that the next display is any other one, and so is which normal
window has the focus or was focused last.  Left out: pause, hidden and minimized windows, the coordinates of a corner.  What a command
chooses before it waits for the gate is chosen when it gets it (the difference is `CompoundTransaction`'s subject).
A compound command's writes land in one step.  Room is a number of
tiles per display, so that the windows that assign-new-windows takes one after the other are as many as fit, in some order.  Tombstones expire all at once or not at all.  An empty inventory is
`ReconcileCycle`'s subject, and one display always remains.  `ConvergedIsArranged` demands
a home of every normal window but those explicitly unmanaged; `UnmanagedStaysOut`, which the code breaks, speaks of these.

### ConfigReload

`file` and `watch` are the configuration file, its watcher and the debounce timer; `config` is the engine's, `commands` the daemon's
table from keys to commands, `bindings` that of the sidecar's key monitor.  `call` follows each caller (startup, the hotload fiber, `reloadConfig` commands)
with the candidate it has merged; `requests` and `answers` are what is under way to the sidecar and back.  A configuration is three settings: the table of
key bindings, the mode of a workspace, the mode that workspaces inherit.  `refused` and `past` only observe.

| Action | Code |
|---|---|
| `Start`, `Hotload`, `Reload` with `Load` | reading, parsing, merging (`applyConfigDelta`, `applyConfigFull`) and `prepare` up to the sidecar's answer, all in one turn |
| `Configure`, `HearAnswer` with `CommitConfig` or `Reject`, `Timeout` | the sidecar replaces its bindings or refuses; the daemon and the engine commit what was merged, or keep what they have; an answer given up on |
| `EndCall`, `CycleConverges` | the cycle after a commit; a cycle that converges makes health healthy again, whoever asked for it |
| `Edit`, `Debounced`, `ChangeMode`, `StopEngine` | the file and its watcher; commands that set a mode; `stop()` |

Assumptions.  The sidecar is allowed to monitor input, so that it refuses only tables with a chord it does not know, and requests to it are answered in order.
The other reasons for degraded health (`Session`) are left out.  `FileIsInForce` says that what was last decided is what the file says, or that the file was refused; that it
stays visible in health is not demanded, since the next converged cycle hides it (see *Other disagreements*).

### BspTree, InitialLayout, GeometricMove, Tiling

`tree`, `frames` and `policy` are a workspace's tree, the layout planned for it and the policy the plan
needed.  `Open` inserts at the window the code chooses and cuts along its longer side, `Close` removes,
`MoveDirection` is `moveGeometrically` with all its cases, `Hydrate` and `Restart` infer the tree from frames.
Each ends with the plan (`Retile`), as the engine plans after every change.  `open` is kept apart
from the tree: it grows and shrinks only as windows open and close, and every other step has to leave the tree with exactly these.

Nodes are values, so that identity of nodes is identity of subtrees (windows are unique, so they differ).  Ratios are fractions.  Frames
are observed as planned.  `moveLeaf`, `swapLeaves` and `replaceLeaf` are not used by the engine.  The fallback of `insertTiledIntoIn` for
a target that has no frame is left out.  `MoveDiagonal` is translated, but no arrangement of the instance's four windows needs it.  The policies `stack` and `overflow` are in the chain and never needed by the instance.

### LimitProbe

`kind` is what the window does with a request, `window` who answers to the probed identity and where it is, `calls` the writes the sidecar is carrying
out; `probe` is the fiber, `learning` the bounds in memory and in the store.  `meddled`, `refused` and `spoiled` only observe.  The script of
a probe (a nudge, a point less and more on each axis, the least and the greatest size of each) is data, and the actions are what is done with one request: guard, write, read,
correct the corner, read again, put back, compare.

| Action | Code |
|---|---|
| `Start`, `Guarded` | the guards before the first write; `verifyGuards`, `readSame` around every one |
| `Request`, `Measure`, `MeasureNudge`, `Correct`, `Verify` | `writeAndRead` and what is made of its answer: nudge, sample, corrected sample |
| `PutBack`, `Compare`, `Leave` | `restore` and the exit handler |
| `Publish`, `Save`, `SaveFails` | findings to memory, to the store, and back out of memory if the store fails |
| `Write`, `Answer`, `Refuse`, `Unsettled`, `Timeout`, `ReadFails` | the sidecar's carrying out of one attribute after the other, its kinds of answer, the host's deadline, a read that fails |
| `Interrupt`, `Meddle`, `Minimize`, `Replace`, `Reconfigure` | the deadline of the command or `stop()`; people and displays |

Assumptions.  The pauses between attribute writes are equal, so that of two calls in the sidecar the older one is ahead.  A corner is
always feasible.  The stand-alone operations of `probe.ts` are not used by the engine and left out.

### ParkingSearch

A place is what it shows of the window at the corner, in parts of a point, from either edge; so the four corners differ in rounding only.
`standing` says where the candidates are, `search` is the fiber, `found` what it returns.

| Action | Code |
|---|---|
| `Endpoint` | the request that shows nothing: which sides it is refused at, and the limits to start from |
| `Probe` | one probe of `searchAxisLimit`, with the choice of the next (`Narrowed`, `AlongVertical`, `NextBasis`) |
| `VerifyJoint`, `ReadBack` | `verifyJoint` and `verifyWithNudge`: write, read, the next place that shows up to four points more |
| `Restore`, `ReadRestored` | `restoreSeed`: where it was, the center, where it was |
| `Drag` | people; failing calls, carried out or not, are alternatives of the other actions |

`system` is the window system: it holds a window at its limits and, while it refuses the horizontal one, may move it along the other edge by any `drift`.
`Lacking` is what `FoundIsGranted` excepts: a search that was refused nothing, as far as it can see, takes limits of zero for granted within a point, and if
refusals make windows drift, it may see the vertical limit kept by the drift.  Which windows are tried, in the order in which they are, and what becomes of
those that fail (`NextSeed`) is as in the code: they stay where the last write has left them (`SeedsAreRestored`, violated).  Real coordinates, neighboring
displays and the fingerprints of facts are left out.

### LearnedLimits

`accepts` is what windows really accept and `frames` where they are; `world`, `first` what the engine saw last and first of them; `profiles` the
learned bounds with their pending samples and `saved` the store's copy.  `cycle` is where the pass is, what is left of its plan and the attempt
in progress.  `really` and `touched` only observe.

| Definition | Code |
|---|---|
| `Planned` with `ConstraintsFor`, `Viable` | `plannedTiledFrames` and `effectiveConstraints`: a bound counts while the window is at it or where it would bind |
| `Observe`, `PlanPass`, `Save`, `Verify` | the phases of a pass; the comparison that ends the cycle |
| `Attempt` in `Write`, `WriteSlowly`, `Refuse` | one rung of the ladder: write, read back, `classifyWrite`, and `learnFrom` with the last; the window reacts in time, after the last read, or refuses |
| `Candidates`, `Record`, `Noted`, `Resisted` | `candidatesFrom`, `recordCandidates`, `noteExactFrame`, `markCooperation` |
| `Open`, `CloseWindow`, `Drag`, `Update` | people, and an application that changes its limits |

Assumptions.  The system cuts off what a write reaches beyond the area, if the window's limits allow (`Taken`); a window's limits are
the same wherever it is.  `Open` puts a window beside the last one: where it goes is `Tiling`'s subject.  Confidence and
sample totals, which no plan reads, are left out; writes of several attributes take effect together.

### SidecarHost

`call`, `answer`, `pending` and `counter` are the promises of callers and the request table of `host.ts`; `stdin`,
`stdout` the pipes; `working` what the sidecar has taken from its pipe and not yet answered.  `events` is what the host has pushed into the
engine's event stream.

| Action | Code |
|---|---|
| `Call`, `Send` | `request()` up to the handshake; what it does after it: id, table entry, timer, write |
| `HearReady`, `HearEvent`, `HearAnswer` | one line in the readline handler |
| `Timeout`, `HearExit`, `Stop` | the timer; the `exit` handler; `stop()` |
| `Start`, `Take`, `Answer`, `Change`, `Exit` | the sidecar: it announces itself, takes lines in order, answers them in any order, forwards changes once subscribed, and may die |

Interrupting the fiber of a call changes nothing in the host: the entry stays until an answer or its deadline.
Left out: what requests say and how lines are decoded, key bindings, and the mode in which the host talks over inherited pipes.

### GeometryWrites

`stage`, `batch` and `captured` are a request in `dispatchBatch`: what it asks and of which window its metadata is.  `job` follows each of its operations:
waiting for its wave, about to begin, between component writes, settling, or done with an outcome.  `looks` are the looks of the windows that have been in
a place, one after the other: the sidecar finds a window again, and compares it, by application, role and number or, where the
application tells no number, by frame, title and subrole (`sameLogicalWindow`, `resolve`, `matches`), so that a replacement with the same look
is taken for the window.  `Same` compares looks.  `enhanced` is `AXEnhancedUserInterface` of each application and `wanted` what it was before.

| Action | Code |
|---|---|
| `Receive`, `Wave`, `Reply` | `dispatchBatch`: capture, the filter and the task group of a wave, the failure of what is left, the answer |
| `Unknown`, `Invalid`, `Focus` | the branches of `executeBatchOperation` that do not suspend |
| `BeginWrite` | `write` up to the sleep after its first component: identity, controllability, the flag cleared, the component |
| `RefuseWrite` | an error before or at the first component, the flag back in the same turn, and the readings that follow a refused write |
| `NextWrite`, `BreakOff`, `LastWritten` | what follows the sleep: identity, the next component, or an error or the end, with the flag restored and the first reading of `settle` |
| `Read` | one reading of `settle`, with the last look at the identity |
| `Replace`, `Terminate` | another window, of any look, takes the place; SIGTERM or SIGINT |

A request for one window (`setWindowFrame`) is a batch of one.  A frame is three component writes, a position or a size one.  What a reading tells is
whether it matches, is like the one before, and is nearer: `Sample` is the rest.  Assumptions: the flag is changed by nobody else (assistive
technology would), and an application that is asked for it answers.  `FlagIsRestored` ends with the process: see *Other disagreements*.

### Inventory

`open`, `frame`, `minimized`, `front`, `hung` are the desktop; `refresh[t]` is a refresh under way, with whom it asks and what it was told; `lastWindows`,
`lastFocusedId` and `stalledPids` are the service's.  `told` is what somebody makes of the events alone; `latest` and `disturbed` only observe.

| Action | Code |
|---|---|
| `BeginRefresh` | `collectAXWindows` as far as it chooses whom to ask: applications that gave no answer last time are asked again two at a time |
| `EnumerateAppWindows` | one application's answer, in any order of windows, or none; attributes may be missing |
| `EndRefresh` with `IsJoin`, `StableId`, `Current`, `Hears` | the window server's list, the join by score (`Normalizer`), ids, `diffAndEmit` |
| `OpenAXWindow` … `Hang` | the desktop, between the answer of an application and the list too |

The applications and the titles are constant; whether an application is hidden and the monitors are left out.  The reconciliation of the geometry adapter at the end
of a refresh is `Replace` of `GeometryWrites`.

## 3. Runs

| Run | Instance | What it shows |
|---|---|---|
| `queue` | 4 units: two equivalent commands (one with an escalation hook), a plan of 3 steps with 2 compensations, a batch; beside it 2 processes that share a file, a session each, 3 observations of which two contradict each other, 1 crash or failing call | nothing stranded, order, complete rollback, every submission answered; refinement of `SharedCatalog` (no update is lost), saves end, memory follows the file; 300 371 states |
| `cycle_liveness` | `start()`, a gate-taking command; 2 windows, 1 revision conflict, 2 passes, no focus hints (`QuietSpec`) | requests and removals answered, shutdown terminates, cycles do not believe empty reads; 227 964 states |
| `engine_gate` | a command that takes the gate and awaits a cycle, one that only awaits a cycle, 2 plans of a step, 1 hint | exclusion of writers, inline plans, and that nothing but the circular wait withholds a receipt; 348 881 states |
| `compound` | one command that reveals a workspace, one that tries two policies, a pause; 2 windows, one of them just opened; 1 disturbance, 1 call given up on | restoration or degradation, no window but the captured ones moved, commits rest on read-back, nothing a failed command learned left in memory, every command answered, refinement of `AtomicCommit`; 540 053 states |
| `workspaces` | 2 windows and a dialog of one, 2 workspaces, 2 displays with room for 2 tiles and 1; beside it 7 contents of the configuration file, 2 edits, 1 late answer, 1 `reloadConfig` | one home per window, one workspace per display, what a converged cycle leaves, cycles left alone converge, windows return home; keys follow the configuration in force, and that follows the file; 1.61 million states |
| `planning` | 4 windows, two with a minimum and one with a maximum, on an area of 120 by 81 points; beside them 3 windows, two of one application that accepts widths 100 to 110, one that needs 150 until an update lets it have 20, with a content of 120, 4 events (people leave windows at one frame, too narrow for all) and 1 write that goes wrong | tilings are exact and of all that are open, opening is local and a restart keeps frames (`FramesAreKept`), no proper set of tiles is closed under focus and moves go the way they say (`DirectionsHold`); learned bounds are real, cycles settle on what they planned unless the known bounds exclude each other; 114 929 states |
| `probe` | a window of 3 by 2 in areas of up to 5 by 4, of nine kinds (limits, a tied height, a position that clamps, sticks or strays), two troubles of any sort; beside it 2 windows for the search and a minimized one it must not try, any of them dead, a display of 16 points of 64 parts, systems with limits of none, half a point, one and 2½ points and more, with drift to either side or none, 1 failing call or drag | the window is put back unless somebody hinders it, findings are true and saved or marked to be; what the search finds is granted and least, and its window is put back; both end; 737 137 states |
| `session` | 2 windows at home in one workspace, a second workspace; at most 2 troubles (failed, refused or late writes, failed reads, drags, closings, floating) and 2 commands (a workspace shown, a configuration loaded), 3 in all, `stop()` anywhere; beside it `start()`, a gate-taking command and a resume, with 1 window, 2 focus hints, 2 passes | a group is admitted whole or put back or on record, and what lasts shows in health (`WholeOrOnRecord`); no window noted as parked is left in its corner in silence; waiters are served, answers fresh, focus hints applied once and in order and no removal lost (`HintsAreKept`), shutdown is quiet; 2.44 million states |
| `sidecar` | 2 calls (`getWindows`, `setFrame`), 2 changes of the desktop; beside them 1 request, of those the engine sends, with one replacement by a window of either look, or of any dependencies among 3 operations on 2 windows of one application, with names that repeat or are unknown; beside them 2 refreshes over 2 windows of one application and title, 2 happenings, no retries of silent applications | answers go to their own call, no change is missed between the subscription and the first answer; the flag comes back while the sidecar runs; one operation per window at a time and after its dependencies, all done that can be done; reports are about the window asked for or one that looks the same; events tell the whole inventory and ids are the windows' own; all are answered; 250 672 states |
| `limits_tight` | 2 of the learning windows, the second with a minimum of 20 from the start; nothing goes wrong | the finding: cycles that go round between two layouts; violated |
| `unmanaged_returns` | the desktop of `workspaces` with one command and nothing that goes wrong | the finding: an unmanaged window is taken in again; violated |
| `seeds_left` | the search of `probe` | the finding: a window that was tried in vain is left in the corner; violated |

Bounds and why they suffice.  `RepeatThreshold` (3 in the code), `PendingLimit`
(256) and `BatchCap` (64) are 2, so that each is reached; each is only
compared with a counter.  Each unit is submitted once; a repeated
command is a second unit with the same key.  `MaxPasses` is 2 (16) in `cycle_liveness` and `session`: the first pass
differs from the rest because it alone knows the removals, the last because it
fails; two passes contain both.  The two windows of `cycle_liveness` give "all", "some" and "none" of
the known windows reported closed; what `session` asks of the loop is about waiters and hints, and that no removal is lost is said of each window alone.  Two focus hints are the fewest that have an
order.  `MaxConflicts` bounds how often another writer of the store wins; one is
enough for a rerun that the loop makes by itself.

`MaxHints` is 1 because commands ask for cycles too; the two plans let one cycle submit
twice or two cycles once each.  A plan of `EngineGateMC` has one step: what
a step more changes (rollback) is in `QueueMC`, and exclusion is proved for any
number.

In `compound`, `Apart` lets the user interfere, or a call be given up on, only while the
command with two policies runs alone: with the other command and the pause beside it there are too many
states, and a disturbance touches the desktop, which no other command's commit depends on (atomicity is proved for any
number of either).  One disturbance is enough to move a window, replace it or close
it at any moment; one failure to interrupt, to miss an answer or to leave a write
behind.  Two policies are one to fail and one to fall back on; the code's chain has four.

For the file, two attempts (4 in the code) are one that conflicts and one that succeeds or
gives up; one mishap is one crash, failing call or damaged file at any moment.  In `workspaces` the budget
allows two events about one command, or two commands, with one failed write; the inventories are those that
differ in how windows become members (a window with an affinity, a dialog that follows its parent);
`MaxPasses` is 5 (16), and `CalmCyclesConverge` says that this is never reached by a cycle that is left alone.  In `planning`, the area is
odd in one axis and starts at a negative coordinate, so that every division rounds; limits are such that some layouts need the second policy.
There, widths are such that one window, two of one kind and two of different kinds need a different policy of the four each; three
attempts are the code's.  `MaxPasses` is 12 (16): without oscillation no cycle of the instance needs more than 8, and one with it uses up any number;
`limits_tight` has the code's 16.  In `session`, two troubles are a failed step and a second one while it is undone, two commands are to another workspace and back, or a
reload that talks over a lasting reason and another.  In `probe`, two troubles are a failure and another while the window is put back from the first.
The search has 64 parts of a point, so that halves of
16 points down to a quarter of a point are whole numbers.  In `sidecar`, `Needed` (3) and `Samples` (36) are 1: they are only compared with counters, and a window may settle, match or run out
of readings with them; two writes are the fewest that overlap, and three operations the fewest of which one depends on another while a third shares a window with either.
`Retries` (2) is 0, which with a single application is the bound reached; the theorem has any.  Two windows that look the same are the fewest
that can be taken for each other, and two refreshes the fewest that overlap.  For the configuration, two edits are one that is taken and one while that is under way; one reload and the hotload are two callers.
`MaxSteps` is 1: windows open in any number and order, and one closing, move or restart may follow at any point.

Fairness.  Queue: a unit's deadline fires and an escalation hook returns; nothing
says that steps end, and `EventuallySettled` assumes that recovery does not stay
on.  Cycle: the adapter's calls return (each has its own deadline), the scheduler
runs runnable fibers, and a waiter of the gate gets it when it stays free.  No
fairness on users or on the platform.  `EngineGate`: the same, and the deadlines of
commands and plans fire; that a command's step ends is not assumed.  `CompoundTransaction`: the adapter's calls
return and a waiter gets the free gate; no fairness on users, deadlines, cycles or switches.  `ObservationStore`: a
process's own steps go on, as file calls return; timers fire and waiters of the gate get it; none on crashes or on the removal of stale
locks.  `SidecarHost`: the host's timers fire, its microtasks run and the operating system reports an exit; nothing is assumed of the
sidecar.  `LimitProbe`: the engine's own steps go on, calls are answered or time out, and the sidecar carries out what it has begun; none on people and
troubles.  `GeometryWrites`: a task whose sleep ends gets its turn, since calls into the
Accessibility API are bounded by their timeouts; none on replacements and signals.  `ParkingSearch`: the engine's own steps go on, as each call of the adapter returns; none on drags.  `Session`, `Workspaces`, `ConfigReload`, `Inventory`, `Tiling` and `LearnedLimits` assume none, and state no liveness: that a cycle ends is there a bound on its passes (`CalmCyclesConverge`, `CyclesSettle`).  Hints and conflicts are finitely many: with
an endless stream the lifecycle fiber could retake the gate, in the turn in which it
released it, for ever, and no progress of other waiters would follow from the code.

Deadlock is not checked where the modelled part may rest: an engine that has stopped or has
nothing to do, commands that are all over, a desktop on which nothing happens any more, a sidecar that is gone.
There the liveness properties show progress (`EventuallySettled`, `EverythingIsAnswered`, `EveryCommandEnds`, `SessionsEnd`, `MeasuringEnds`, `AllAreAnswered`).  `engine_gate` checks for deadlock, but recovery
can always be toggled there, so the check is of little weight; `SettledUnlessCircular` is what shows progress.

### Findings

**Cycles that go round** (`limits_tight`).  `docs/spec.md:444-446` has oscillation stop enforcement and a resistant tiled window float.  Whether a learned
minimum counts depends on the window's present size (`learn.ts:423-427`).  With minima of 100 and 20 in a content of 120 with a gap of 4, the overlap
policy makes the small window larger than its minimum; the next pass therefore does without that minimum, the greedy policy fits again and makes the window 16
wide, which it refuses, and 20 counts again.  Passes alternate until all 16 are used up, the cycle fails with degraded health, and so does every
cycle after it; no window floats.  `CyclesSettle` shows, in the larger instance, that this happens only where the known bounds exclude each other.

**An unmanaged window comes back** (`unmanaged_returns`).  `docs/spec.md:176-177` says that an explicit `unmanage` lasts for the window's lifetime, and `rule.ts:36` the same of
`overrides.unmanaged`.  The command adds to that set (`engine.ts:4043`), removes the window and asks for a cycle.  No rule reads the set, the removal has left a tombstone, and the
cycle restores membership from it, or assigns the window as a new one.  `ConvergedIsArranged` leaves open what becomes of such windows.

**Windows that were tried in vain stay in the corner** (`seeds_left`).  `parking.ts:358-361` has seed windows restored after the search, and so does `engine-guide.md:202-203`.
Only the one that the limits were found with is: a candidate that does not answer its first write, or whose limits cannot be verified, is given up for the next (`parking.ts:390`, `403`, `517`)
and stays where the last write has left it.  `SeedIsBack` shows what does hold.

### Other disagreements

Disagreements between the code and its documents that the models contain and no run is about:

* **Circular wait after recovery.**  A cycle's plan runs inline because a cycle must not wait for a command that waits for the cycle
  (`transactions.ts:257-260`).  In recovery it joins the FIFO.  With a gate-taking command before it, the end of recovery starts that command, which waits
  for the gate; the cycle holds the gate until its plan has a receipt.  The wait for the gate is uninterruptible, so the command's 15 s deadline does not end
  it: both stay unanswered, whatever `testing-guide.md:105-106` promises, until `stop()` interrupts the cycle.  `SettledUnlessCircular` shows that this is the only
  way to lose a receipt.
* **A plan writes what was never captured.**  Moves to a workspace, `focusWorkspace`, `moveWorkspaceToDisplay` and `retile` list the windows to capture
  before they wait for the gate (`engine.ts:3811`); the plan is made of the members under it.  If a cycle makes a window a member in between,
  `captured.get(wr.windowId)!` (`engine.ts:2391`) is undefined: a defect instead of `inventory_stale` (the comment at 1656), which the client sees as a timeout
  after 15 s.  `Plan` in `CompoundTransaction` has it as the receipt "died".
* **A refused write is learned as a minimum.**  `engine-guide.md:323-325` says that only a stable clamp is an exact minimum.  The sidecar answers a
  refused write with the frame the window settled at, stable, and an error kind (`Server.swift:271-288`); `writeAndRead` asks only for `stable`
  (`engine.ts:3359`), so that a refused trial of the smallest size publishes the present size as the application's minimum.  Writes of layouts do
  alike (`engine.ts:797-820`).  `LearnedIsTrue` and `LearnedIsReal` except refused writes.
* `convergenceFingerprint` (`engine.ts:1520`) does not cover learned profiles and compares with the world from before the pass's read: a drag that a pass undoes, or a
  pass whose last write taught a bound, converges at once, on the layout planned before (`engine-guide.md:41`, `46-48`).  `CyclesSettle` speaks of the layout last planned.
* A single clamp at the third attempt counts as three samples (`engine.ts:858`; `testing-guide.md:57`).  The guard for the edges of the work area does not look at
  the left or top edge for a maximum (`learn.ts:46-64`; `testing-guide.md:57-58`).  A bound also counts for a window that is exactly at it
  (`learn.ts:423-427`; `engine-guide.md:140-141`).  Windows of one application with different limits make its bounds flip; `LimitsAssumption` excludes them.
* `transactions.ts:11` and `engine-guide.md:296` call the queue serialized, and `transactions.ts:258` argues that an inline submitter "is already
  serialized by the running entry"; `processing` does not tell who submits, so that a second client's command runs inline while the first one's
  unit awaits.  Writers that take the gate still exclude each other.
* Until `startupReady` the event fiber keeps only focus hints (`engine.ts:4975`): a window that startup has read and that closes before `start()`
  returns stays in the world until another cause makes a cycle run.
* A deadline stops the engine's waiting, not the sidecar.  A rollback that reads a window before the abandoned write lands leaves it; then the write
  lands, with the engine healthy, although `engine.ts:1665-1669` promises compensation or degraded health.  `RestoredOrDegraded` shows that this is the only way.
* A compound commit installs the draft copied before its writes, `paused` included (`engine.ts:2203`, `2791`): a pause that ran meanwhile is lost (`spec.md:150-152`).
* Windows of a floating workspace that were parked stay in the corner when it is shown (`engine.ts:1883-1884`, `992`; `spec.md:343`).
* A workspace stranded by a disconnected display is neither parked nor moved (`testing-guide.md:120`, `spec.md:393-404`).
* The tree inferred at a restart prefers vertical cuts, so that a grid may be cut the other way than it was, after which limits may move
  dividers (`engine-guide.md:58-61`); `FramesAreKept` excludes grids.
* `bsp.ts:278-279` says that the tightest child bound applies; the maximum across the cut is ignored unless both children have one.
* `spec.md:325` says that directional focus cycles at the edge; the code returns no neighbor there.  A move towards a window that lies in a stack
  cut the other way may do nothing.
* `host.ts:214-215` says that requests fail fast if the handshake never comes; if the sidecar exits, or `stop()` runs, before it, they wait for ever.  `CallsEnd`, in
  `AllAreAnswered`, is about what follows the handshake.
* A reload or a hotload sets health to healthy (`engine.ts:3013`, `4960`) although a failed rollback of startup or a failed save still stands
  (`engine-guide.md:62-64`); `WholeOrOnRecord` speaks of the time until then.
* Notes of parked windows.  Parking a window that floats in its corner again takes the corner for the place to restore (`engine.ts:960`; `spec.md:145`, `343`).
  Revealing a `bsp` workspace drops the notes of its floating windows (`1916-1921`), and `doFloat` that of the window: until a cycle sees to it, `stop()`
  neither shows nor reports them.  The same holds for a parking write of a cycle that `stop()` interrupts or that fails halfway (`956-972`).  `NobodyLeftBehind` excepts these.
* Windows of a group that startup could not admit stay unmanaged after the first cycle until some hint makes another one run (`engine.ts:5007-5010`).
* **Commands believe an empty inventory.**  Only a cycle's own reading is checked (`engine.ts:1345-1358`; `initial-layout.spec.ts:322` tests cycles).  A compound command
  builds its draft from whatever `getWindows` returns (`363-369`, `2185-2207`) and commits it as it is (`2791-2797`), so that a transient empty answer erases the known
  windows, and the next cycle has nothing to compare with.  `NoPhantomEmpty` exempts such commits.
* **The application's setting is shared by its writes.**  `GeometryAdapter.swift:242-243` and `platform-contract.md:129-130` have
  `AXEnhancedUserInterface` cleared around geometry writes and restored afterwards.  Two windows of one application in one batch are written while each other sleeps
  (`Server.swift:325`): the first write clears the flag, the second finds it clear, and when the first ends or breaks off it sets it again (`GeometryAdapter.swift:257`) while the second
  still has components to write.  `FlagIsRestored` shows that it is set again before the request is answered.
* **A signal leaves the setting cleared.**  SIGTERM, by which `stop()` ends the sidecar (`host.ts:481`, `sidecar-process.ts:30-32`), exits at once
  (`Server.swift:121`), whatever its tasks are in the middle of; "always restore it afterwards" (`GeometryAdapter.swift:242-243`) holds for the end of standard input only, which waits for requests
  in flight.  `FlagIsRestored` says nothing of the time after `Terminate`.
* A window replaced by one that looks the same is written to, although `platform-contract.md:126-128` has such writes aborted rather than "mutating a replacement
  window": where the application tells no window number there is nothing to tell them apart by.  `ReportsItsOwn` demands only what looks can tell.
* **A refused configuration does not stay in health.**  `docs/spec.md:506-507` has health degraded until a later valid hotload applies; the next cycle that converges
  makes it healthy (`engine.ts:1552-1558`), at startup the one that `start()` itself runs (`5009`).  `CycleConverges` models this, and `FileIsInForce` does not demand the contrary.
* **A configuration file that is no JSON kills the hotload.**  It is a defect (`config-file.ts:51-54`) that the hotload fiber does not catch (`engine.ts:4934`): later valid versions are
  not read, where `spec.md:506-507` retains the configuration and goes on.  `FileIsInForce` speaks of the time before.
* Other disagreements about the configuration: a hotload and a reload that overlap commit what each has merged before, so that the later one undoes the earlier
  (`engine.ts:4947-4959`, `3002-3012`); the modes that workspaces are configured with reach them at startup only (`engine.ts:4890`, `spec.md:493-494`); an edit between startup's reading and its watching
  goes unseen; `validateConfig` finds every candidate valid (`engine.ts:4319-4320`).
* While paused all commands but resume and toggle are refused, `getState` too (`commands.ts:145-147`, `578-583`; `pause.md:35-38` has queries follow their normal rules).
* The parking search.  Windows known to be parked are to be tried first; with one such window it is tried last (`parking.ts:174`, `engine-guide.md:199-202`).  Horizontal probes
  are compared with the window's original height on the display (`parking.ts:284-288`).  At right and bottom edges limits are rounded down, although more visible is safer
  (`roundLimitTowardVisible`): verification finds the missing point.  Facts found while parking are stored under a fingerprint (`engine.ts:916-917`, `982`) that `findParkingFact` never matches.
* The inventory.  The windows of an application that does not answer are told as removed.  A refresh that began earlier and ends later removes a window that another one has added, until the next.
  Two windows of one application that swap places between its answer and the window server's list get each other's id for one pass (`NamesAreOwn` excepts it).  Windows of one application with one frame and
  nothing else to tell them apart are not listed, as documented; of two candidates an exact frame counts no more than an approximate one.
* The store quarantines an invalid file without the lock and without reading it again (`docs/operations.md:48-51`).

## 4. Proofs

For all values of the constants under the named assumptions of the modules (`QueueAssumption`, `CycleAssumption`, `GateAssumption`,
`CompoundAssumption`, `SessionAssumption`, `ProbeAssumption`, `ParkingAssumption`, `StoreAssumption`, `SubscribeAssumption`, `ChangesAssumption`, `WritesAssumption`, `InventoryAssumption`, `WorkspacesAssumption`, `ConfigAssumption`: finitely many windows and workspaces, distinct control values, keys for units, a step at least per unit, positive limits,
what `start()` and a resume take, and so on), which TLC evaluates on the instances.

`EngineProofs`, the queue
* `QueueTypes`, `NoLostWakeup`: `Base == TypeOK /\ NoStrandedEntry` is inductive.  `PumpLemma`
  and `SettleLemma` say once what the drain loop and a receipt do to it.
* `FirstInFirstOut`: `QueuedInOrder` alone is not inductive; `OrderInv` adds that
  the pending entries are the tail of the arrivals, that everything before them has
  settled save possibly `current`, and that arrivals are distinct.  `QueueIsServed` puts the two together as `ServedInOrder`.
* `RollbackIsComplete`: `RolledBack` says of a unit in each phase which of its rollbacks
  have run: none before it fails, then those above the counter that goes down, all of
  them once it has its receipt.  Only the unit's own turns touch that part of its record.

`CycleProofs`
* `GateIsExclusive`, `WaitersAreServed`, `AnswersAreFresh`, `ShutdownIsQuiet`, from one
  inductive invariant, `Coordinated /\ Flags`.  The parts need each other:
  that the holder of the gate is where it says (`GateMatchesHolder`) is what lets the
  release in one place not disturb another; `Fresh` strengthens
  `AwaitedIsFresh` with those who await the running cycle after its first read;
  `Quiescent` needs that `CloseScope` finds no waiter without a pending cycle
  (`NoOrphanedWaiter`).  Actions that share an effect (waking, joining, ending a
  cycle or a pass) have a lemma each, cited by every action that uses it.
  `CyclesAreServed` puts the last three together as `RequestsAreServed`.
* `FocusIsApplied`: `Numbered` says place by place that the hints applied and those still
  queued are 1, 2, 3, ... in that order; `FocusExactlyOnce` says it of their concatenation.
* `EmptyIsConfirmed`: `Reported`, on top of `Coordinated`, says that whatever a cycle takes
  for closed was reported closed.  Commits of commands under the gate may forget any window (`CommitInventory`), so that nothing is assumed
  of `known` but that it has only windows (`Real`), and a failing plan may forget a single one.
* `NoRemovalIsLost`: `RemovalsAreKept` is inductive together with the fact that there is no batch between cycles (`StillThere`), so that
  the next cycle overwrites nothing; `EndCycle` puts the batch back or counts it as adopted.  `HintsSurvive` puts it and `FocusIsApplied` together as `HintsAreKept`.
* `ConfigurationIsKept`, from `KeysAreInForce` and `TheFileIsInForce` with one invariant, `ConfigInv`.  Messages belong to requests with numbers of their own, an answer says what the
  sidecar did, and until one is late each has a caller that waits (`Addressed`, `Unique`); so the sidecar's bindings are what its last agreeing answer under way says, or else the daemon's (`Told`).
  A candidate says all that the file it was read from says, and what the sidecar may refuse in it is the file's (`Prepares`).  Before the file is watched only startup runs (`Startup`); afterwards,
  unless callers overlap, a caller that prepares has read the file as it is, or a change is still to be noticed (`UpToDate`).

`EngineProofs`, queue and gate together
* `WritersExclude`, `NestedPlansDoNotWait`: the invariant is the queue's own, kept because
  each action is one of the queue's or leaves it alone, and `Wiring`: the lifecycle fiber
  holds the gate exactly where it reads or awaits a plan (`Places`), a submitted plan
  without a receipt is the one the cycle awaits, with the gate in the cycle's hands
  (`PlansGuarded`), a command inside holds the gate (`InsideHolds`), and a unit that
  was never submitted has not begun (`StartedOnce`).  The drain loop may start any
  queued unit in any action that reaches it, so `PlansGuarded` must speak of
  pending plans, not of running ones only.

`SessionProofs`
* `StartupIsWhole`, `HealthTellsTheTruth`, `NobodyIsLeft`, from one inductive invariant.  `Orderly` follows an
  admission: a window that nobody else moved is where it was adopted until its own write (`Awaiting`, `Tried`), in its tile once it is
  verified, and when the rollback has passed it, it is back or something is known to be wrong (`PutBack`).  `Noticed` says that whoever stands
  in a corner is noted or forsaken, until restoration takes over the notes (`Restored`).  The two meet in `Uncornered`: before the first
  cycle nobody stands in a corner, known or real, and no write in flight leads to one, so that the writes of an admission need no note.
  `FiberOK` gives the record of the fiber a shape for each kind of step, which the other parts need to speak of its fields.

`CompoundProofs`
* `CommandsAreAtomic`: `CompoundTransaction` implements `AtomicCommit`.  The invariant,
  `Isolated` with the shape of the records it speaks of, says that only the holder
  of the gate is in its transaction, so that between the copy of the world and the
  commit nobody else commits: the draft still holds all effects.  Each way a turn of
  a command can end (going on, releasing, committing, aborting, restoring) has a
  lemma that shows both the invariant and the abstract step; each action cites those it uses.
  The invariant by itself is `TransactionsAreIsolated`.  That a pause may be lost
  is no contradiction: switches are not commands of `AtomicCommit`.
* `RollbackRestoresOrDegrades`, `OnlyCapturedWindowsMove`, `CommitsWhatIsPlaced`: one
  invariant, `Traced`, carries all three.  It follows the marks a command leaves.
  `Unmarked`: before its first write no frame, write or capture anywhere is a place of
  the command, so what it captures is nothing of its own, and a window back where it was
  captured is not where the plan put it.  `Within`: what it deals with it has captured,
  and a window it moved still has the captured identity.  `OpOK`, `Awaited`: a write expects the
  captured identity, is waited for in the stage it was made for and only as long as
  there is no answer; so an answer that is noted is the one to the current write, and two
  awaited writes to a window are the same (`OneHeard`).  `Tracked`, `Restoring`: where the
  moved windows are at each stage, and that during the rollback each is still to do or the
  rollback is incomplete.  `Learned`: memory differs from the store only inside a
  transaction.  `TurnKeeps` says what a turn of one command leaves of the others';
  `RestoreOnTurned`, `AbortTurned`, `IssueTurned`, `RereadTurned`, `ConcludeTurned`,
  `ReleaseTurned` take each way a turn can end.

`StoreProofs`
* `UpdatesAreKept`: any number of processes with one file implement `SharedCatalog`.  The catalog is what the file says; what a process wants is what
  its memory has and the revision it started from has not.  The invariant ties a process that holds the lock and has compared to the file: the
  file still is what it compared, unless somebody has damaged it.  Each action has a lemma that shows the invariant and the abstract step.
* `OneWriterAtATime`, `NothingUnsavedWhenIdle` follow from the same invariant.

`SidecarProofs`
* `AnswersAreOwn`, `NoCallLeftBehind`: an id names one request among all lines that bear it, wherever they are
  (`IdsNameRequests`: the host's table, the pipe down, the sidecar's work, the pipe up), so that an answer that comes after its
  deadline finds no entry rather than another call's.  Once the host or the sidecar has ended, no call waits (`NoneLeftBehind`): those that waited
  were settled by whatever ended it, and none is added.
* `ChangesAreFollowed`: `Following` adds to `NothingMissed` that the newest change is told
  if any is (`UpToDate`), so that the next one follows on it, and that until the sidecar is subscribed it has answered
  nothing and the first line it will read is the subscription (`SubscribesFirst`), which is why no
  answer can be older than the subscription.
* `FlagIsOwedWhileOpen`: what overlapping writes remember need not be known write by write.  `Borrowed` says that a write remembers a flag that was set only
  where it was wanted set, and that no flag is set that was not; the rest is `FlagIsOwed`: a write that finds the flag clear owes nothing, since
  another one that cleared it is still to restore it, before its request is answered.  It is about a sidecar that runs.
* `WavesAreOrdered`, `BatchesAreDone`, together `BatchesAreSound`: `Concluded` ties an operation's outcome to its being done, and `Unstuck` says of an open batch that nothing has begun that
  waits for itself or for unknown names (`Stuck`).  Conversely, when no wave can be made, nothing is possible (`NothingPossible`: the first
  possible operation would be ready), so that those left over each wait for a name that only they could give, and are stuck.
* `ReportsAreOfTheAsked`: `TurnMakes` says of every turn what it may make of its operation; an outcome that speaks of the window is made only where looks were compared,
  and a window that nobody has replaced is the one that was asked for.
* `HostHearsTruly`: `AnswersAreOwn` and `ChangesAreFollowed` together, with the order of what was told.
* `InventoryHolds`: that events tell all is a fact about `Hears`.  For `NamesAreOwn`, `InventoryInv` says that what a refresh has read of an undisturbed application still holds
  (`HoldsStill`), so that no entry of the window server's list has more to say for an observation than the window's own (`OwnIsBest`).  If an observation got another's entry, its own must have been taken by an
  earlier one, and the first such finds its own entry free: the least index leads to a contradiction.

`WorkspacesProofs`
* `WorldStaysConsistent`, `RememberedReturn`, from one invariant, `Consistent`.  By themselves neither a display's workspace nor a window's home is
  safe from a plan that was made a while ago: inserting into a workspace that is gone would create it, visible beside another.  So the invariant
  says that the workspaces of the plan, of the tombs and of the world exist in whatever world comes next (`Sound`, `Remembered`, `Drafted`; no step
  removes one), and that a draft is consistent itself.  Each rule has a lemma (`PrunePlan`, ... `RecoverPlan`) on the plan it makes, which
  `RulesPlan` puts together, and each reducer one (`Joined`, `Parted`, `Shown`, `Stowed`, ...) on the world it leaves; actions only cite them.
  `Created` and `Shown` pass through a world that is not consistent: a workspace that is created shares a display until it is shown (`Nearly`).
* `RememberedReturn` needs `Directed`: while a plan is applied there is a map from the windows it inserts to workspaces, which the plan, the
  homes these windows get and the tombs they get or have all follow.  The map exists because restore-membership and assign-new-windows never take
  the same window; dialogs are outside it, since two rules may plan one and the guard in `doInsert` decides.

`ProbeProofs`
* `WindowIsRestored`, `FindingsAreTrue`, from one inductive invariant.  The calls in the sidecar stand in an order: each has as many writes behind it as
  the next younger one, or more, or none left (`Ordered`), so that the newest call writes each attribute after all older ones have, and when it is done
  nobody is left to undo it.  `Carrying` says how far a newest call that sets a frame has come; `Homing`, that the window is home, or a newest call is
  taking it there (`Homeward`), whenever the fiber has nothing to put back, is putting it back or has ended; nothing else may be assumed of calls that were given up.
* For the findings, `Measured` follows a trial from the call to what is read of it, `Recorded` says that what is on record is what the window makes of
  the trial, that the last four trials are on record once they are over, and that both axes have shown that they resize.  From the last follows that the
  window's axes are not tied (`NotTied`), and so that a trial of one axis tells that axis' bound (`FindingsAreExact`).
* A window that cannot be moved needs a part of its own (`Stuck`): no call can take it home, but none has taken it away.
* `SearchesAreSound`, for every system with whatever limits and drift: `ParkingInv` says that a window about to be read back is where the system has let it be put, or where someone dragged it
  (`ReadTruly`), so that what is read within the tolerance of the verification bounds what may be `Lacking`; and that restoration takes two attempts at most if nothing comes between, since the system grants the center
  (`GoesBack`).

Type correctness is part of each invariant and proved with it.

Only model-checked:

* All liveness (`EventuallySettled`, `SettledUnlessCircular`, `EverythingIsAnswered`, `EveryCommandEnds`, `SessionsEnd`,
  `MemoryFollowsFile`, `MeasuringEnds`, `AllAreAnswered`): liveness under fairness is out of the prover's reach.
* The tiling and `LearnedLimits`: they use RECURSIVE operators, over trees and samples, which the prover cannot handle.
* `ConvergedIsArranged` and `CalmCyclesConverge`: the first relates two passes through all rules, and needs what a fixed point of each of them is;
  the second is about the number of passes that the instance needs.
* `FoundIsLeast`: that halving ends at the limit is induction over the probes, with arithmetic in powers of two.

## 5. Not modelled

* **The API around the engine**: parsing of commands and configuration, the command bus, the daemon's transport, CLI, web socket and status bar pass values on; the
  browser host, the simulated platform and the site are for demonstrations and tests.
* **The Accessibility API**: what the operating system does with a request is left to the models' environments.
* **The coordinates of parking corners**: which corners of real displays overlap no other display, and the fingerprints under which what was found is kept.  In the models of the engine every
  corner is feasible and one place; `ParkingSearch` has what a place shows instead of coordinates.
* **The event bus**: one fiber publishes to bounded buffers that nothing in the engine reads.

`PROJECT.json` lists each component with its reason.
