----------------------------- MODULE EngineGate -----------------------------
(***************************************************************************)
(* The transaction queue and the reconcile gate together, as the engine    *)
(* wires them in packages/layout/src/engine.ts and commands.ts.            *)
(*                                                                         *)
(* Every command of a client is a unit of one step.  The step of many      *)
(* takes reconcileGate, and of most awaits a reconciliation cycle.  A      *)
(* cycle runs in the lifecycle fiber, holds the gate, and submits what it  *)
(* plans to the same queue as a unit of several steps, whose receipt it    *)
(* awaits with the gate still in its hands.  A unit that waits for the     *)
(* gate cannot be interrupted, by its deadline either.                     *)
(*                                                                         *)
(* The queue is TransactionQueue's; each action here says what it does to  *)
(* the queue with an action of that module.  Requests and cycles are those *)
(* of ReconcileCycle, reduced to who waits for whom: what a cycle reads    *)
(* and whether it converges is left open, and stop() is left out.          *)
(***************************************************************************)
EXTENDS TransactionQueue

CONSTANTS
    Plans,          \* the units that cycles submit; the others are commands
    Exclusive,      \* commands whose step takes the gate
    Reconciling,    \* commands whose step awaits a cycle (after the gate)
    Free, Loop,     \* holders of the gate that are not commands
    MaxHints        \* bound: hints of the platform that ask for a cycle

Commands == Units \ Plans

ASSUME GateAssumption ==
    /\ Plans \subseteq Units
    /\ \A p \in Plans : KeyOf[p] = NoKey
    /\ \A c \in Units \ Plans : StepCount[c] = 1
    /\ Exclusive \cup Reconciling = Units \ Plans
    /\ Batches = {} /\ Escalates = {}
    /\ {Free, Loop} \cap Units = {} /\ Free # Loop
    /\ MaxHints \in Nat

VARIABLES
    gate,           \* who holds reconcileGate
    loop,           \* where the lifecycle fiber is
    wanted,         \* pendingCycle # null
    plan,           \* the unit whose receipt the cycle awaits, or NoUnit
    at,             \* where the step of each command is
    expired,        \* commands whose deadline fired while they waited for the gate
    hints           \* how many hints there have been

engine == <<gate, loop, wanted, plan, at, expired, hints>>
all == <<vars, engine>>

EngineInit ==
    /\ Init
    /\ gate = Free /\ loop = "off" /\ wanted = FALSE /\ plan = NoUnit
    /\ at = [c \in Commands |-> "ready"]
    /\ expired = {} /\ hints = 0

WaitsForGate(c) == c \in Exclusive /\ phase[c] = "running" /\ at[c] = "ready"

(***************************************************************************)
(* Commands.                                                               *)
(***************************************************************************)

WakeLoop ==
    /\ wanted' = TRUE
    /\ loop' = IF loop = "off" THEN "forked" ELSE loop

\* The command bus submits the command's unit, and maybe runs it at once.
Execute(c) == Submit(c) /\ UNCHANGED engine

\* The command has nothing more to do before it awaits the next cycle.
AwaitCycle(c) ==
    /\ c \in Reconciling
    /\ at' = [at EXCEPT ![c] = "next"]
    /\ WakeLoop

RequestCycle(c) ==
    /\ c \notin Exclusive /\ phase[c] = "running" /\ at[c] = "ready"
    /\ AwaitCycle(c)
    /\ UNCHANGED <<vars, gate, plan, expired, hints>>

\* The step takes the gate whoever holds it (CommandsExcludeCycles).
Regression_EnterHeldGate(c) ==
    /\ WaitsForGate(c) /\ c \notin expired
    /\ gate' = c
    /\ at' = [at EXCEPT ![c] = "inside"]
    /\ UNCHANGED <<vars, loop, wanted, plan, expired, hints>>

EnterGate(c) ==
    /\ WaitsForGate(c) /\ gate = Free /\ c \notin expired
    /\ gate' = c
    /\ at' = [at EXCEPT ![c] = "inside"]
    /\ UNCHANGED <<vars, loop, wanted, plan, expired, hints>>

\* The wait ends after the deadline: the gate is acquired and released, and
\* only then is the timeout's receipt given.
EnterTooLate(c) ==
    /\ WaitsForGate(c) /\ gate = Free /\ c \in expired
    /\ Deadline(c)
    /\ UNCHANGED engine

LeaveGate(c) ==
    /\ phase[c] = "running" /\ at[c] = "inside"
    /\ gate' = Free
    /\ \/ AwaitCycle(c) /\ UNCHANGED vars
       \/ c \notin Reconciling /\ StepDone(c) /\ UNCHANGED <<at, loop, wanted>>
       \/ StepFailed(c) /\ UNCHANGED <<at, loop, wanted>>
    /\ UNCHANGED <<plan, expired, hints>>

\* Most commands ignore what the cycle answers; `reconcile` fails with it.
FinishCommand(c) ==
    /\ phase[c] = "running" /\ at[c] = "answered"
    /\ StepDone(c) \/ StepFailed(c)
    /\ UNCHANGED engine

\* The deadline interrupts the step where it is, and the gate is released with
\* it; a step that waits for the gate goes on waiting.
Timeout(c) ==
    /\ phase[c] = "running"
    /\ \/ /\ WaitsForGate(c) /\ c \notin expired
          /\ expired' = expired \cup {c}
          /\ UNCHANGED <<vars, gate>>
       \/ /\ ~WaitsForGate(c)
          /\ Deadline(c)
          /\ gate' = IF gate = c THEN Free ELSE gate
          /\ UNCHANGED expired
    /\ UNCHANGED <<loop, wanted, plan, at, hints>>

(***************************************************************************)
(* The lifecycle fiber.                                                    *)
(***************************************************************************)

Hint ==
    /\ hints < MaxHints
    /\ hints' = hints + 1
    /\ WakeLoop
    /\ UNCHANGED <<vars, gate, plan, at, expired>>

TakeCycle ==
    /\ loop = "forked"
    /\ loop' = "queued"
    /\ wanted' = FALSE
    /\ at' = [c \in Commands |-> IF at[c] = "next" THEN "cycle" ELSE at[c]]
    /\ UNCHANGED <<vars, gate, plan, expired, hints>>

EndCycle ==
    /\ gate' = Free
    /\ plan' = NoUnit
    /\ at' = [c \in Commands |-> IF at[c] = "cycle" THEN "answered" ELSE at[c]]
    /\ loop' = IF wanted THEN "forked" ELSE "off"
    /\ UNCHANGED <<wanted, expired, hints>>

\* A pass fails at once while the queue recovers, else it begins to read.
BeginPass ==
    \/ recovering /\ EndCycle
    \/ /\ ~recovering
       /\ gate' = Loop
       /\ loop' = "reading"
       /\ plan' = NoUnit
       /\ UNCHANGED <<wanted, at, expired, hints>>

EnterCycle ==
    /\ loop = "queued" /\ gate = Free
    /\ BeginPass
    /\ UNCHANGED vars

\* The reads return; they may fail, or what they say may need no plan.
FinishWithoutPlan ==
    /\ loop = "reading"
    /\ EndCycle
    /\ UNCHANGED vars

SubmitPlan(p) ==
    /\ loop = "reading"
    /\ Submit(p)
    /\ plan' = p
    /\ loop' = "planned"
    /\ UNCHANGED <<gate, wanted, at, expired, hints>>

PlanStep(p) ==
    /\ StepDone(p) \/ StepFailed(p) \/ Undo(p) \/ Deadline(p)
    /\ UNCHANGED engine

\* The cycle hears of completed plans only (SettledUnlessCircular).
Regression_HearOnlySuccess ==
    /\ loop = "planned" /\ receipt[plan] = "completed"
    /\ EndCycle \/ BeginPass
    /\ UNCHANGED vars

\* The receipt is in: the cycle is over, or another pass begins.
PlanAnswered ==
    /\ loop = "planned" /\ phase[plan] = "settled"
    /\ EndCycle \/ BeginPass
    /\ UNCHANGED vars

Recover(on) == recovering # on /\ SetRecovery(on) /\ UNCHANGED engine

EngineNext ==
    \/ \E c \in Commands :
          \/ Execute(c) \/ RequestCycle(c)
          \/ EnterGate(c) \/ EnterTooLate(c) \/ LeaveGate(c)
          \/ FinishCommand(c) \/ Timeout(c)
    \/ \E p \in Plans : SubmitPlan(p) \/ PlanStep(p)
    \/ Hint \/ TakeCycle \/ EnterCycle \/ FinishWithoutPlan \/ PlanAnswered
    \/ \E on \in BOOLEAN : Recover(on)

\* The clock goes on, reads return, runnable fibers run, and a waiter of the
\* gate gets it when it stays free.
EngineFairness ==
    /\ \A c \in Commands :
          /\ WF_all(EnterGate(c)) /\ WF_all(EnterTooLate(c)) /\ WF_all(Timeout(c))
    /\ \A p \in Plans : WF_all(Deadline(p) /\ UNCHANGED engine)
    /\ WF_all(TakeCycle) /\ WF_all(EnterCycle) /\ WF_all(PlanAnswered)
    /\ WF_all(FinishWithoutPlan \/ \E p \in Plans : SubmitPlan(p))

EngineSpec == EngineInit /\ [][EngineNext]_all /\ EngineFairness

-----------------------------------------------------------------------------
(***************************************************************************)
(* Properties.                                                             *)
(***************************************************************************)

\* A plan writes only while its own cycle holds the gate, whichever fiber runs
\* its steps and whenever recovery lets it start: no command that takes the
\* gate writes at the same time, and no receipt of an earlier cycle's plan is
\* still to come.
CommandsExcludeCycles ==
    /\ \A p \in Plans :
          phase[p] \in {"pending", "running", "undoing"} => gate = Loop /\ plan = p
    /\ \A c \in Exclusive : phase[c] = "running" /\ at[c] = "inside" => gate = c

\* The plan of the cycle that holds the gate waits in the queue behind a
\* command that waits for the gate.
CircularWait ==
    /\ current \in Commands /\ WaitsForGate(current)
    /\ gate = Loop /\ loop = "planned" /\ InQueue(plan)

\* Nested submissions run inline so that a cycle never waits for a command that
\* waits for the cycle (the comment in submit).  A plan waits in the queue only
\* if recovery held the queue when the cycle submitted it.
PlansQueueOnlyInRecovery ==
    [][\A p \in Plans : phase[p] = "idle" /\ phase'[p] = "pending" => recovering]_all

\* Unless queue and gate wait for each other, every command and plan gets its
\* receipt, provided recovery does not stay on for ever.
SettledUnlessCircular ==
    []<>(~recovering) =>
        \A u \in Units : (phase[u] # "idle") ~> (phase[u] = "settled" \/ CircularWait)

=============================================================================
