---------------------------- MODULE CycleProofs -----------------------------
(***************************************************************************)
(* Proofs about ReconcileCycle, for every set of windows and operations,   *)
(* any number of passes, focus hints and conflicts; and about ConfigReload,*)
(* for all files, tables of key bindings and numbers of reloads.           *)
(***************************************************************************)
EXTENDS ReconcileCycle, ConfigReload, SequenceTheorems, TLAPS

\* The types the coordination argument needs.
Types ==
    /\ op \in [Ops -> {"idle"} \cup Waits \cup Results]
    /\ seen \subseteq Ops
    /\ pending \in BOOLEAN
    /\ loop \in LoopStates
    /\ stop \in {"running", "closing", "restoring", "stopped"}

\* AwaitedIsFresh is inductive only with what holds while the cycle runs: it
\* has begun a read since any of those it will answer asked.
Fresh ==
    /\ AwaitedIsFresh
    /\ \A o \in Ops : op[o] = "running" /\ InPass => o \in seen

\* The inductive invariant of the coordination.
Coordinated == Types /\ GateMatchesHolder /\ NoOrphanedWaiter /\ Fresh /\ Quiescent

LEMMA CoordinatedInit == Init => Coordinated
  BY CycleAssumption
     DEF Init, Coordinated, Types, GateMatchesHolder, NoOrphanedWaiter, Fresh, Quiescent,
         AwaitedIsFresh, InPass, LoopStates, Waits, Results

\* Steps that leave the coordination's variables alone.
LEMMA Unmoved ==
    ASSUME Coordinated, UNCHANGED <<stop, pending, loop, gate, op, seen>>
    PROVE  Coordinated'
  BY DEF Coordinated, Types, GateMatchesHolder, NoOrphanedWaiter, Fresh, Quiescent,
         AwaitedIsFresh, InPass

\* A hint, or a request, that only makes sure that a cycle will run.
LEMMA WakeKeeps ==
    ASSUME Coordinated, HandleHint, stop = "running", UNCHANGED <<stop, gate, op, seen>>
    PROVE  Coordinated'
<1>1. CASE UNCHANGED <<pending, loop>>
  BY <1>1, Unmoved
<1>2. CASE WakeLoop
  <2>1. InPass' <=> InPass
    BY <1>2 DEF WakeLoop, InPass
  <2>2. pending' = TRUE /\ loop' # "off" /\ loop' \in LoopStates
    BY <1>2 DEF WakeLoop, Coordinated, Types, LoopStates
  <2>3. loop = "queued" => loop' = "queued"
    BY <1>2 DEF WakeLoop
  <2>4. QED
    BY <2>1, <2>2, <2>3
       DEF Coordinated, Types, GateMatchesHolder, NoOrphanedWaiter, Fresh, Quiescent,
           AwaitedIsFresh
<1>3. QED
  BY <1>1, <1>2 DEF HandleHint

\* An operation asks for a cycle, leaving the gate if it is inside.
LEMMA JoinKeeps ==
    ASSUME Coordinated, NEW o \in Ops, Join(o), stop = "running", stop' = stop,
           seen' \subseteq seen, seen \ {o} \subseteq seen',
           \/ op[o] = "idle" /\ gate' = gate
           \/ op[o] = "inside" /\ gate' = Free
    PROVE  Coordinated'
<1>1. /\ op' = [op EXCEPT ![o] = "next"] /\ WakeLoop
  BY DEF Join
<1>2. InPass' <=> InPass
  BY <1>1 DEF WakeLoop, InPass
<1>3. pending' = TRUE /\ loop' # "off" /\ loop' \in LoopStates
  BY <1>1 DEF WakeLoop, Coordinated, Types, LoopStates
<1>4. loop = "queued" => loop' = "queued"
  BY <1>1 DEF WakeLoop
<1>5. Types'
  BY <1>1, <1>3 DEF Coordinated, Types, Waits
<1>6. GateMatchesHolder'
  BY <1>1, <1>2, CycleAssumption DEF Coordinated, Types, GateMatchesHolder
<1>7. NoOrphanedWaiter'
  BY <1>1, <1>2, <1>3, <1>4 DEF Coordinated, Types, NoOrphanedWaiter
<1>8. Fresh'
  BY <1>1, <1>2 DEF Coordinated, Types, Fresh, AwaitedIsFresh
<1>9. QED
  BY <1>5, <1>6, <1>7, <1>8 DEF Coordinated, Quiescent

\* An operation goes from one place to another without asking for a cycle.
LEMMA MoveKeeps ==
    ASSUME Coordinated, NEW o \in Ops, NEW place \in {"queued", "inside", "ok", "failed",
                                                      "interrupted", "skipped"},
           op' = [op EXCEPT ![o] = place],
           UNCHANGED <<stop, pending, loop>>,
           stop \in {"running", "closing"},
           seen' \subseteq seen, seen \ {o} \subseteq seen',
           place = "ok" => o \notin Reconciling,
           \/ place = "inside" /\ gate = Free /\ gate' = o
           \/ op[o] = "inside" /\ place # "inside" /\ gate' = Free
           \/ op[o] # "inside" /\ place # "inside" /\ gate' = gate
    PROVE  Coordinated'
<1>1. Types'
  BY DEF Coordinated, Types, Waits, Results
<1>2. GateMatchesHolder'
  BY CycleAssumption DEF Coordinated, Types, GateMatchesHolder, InPass
<1>3. NoOrphanedWaiter'
  BY DEF Coordinated, Types, NoOrphanedWaiter, InPass
<1>4. Fresh'
  BY DEF Coordinated, Types, Fresh, AwaitedIsFresh, InPass
<1>5. QED
  BY <1>1, <1>2, <1>3, <1>4 DEF Coordinated, Quiescent

-----------------------------------------------------------------------------
(***************************************************************************)
(* The cycle itself.                                                       *)
(***************************************************************************)

LEMMA EndCycleKeeps ==
    ASSUME Coordinated, InPass, NEW ok \in BOOLEAN, NEW rerun \in BOOLEAN,
           EndCycle(ok, rerun), stop' = stop
    PROVE  Coordinated'
<1>1. /\ gate' = Free /\ seen' = seen
      /\ op' = [o \in Ops |-> IF op[o] # "running" THEN op[o] ELSE IF ok THEN "ok" ELSE "failed"]
      /\ pending' = (pending \/ rerun)
      /\ loop' = IF pending' /\ stop = "running" THEN "forked" ELSE "off"
  BY DEF EndCycle
<1>2. ~InPass' /\ loop' \in LoopStates
  BY <1>1 DEF InPass, LoopStates
<1>3. gate = Loop /\ stop \in {"running", "closing"} /\ \A o \in Ops : op[o] # "inside"
  BY CycleAssumption DEF Coordinated, Types, GateMatchesHolder, Quiescent, InPass
<1>4. Types'
  BY <1>1, <1>2 DEF Coordinated, Types, Results
<1>5. GateMatchesHolder'
  BY <1>1, <1>2, <1>3, CycleAssumption DEF GateMatchesHolder
<1>6. NoOrphanedWaiter'
  BY <1>1 DEF Coordinated, Types, NoOrphanedWaiter
<1>7. Fresh'
  BY <1>1, <1>2, CycleAssumption DEF Coordinated, Types, Fresh, AwaitedIsFresh
<1>8. QED
  BY <1>3, <1>4, <1>5, <1>6, <1>7 DEF Coordinated, Quiescent

LEMMA BeginPassKeeps ==
    ASSUME Coordinated, NEW n, BeginPass(n), UNCHANGED <<stop, pending, op>>,
           \/ InPass /\ gate' = gate
           \/ loop = "queued" /\ stop = "running" /\ gate = Free /\ gate' = Loop
    PROVE  Coordinated'
<1>1. InPass' /\ loop' \in LoopStates /\ loop' # "off"
      /\ seen' = seen \cup {o \in Ops : op[o] = "running"}
  BY DEF BeginPass, InPass, LoopStates
<1>2. Types'
  BY <1>1 DEF Coordinated, Types
<1>3. GateMatchesHolder'
  BY <1>1, CycleAssumption DEF Coordinated, GateMatchesHolder
<1>4. NoOrphanedWaiter'
  BY <1>1 DEF Coordinated, NoOrphanedWaiter
<1>5. Fresh'
  BY <1>1 DEF Coordinated, Fresh, AwaitedIsFresh
<1>6. stop \notin {"restoring", "stopped"}
  BY CycleAssumption DEF Coordinated, Quiescent, InPass
<1>7. QED
  BY <1>2, <1>3, <1>4, <1>5, <1>6 DEF Coordinated, Quiescent

LEMMA EndPassKeeps ==
    ASSUME Coordinated, InPass, NEW changed \in BOOLEAN, NEW rerun \in BOOLEAN,
           EndPass(changed, rerun), stop' = stop
    PROVE  Coordinated'
  BY EndCycleKeeps, BeginPassKeeps DEF EndPass

LEMMA TakeKeeps ==
    ASSUME Coordinated, TakeCycle
    PROVE  Coordinated'
<1>1. /\ stop = "running" /\ stop' = stop /\ loop = "forked" /\ loop' = "queued"
      /\ pending' = FALSE /\ gate' = gate /\ seen' = seen
      /\ op' = [o \in Ops |-> IF op[o] = "next" THEN "running" ELSE op[o]]
  BY DEF TakeCycle, history
<1>2. ~InPass /\ ~InPass'
  BY <1>1 DEF InPass
<1>3. Types'
  BY <1>1 DEF Coordinated, Types, Waits, LoopStates
<1>4. GateMatchesHolder'
  BY <1>1, <1>2 DEF Coordinated, Types, GateMatchesHolder
<1>5. NoOrphanedWaiter'
  BY <1>1 DEF Coordinated, Types, NoOrphanedWaiter
<1>6. Fresh'
  BY <1>1, <1>2, CycleAssumption DEF Coordinated, Types, Fresh, AwaitedIsFresh
<1>7. QED
  BY <1>1, <1>3, <1>4, <1>5, <1>6 DEF Coordinated, Quiescent

LEMMA CycleKeeps ==
    ASSUME Coordinated, again \in BOOLEAN, conflicts \in Nat, unsettled \in BOOLEAN,
           \/ EnterCycle \/ ObserveFailed \/ Apply
           \/ \E inventory \in {live, {}} : Observe(inventory)
    PROVE  Coordinated'
<1>1. CASE EnterCycle
  BY <1>1, BeginPassKeeps DEF EnterCycle
<1>2. CASE ObserveFailed
  <2>1. InPass /\ EndCycle(FALSE, again) /\ stop' = stop
    BY <1>2 DEF ObserveFailed, InPass
  <2>2. QED
    BY <2>1, EndCycleKeeps
<1>3. CASE Apply
  <2>1. InPass /\ stop' = stop
    BY <1>3 DEF Apply, InPass
  <2>2. PICK rerun \in {again, conflicts < MaxConflicts \/ again} :
           \/ EndCycle(FALSE, rerun)
           \/ \E moved \in BOOLEAN : EndPass(unsettled \/ moved, rerun)
    BY <1>3 DEF Apply
  <2>3. rerun \in BOOLEAN
    OBVIOUS
  <2>4. ASSUME NEW moved \in BOOLEAN, EndPass(unsettled \/ moved, rerun)
        PROVE  Coordinated'
    BY <2>1, <2>3, <2>4, EndPassKeeps
  <2>5. QED
    BY <2>1, <2>2, <2>3, <2>4, EndCycleKeeps
<1>4. ASSUME NEW inventory \in {live, {}}, Observe(inventory)
      PROVE  Coordinated'
  <2>1. InPass /\ stop' = stop /\ loop = "reading"
    BY <1>4 DEF Observe, InPass
  <2> DEFINE changed == unsettled \/ known' # known \/ focus # <<>>
  <2>2. changed \in BOOLEAN
    OBVIOUS
  <2>3. \/ EndCycle(FALSE, again)
        \/ EndPass(changed, again)
        \/ loop' = "applying" /\ UNCHANGED <<gate, op, pending, seen>>
    BY <1>4 DEF Observe
  <2> HIDE DEF changed
  <2>4. CASE loop' = "applying" /\ UNCHANGED <<gate, op, pending, seen>>
    <3>1. InPass' /\ loop' \in LoopStates
      BY <2>4 DEF InPass, LoopStates
    <3>2. stop \notin {"restoring", "stopped"}
      BY <2>1 DEF Coordinated, Quiescent
    <3>3. QED
      BY <2>1, <2>4, <3>1, <3>2
         DEF Coordinated, Types, GateMatchesHolder, NoOrphanedWaiter, Fresh, AwaitedIsFresh,
             Quiescent
  <2>5. QED
    BY <2>1, <2>2, <2>3, <2>4, EndCycleKeeps, EndPassKeeps
<1>5. QED
  BY <1>1, <1>2, <1>3, <1>4

-----------------------------------------------------------------------------
(***************************************************************************)
(* Operations and shutdown.                                                *)
(***************************************************************************)

LEMMA OperationKeeps ==
    ASSUME Coordinated, NEW o \in Ops,
           Begin(o) \/ EnterGate(o) \/ LeaveGate(o) \/ InterruptOp(o)
    PROVE  Coordinated'
<1>1. CASE Begin(o)
  <2>1. /\ op[o] = "idle" /\ stop = "running" /\ stop' = stop /\ gate' = gate
        /\ seen' = seen \ {o}
    BY <1>1 DEF Begin
  <2>2. CASE op' = [op EXCEPT ![o] = "queued"] /\ UNCHANGED <<pending, loop>>
    BY <2>1, <2>2, MoveKeeps
  <2>3. CASE Join(o)
    BY <2>1, <2>3, JoinKeeps
  <2>4. QED
    BY <1>1, <2>2, <2>3 DEF Begin
<1>2. CASE EnterGate(o)
  <2>1. /\ op[o] = "queued" /\ stop = "running" /\ gate = Free /\ gate' = o
        /\ op' = [op EXCEPT ![o] = "inside"]
        /\ UNCHANGED <<stop, pending, loop, seen>>
    BY <1>2 DEF EnterGate, history
  <2>2. QED
    BY <2>1, MoveKeeps
<1>3. CASE LeaveGate(o)
  <2>1. /\ op[o] = "inside" /\ stop = "running" /\ gate' = Free
        /\ UNCHANGED <<stop, seen>>
    BY <1>3 DEF LeaveGate, history
  <2>2. CASE Join(o)
    BY <2>1, <2>2, JoinKeeps
  <2>3. CASE /\ \/ o \notin Reconciling /\ op' = [op EXCEPT ![o] = "ok"]
                \/ op' = [op EXCEPT ![o] = "failed"]
             /\ UNCHANGED <<pending, loop>>
    BY <2>1, <2>3, MoveKeeps
  <2>4. QED
    BY <1>3, <2>2, <2>3 DEF LeaveGate
<1>4. CASE InterruptOp(o)
  <2>1. /\ stop = "closing"
        /\ op' = [op EXCEPT ![o] = "interrupted"]
        /\ UNCHANGED <<stop, pending, loop, seen>>
        /\ \/ op[o] = "inside" /\ gate' = Free
           \/ op[o] # "inside" /\ gate' = gate
    BY <1>4 DEF InterruptOp, history
  <2>2. QED
    BY <2>1, MoveKeeps
<1>5. QED
  BY <1>1, <1>2, <1>3, <1>4

LEMMA ShutdownKeeps ==
    ASSUME Coordinated, Stop \/ InterruptLoop \/ CloseScope \/ FinishStop
    PROVE  Coordinated'
<1>1. CASE Stop
  <2>1. /\ stop = "running" /\ stop' = "closing"
        /\ UNCHANGED <<pending, loop, gate, op, seen>>
    BY <1>1 DEF Stop, history
  <2>2. QED
    BY <2>1 DEF Coordinated, Types, GateMatchesHolder, NoOrphanedWaiter, Fresh, AwaitedIsFresh,
                Quiescent, InPass
<1>2. CASE InterruptLoop
  <2>1. /\ stop = "closing" /\ stop' = stop /\ loop' = "off" /\ UNCHANGED <<pending, seen>>
        /\ op' = [o \in Ops |-> IF op[o] = "running" THEN "failed" ELSE op[o]]
        /\ \/ InPass /\ gate' = Free
           \/ ~InPass /\ gate' = gate
    BY <1>2 DEF InterruptLoop, InPass, history
  <2>2. ~InPass' /\ loop' \in LoopStates
    BY <2>1 DEF InPass, LoopStates
  <2>3. Types'
    BY <2>1, <2>2 DEF Coordinated, Types, Results
  <2>4. GateMatchesHolder'
    BY <2>1, <2>2, CycleAssumption DEF Coordinated, Types, GateMatchesHolder
  <2>5. NoOrphanedWaiter'
    BY <2>1 DEF Coordinated, Types, NoOrphanedWaiter
  <2>6. Fresh'
    BY <2>1, <2>2, CycleAssumption DEF Coordinated, Types, Fresh, AwaitedIsFresh
  <2>7. QED
    BY <2>1, <2>3, <2>4, <2>5, <2>6 DEF Coordinated, Quiescent
<1>3. CASE CloseScope
  <2>1. /\ stop = "closing" /\ loop = "off" /\ gate = Free
        /\ \A o \in Ops : op[o] \in Waits => op[o] \in {"next", "running"}
        /\ stop' = "restoring" /\ gate' = Stopper /\ pending' = FALSE
        /\ op' = [o \in Ops |-> IF op[o] = "next" THEN "failed" ELSE op[o]]
        /\ UNCHANGED <<loop, seen>>
    BY <1>3 DEF CloseScope, history
  <2>2. \A o \in Ops : op[o] # "running"
    BY <2>1 DEF Coordinated, NoOrphanedWaiter, InPass
  <2>3. ~InPass /\ ~InPass'
    BY <2>1 DEF InPass
  <2>4. \A o \in Ops : op'[o] \notin Waits
    BY <2>1, <2>2 DEF Coordinated, Types, Waits
  <2>5. Types'
    BY <2>1 DEF Coordinated, Types, Results
  <2>6. GateMatchesHolder'
    BY <2>1, <2>3, <2>4, CycleAssumption DEF GateMatchesHolder, Waits
  <2>7. NoOrphanedWaiter' /\ Quiescent'
    BY <2>1, <2>4 DEF NoOrphanedWaiter, Quiescent, Waits
  <2>8. Fresh'
    BY <2>1, <2>3, CycleAssumption DEF Coordinated, Types, Fresh, AwaitedIsFresh
  <2>9. QED
    BY <2>5, <2>6, <2>7, <2>8 DEF Coordinated
<1>4. CASE FinishStop
  <2>1. /\ stop = "restoring" /\ stop' = "stopped" /\ gate' = Free
        /\ UNCHANGED <<pending, loop, op, seen>>
    BY <1>4 DEF FinishStop, history
  <2>2. QED
    BY <2>1, CycleAssumption
       DEF Coordinated, Types, GateMatchesHolder, NoOrphanedWaiter, Fresh, AwaitedIsFresh,
           Quiescent, InPass, Waits
<1>5. QED
  BY <1>1, <1>2, <1>3, <1>4

-----------------------------------------------------------------------------
(***************************************************************************)
(* The specification.                                                      *)
(***************************************************************************)

\* The flags that a pass computes with.
Flags == again \in BOOLEAN /\ unsettled \in BOOLEAN /\ conflicts \in Nat

LEMMA EndPassFlags ==
    ASSUME NEW changed \in BOOLEAN, NEW rerun \in BOOLEAN,
           \/ EndCycle(TRUE, rerun) \/ EndCycle(FALSE, rerun) \/ EndPass(changed, rerun)
    PROVE  again' \in BOOLEAN /\ unsettled' \in BOOLEAN
  BY DEF EndPass, EndCycle, BeginPass

LEMMA FlagsKept == Flags /\ [Next]_vars => Flags'
<1> SUFFICES ASSUME Flags, [Next]_vars PROVE Flags'
  OBVIOUS
<1> USE DEF Flags
<1>1. CASE UNCHANGED vars
  BY <1>1 DEF vars, control
<1>2. ASSUME NEW w \in Windows, Open(w) \/ Close(w) PROVE Flags'
  BY <1>2 DEF Open, Close, control
<1>3. CASE HearRemoval \/ HearFocus \/ Pause \/ FinishStartup
  <2>1. InPass \in BOOLEAN
    BY DEF InPass
  <2>2. UNCHANGED <<again, conflicts>> /\ (unsettled' = unsettled \/ unsettled' = InPass)
    BY <1>3 DEF HearRemoval, HearFocus, Pause, FinishStartup
  <2>3. QED
    BY <2>1, <2>2
<1>4. ASSUME NEW o \in Ops, Begin(o) \/ EnterGate(o) \/ LeaveGate(o) \/ InterruptOp(o)
      PROVE  Flags'
  <2>1. InPass \in BOOLEAN
    BY DEF InPass
  <2>2. CASE Begin(o)
    <3>1. UNCHANGED <<again, conflicts>> /\ (unsettled' = unsettled \/ unsettled' = InPass)
      BY <2>2 DEF Begin
    <3>2. QED
      BY <2>1, <3>1
  <2>3. CASE EnterGate(o) \/ InterruptOp(o)
    BY <2>3 DEF EnterGate, InterruptOp
  <2>4. CASE LeaveGate(o)
    <3>1. unsettled' = unsettled /\ (again' = again \/ again' = TRUE)
      BY <2>4, Zenon DEF LeaveGate, MeetConflict
    <3>2. conflicts' = conflicts \/ conflicts' = conflicts + 1
      BY <2>4, Zenon DEF LeaveGate, MeetConflict
    <3>3. again' \in BOOLEAN /\ unsettled' \in BOOLEAN
      BY <3>1, Zenon
    <3>4. QED
      BY <3>2, <3>3
  <2>5. QED
    BY <1>4, <2>2, <2>3, <2>4
<1>5. CASE TakeCycle \/ EnterCycle
  BY <1>5 DEF TakeCycle, EnterCycle, BeginPass
<1>6. CASE ObserveFailed
  BY <1>6, EndPassFlags DEF ObserveFailed
<1>7. CASE Apply
  <2>1. PICK rerun \in {again, conflicts < MaxConflicts \/ again} :
           /\ conflicts' = IF rerun # again THEN conflicts + 1 ELSE conflicts
           /\ \/ EndCycle(FALSE, rerun)
              \/ \E moved \in BOOLEAN : EndPass(unsettled \/ moved, rerun)
    BY <1>7 DEF Apply
  <2>2. again' \in BOOLEAN /\ unsettled' \in BOOLEAN
    <3>1. ASSUME NEW moved \in BOOLEAN, EndPass(unsettled \/ moved, rerun)
          PROVE  again' \in BOOLEAN /\ unsettled' \in BOOLEAN
      BY <3>1, EndPassFlags
    <3>2. QED
      BY <2>1, <3>1, EndPassFlags
  <2>3. conflicts' \in Nat
    BY <2>1
  <2>4. QED
    BY <2>2, <2>3
<1>8. ASSUME NEW inventory \in {live, {}}, Observe(inventory) PROVE Flags'
  <2> DEFINE changed == unsettled \/ known' # known \/ focus # <<>>
  <2>1. changed \in BOOLEAN
    OBVIOUS
  <2>2. /\ conflicts' = conflicts
        /\ \/ EndCycle(FALSE, again)
           \/ EndPass(changed, again)
           \/ unsettled' = changed /\ again' = again
    BY <1>8 DEF Observe
  <2> HIDE DEF changed
  <2>3. QED
    BY <2>1, <2>2, EndPassFlags
<1>9. CASE Stop \/ InterruptLoop \/ CloseScope \/ FinishStop
  BY <1>9 DEF Stop, InterruptLoop, CloseScope, FinishStop
<1>10. QED
  BY <1>1, <1>2, <1>3, <1>4, <1>5, <1>6, <1>7, <1>8, <1>9 DEF Next, Operate

LEMMA NextKeeps == Coordinated /\ Flags /\ [Next]_vars => Coordinated'
<1> SUFFICES ASSUME Coordinated, Flags, [Next]_vars PROVE Coordinated'
  OBVIOUS
<1>1. CASE UNCHANGED vars
  BY <1>1, Unmoved DEF vars, control, history
<1>2. ASSUME NEW w \in Windows, Open(w) PROVE Coordinated'
  BY <1>2, WakeKeeps DEF Open, history
<1>3. ASSUME NEW w \in Windows, Close(w) PROVE Coordinated'
  BY <1>3, Unmoved DEF Close, control, history
<1>4. CASE HearRemoval \/ HearFocus
  BY <1>4, WakeKeeps DEF HearRemoval, HearFocus, history
<1>5. CASE Pause \/ FinishStartup
  BY <1>5, Unmoved DEF Pause, FinishStartup, history
<1>6. ASSUME NEW o \in Ops, Begin(o) \/ EnterGate(o) \/ LeaveGate(o) \/ InterruptOp(o)
      PROVE  Coordinated'
  BY <1>6, OperationKeeps
<1>7. CASE TakeCycle
  BY <1>7, TakeKeeps
<1>8. CASE \/ EnterCycle \/ ObserveFailed \/ Apply
           \/ \E inventory \in {live, {}} : Observe(inventory)
  BY <1>8, CycleKeeps DEF Flags
<1>9. CASE Stop \/ InterruptLoop \/ CloseScope \/ FinishStop
  BY <1>9, ShutdownKeeps
<1>10. QED
  BY <1>1, <1>2, <1>3, <1>4, <1>5, <1>6, <1>7, <1>8, <1>9 DEF Next, Operate

LEMMA CycleInvariant == Spec => [](Coordinated /\ Flags)
<1>1. Init => Flags
  <2>1. Init => again \in BOOLEAN /\ unsettled \in BOOLEAN
    BY Zenon DEF Init
  <2>2. Init => conflicts \in Nat
    BY DEF Init
  <2>3. QED
    BY <2>1, <2>2 DEF Flags
<1>2. QED
  BY <1>1, CoordinatedInit, NextKeeps, FlagsKept, PTL DEF Spec

\* The gate is held by exactly the code that runs under it: a cycle, one
\* exclusive command or the restoration at shutdown.
THEOREM GateIsExclusive == Spec => []GateMatchesHolder
<1>1. Coordinated => GateMatchesHolder
  BY DEF Coordinated
<1>2. QED
  BY <1>1, CycleInvariant, PTL

\* Whoever waits for a cycle waits for one that a live fiber will run or runs.
THEOREM WaitersAreServed == Spec => []NoOrphanedWaiter
<1>1. Coordinated => NoOrphanedWaiter
  BY DEF Coordinated
<1>2. QED
  BY <1>1, CycleInvariant, PTL

\* A request answered with success was answered from reads that began after it.
THEOREM AnswersAreFresh == Spec => []AwaitedIsFresh
<1>1. Coordinated => AwaitedIsFresh
  BY DEF Coordinated, Fresh
<1>2. QED
  BY <1>1, CycleInvariant, PTL

\* While stop() restores windows, and ever after, nothing else runs or waits.
THEOREM ShutdownIsQuiet == Spec => []Quiescent
<1>1. Coordinated => Quiescent
  BY DEF Coordinated
<1>2. QED
  BY <1>1, CycleInvariant, PTL

\* Whoever asks for a cycle (requestReconcile) gets one, and one that began afterwards;
\* and none is left when stop() restores windows.
THEOREM CyclesAreServed == Spec => []RequestsAreServed
<1>1. NoOrphanedWaiter /\ AwaitedIsFresh /\ Quiescent => RequestsAreServed
  BY DEF RequestsAreServed
<1>2. QED
  BY <1>1, WaitersAreServed, AnswersAreFresh, ShutdownIsQuiet, PTL

-----------------------------------------------------------------------------
(***************************************************************************)
(* The focus hints, and the windows that the engine knows.                 *)
(***************************************************************************)

\* FocusExactlyOnce, place by place.
Numbered ==
    /\ installed \in Seq(Nat) /\ focus \in Seq(Nat)
    /\ \A i \in 1..Len(installed) : installed[i] = i
    /\ \A i \in 1..Len(focus) : focus[i] = Len(installed) + i

LEMMA InstallNumbers ==
    ASSUME Numbered, InstallFocus
    PROVE  Numbered'
<1>1. installed' = installed \o focus /\ focus' = <<>>
  BY DEF InstallFocus
<1>2. installed \in Seq(Nat) /\ focus \in Seq(Nat)
  BY DEF Numbered
<1>3. Len(installed) \in Nat /\ Len(focus) \in Nat /\ Len(focus') = 0
  BY <1>1, <1>2
<1>4. /\ installed' \in Seq(Nat) /\ Len(installed') = Len(installed) + Len(focus)
      /\ \A i \in 1..(Len(installed) + Len(focus)) :
            installed'[i] = IF i <= Len(installed) THEN installed[i] ELSE focus[i - Len(installed)]
  BY <1>1, <1>2, ConcatProperties
<1>5. ASSUME NEW i \in 1..Len(installed') PROVE installed'[i] = i
  <2>1. CASE i <= Len(installed)
    BY SMTT(40), <1>3, <1>4, <2>1 DEF Numbered
  <2>2. CASE ~(i <= Len(installed))
    <3>1. i - Len(installed) \in 1..Len(focus)
      BY <1>3, <1>4, <2>2
    <3>2. installed'[i] = focus[i - Len(installed)]
      BY <1>4, <2>2
    <3>3. focus[i - Len(installed)] = Len(installed) + (i - Len(installed))
      BY <3>1 DEF Numbered
    <3> QED BY <1>3, <3>2, <3>3
  <2> QED BY <2>1, <2>2
<1>6. focus' \in Seq(Nat) /\ \A i \in 1..Len(focus') : focus'[i] = Len(installed') + i
  BY <1>1, <1>3
<1> QED BY <1>4, <1>5, <1>6 DEF Numbered

LEMMA HearNumbers ==
    ASSUME Numbered, HearFocus
    PROVE  Numbered'
<1> DEFINE hint == Len(installed) + Len(focus) + 1
<1>1. focus' = Append(focus, hint) /\ installed' = installed
  BY DEF HearFocus, FocusHints
<1>2. installed \in Seq(Nat) /\ focus \in Seq(Nat)
  BY DEF Numbered
<1>3. Len(installed) \in Nat /\ Len(focus) \in Nat /\ hint \in Nat
  BY <1>2
<1> HIDE DEF hint
<1>4. /\ focus' \in Seq(Nat) /\ Len(focus') = Len(focus) + 1
      /\ \A i \in 1..Len(focus) : focus'[i] = focus[i]
      /\ focus'[Len(focus) + 1] = hint
  BY <1>1, <1>2, <1>3, AppendProperties
<1>5. ASSUME NEW i \in 1..Len(focus') PROVE focus'[i] = Len(installed) + i
  <2>1. CASE i = Len(focus) + 1
    BY <1>3, <1>4, <2>1 DEF hint
  <2>2. CASE i # Len(focus) + 1
    <3>1. i \in 1..Len(focus)
      BY <1>3, <1>4, <2>2
    <3> QED BY <1>4, <3>1 DEF Numbered
  <2> QED BY <2>1, <2>2
<1> QED BY <1>1, <1>4, <1>5 DEF Numbered

LEMMA NumberedKept == Numbered /\ [Next]_vars => Numbered'
<1> SUFFICES ASSUME Numbered, [Next]_vars PROVE Numbered'
  OBVIOUS
<1>1. CASE UNCHANGED <<focus, installed>>
  BY <1>1 DEF Numbered
<1>2. ASSUME NEW o \in Ops, Begin(o) \/ EnterGate(o) \/ LeaveGate(o) \/ InterruptOp(o)
      PROVE  UNCHANGED <<focus, installed>> \/ InstallFocus
  BY <1>2 DEF Begin, EnterGate, LeaveGate, InterruptOp
<1>3. ASSUME NEW w \in Windows, Open(w) \/ Close(w) PROVE UNCHANGED <<focus, installed>>
  BY <1>3 DEF Open, Close
<1>4. ASSUME \/ UNCHANGED vars
             \/ HearRemoval \/ Pause \/ FinishStartup \/ TakeCycle \/ EnterCycle \/ ObserveFailed \/ Apply
             \/ \E inventory \in {live, {}} : Observe(inventory)
             \/ Stop \/ InterruptLoop \/ CloseScope \/ FinishStop
      PROVE  UNCHANGED <<focus, installed>> \/ InstallFocus
  BY <1>4 DEF vars, HearRemoval, Pause, FinishStartup, TakeCycle, EnterCycle, ObserveFailed, Apply,
              Observe, Stop, InterruptLoop, CloseScope, FinishStop
<1> QED BY <1>1, <1>2, <1>3, <1>4, InstallNumbers, HearNumbers DEF Next, Operate

\* Focus hints are applied exactly once and in the order they were accepted, whoever
\* applies them.
THEOREM FocusIsApplied == Spec => []FocusExactlyOnce
<1>1. Init => Numbered
  BY DEF Init, Numbered
<1>2. Numbered => FocusExactlyOnce
  <2> SUFFICES ASSUME Numbered PROVE FocusExactlyOnce
    OBVIOUS
  <2> DEFINE all == installed \o focus
             n == Len(installed) + Len(focus)
  <2>0. /\ all \in Seq(Nat) /\ Len(all) = n
        /\ \A i \in 1..n :
              all[i] = IF i <= Len(installed) THEN installed[i] ELSE focus[i - Len(installed)]
    BY ConcatProperties DEF Numbered
  <2>1. all \in [1..n -> Nat] /\ n \in Nat
    BY <2>0, LenProperties DEF Numbered
  <2>2. ASSUME NEW i \in 1..n PROVE all[i] = i
    <3>1. Len(installed) \in Nat /\ Len(focus) \in Nat
      BY DEF Numbered
    <3>2. CASE i <= Len(installed)
      BY <2>0, <3>1, <3>2 DEF Numbered
    <3>3. CASE ~(i <= Len(installed))
      <4>1. i - Len(installed) \in 1..Len(focus)
        BY <3>1, <3>3
      <4>2. focus[i - Len(installed)] = Len(installed) + (i - Len(installed))
        BY <4>1 DEF Numbered
      <4>3. all[i] = focus[i - Len(installed)]
        BY <2>0, <3>3
      <4> QED BY <3>1, <4>2, <4>3
    <3> QED BY <3>2, <3>3
  <2> HIDE DEF all, n
  <2>4. all = [i \in 1..n |-> i]
    BY <2>1, <2>2
  <2> QED BY <2>4 DEF FocusExactlyOnce, all, n
<1> QED BY <1>1, <1>2, NumberedKept, PTL DEF Spec

\* Between cycles there is no batch, so that the next cycle overwrites nothing.
StillThere == RemovalsAreKept /\ (loop \in {"off", "forked"} => batch = {})

\* The end of a cycle, and of a pass that may be its last, keeps the removals.
LEMMA EndCycleKeepsRemovals ==
    ASSUME StillThere, NEW ok \in BOOLEAN, NEW rerun \in BOOLEAN,
           EndCycle(ok, rerun), stop' = stop, accepted' = accepted
    PROVE  StillThere'
  BY DEF EndCycle, StillThere, RemovalsAreKept

LEMMA EndPassKeepsRemovals ==
    ASSUME StillThere, NEW changed \in BOOLEAN, NEW rerun \in BOOLEAN,
           EndPass(changed, rerun), stop' = stop, accepted' = accepted
    PROVE  StillThere'
<1>1. CASE EndCycle(TRUE, rerun) \/ EndCycle(FALSE, rerun)
  BY <1>1, EndCycleKeepsRemovals
<1>2. CASE BeginPass(pass + 1) /\ UNCHANGED <<adopted, removals, batch>>
  BY <1>2 DEF BeginPass, StillThere, RemovalsAreKept
<1> QED BY <1>1, <1>2 DEF EndPass

LEMMA RemovalsKept == StillThere /\ Flags /\ [Next]_vars => StillThere'
<1> SUFFICES ASSUME StillThere, Flags, [Next]_vars PROVE StillThere'
  OBVIOUS
<1>1. ASSUME NEW w \in Windows, Open(w) \/ Close(w) PROVE StillThere'
  BY <1>1 DEF Open, Close, HandleHint, WakeLoop, control, history, StillThere, RemovalsAreKept
<1>2. ASSUME NEW o \in Ops, Begin(o) \/ EnterGate(o) \/ LeaveGate(o) \/ InterruptOp(o)
      PROVE  StillThere'
  <2>1. CASE Begin(o)
    BY <1>2, <2>1 DEF Begin, Join, WakeLoop, control, history, StillThere, RemovalsAreKept
  <2>2. CASE EnterGate(o)
    BY <1>2, <2>2 DEF EnterGate, history, StillThere, RemovalsAreKept
  <2>3. CASE LeaveGate(o)
    BY <1>2, <2>3 DEF LeaveGate, Join, WakeLoop, history, StillThere, RemovalsAreKept
  <2>4. CASE InterruptOp(o)
    BY <1>2, <2>4 DEF InterruptOp, history, StillThere, RemovalsAreKept
  <2> QED BY <1>2, <2>1, <2>2, <2>3, <2>4
<1>3. CASE HearRemoval
  BY <1>3 DEF HearRemoval, HandleHint, WakeLoop, StillThere, RemovalsAreKept
<1>4. CASE HearFocus \/ Pause \/ FinishStartup
  BY <1>4 DEF HearFocus, Pause, FinishStartup, HandleHint, WakeLoop, Join, control, history,
              StillThere, RemovalsAreKept
<1>5. CASE TakeCycle \/ EnterCycle
  BY <1>5 DEF TakeCycle, EnterCycle, BeginPass, history, StillThere, RemovalsAreKept
<1>6. CASE ObserveFailed
  BY <1>6, EndCycleKeepsRemovals DEF ObserveFailed, Flags
<1>7. CASE Apply
  <2>1. PICK rerun \in {again, conflicts < MaxConflicts \/ again} :
          \/ EndCycle(FALSE, rerun)
          \/ \E moved \in BOOLEAN : EndPass(unsettled \/ moved, rerun)
    BY <1>7 DEF Apply
  <2>2. rerun \in BOOLEAN /\ stop' = stop /\ accepted' = accepted
    BY <1>7 DEF Apply, Flags
  <2> QED BY <2>1, <2>2, EndCycleKeepsRemovals, EndPassKeepsRemovals DEF Flags
<1>8. ASSUME NEW inventory \in {live, {}}, Observe(inventory) PROVE StillThere'
  <2>1. stop' = stop /\ accepted' = accepted
    BY <1>8 DEF Observe
  <2>2. CASE EndCycle(FALSE, again)
    BY <2>1, <2>2, EndCycleKeepsRemovals DEF Flags
  <2>3. CASE \E changed \in BOOLEAN : EndPass(changed, again)
    BY <2>1, <2>3, EndPassKeepsRemovals DEF Flags
  <2>4. CASE loop' = "applying" /\ UNCHANGED <<adopted, removals, batch>>
    BY <2>1, <2>4 DEF StillThere, RemovalsAreKept
  <2> QED BY <1>8, <2>2, <2>3, <2>4 DEF Observe, Flags
<1>9. CASE Stop \/ InterruptLoop \/ CloseScope \/ FinishStop \/ UNCHANGED vars
  BY <1>9 DEF Stop, InterruptLoop, CloseScope, FinishStop, history, vars, control,
              StillThere, RemovalsAreKept
<1> QED BY <1>1, <1>2, <1>3, <1>4, <1>5, <1>6, <1>7, <1>8, <1>9 DEF Next, Operate

\* A removal that was accepted is there for the next cycle until one that names it has
\* converged, whatever fails, conflicts or is asked meanwhile.
THEOREM NoRemovalIsLost == Spec => []RemovalsAreKept
<1>1. Init => StillThere
  BY DEF Init, StillThere, RemovalsAreKept
<1>2. StillThere => RemovalsAreKept
  BY DEF StillThere
<1> QED BY <1>1, <1>2, RemovalsKept, CycleInvariant, PTL DEF Spec

\* Of what the platform tells the engine between cycles nothing is lost or out of turn,
\* for any number of windows, operations, hints and passes.
THEOREM HintsSurvive == Spec => []HintsAreKept
<1>1. FocusExactlyOnce /\ RemovalsAreKept => HintsAreKept
  BY DEF HintsAreKept
<1> QED BY <1>1, FocusIsApplied, NoRemovalIsLost, PTL

\* Before start() has the gate.
Starting == op[Boot] \in {"idle", "queued"}

\* Whatever a cycle takes for closed has been reported closed; and before start() has
\* taken the gate the engine knows no window, no cycle runs and nobody has asked for
\* anything.
Reported ==
    /\ batch \cup removals \subseteq accepted
    /\ Starting =>
          /\ known = {} /\ ~ready /\ loop = "off"
          /\ \A o \in Ops \ {Boot} : op[o] = "idle"

LEMMA Boots == Boot \in Ops /\ Boot \in Exclusive
  BY CycleAssumption

\* Steps of start() and of commands.
LEMMA OperationReports ==
    ASSUME Reported, Coordinated, NEW o \in Ops,
           Begin(o) \/ EnterGate(o) \/ LeaveGate(o) \/ InterruptOp(o)
    PROVE  Reported'
<1>1. op \in [Ops -> {"idle"} \cup Waits \cup Results]
  BY DEF Coordinated, Types
<1>2. CASE Begin(o)
  <2>1. op[o] = "idle" /\ (o = Boot \/ ready)
    BY <1>2 DEF Begin
  <2>2. \A p \in Ops : p # o => op'[p] = op[p]
    BY <1>1, <1>2 DEF Begin, Join
  <2>3. UNCHANGED <<known, ready, batch, removals, accepted>>
    BY <1>2 DEF Begin
  <2>4. CASE o = Boot
    <3>1. loop' = loop
      BY <1>2, <2>4, Boots DEF Begin
    <3>2. Starting
      BY <2>1, <2>4 DEF Starting
    <3> QED BY <2>2, <2>3, <2>4, <3>1, <3>2 DEF Reported, Starting
  <2>5. CASE o # Boot
    <3>1. ready /\ op'[Boot] = op[Boot]
      BY <2>1, <2>2, <2>5, Boots
    <3> QED BY <2>3, <3>1 DEF Reported, Starting
  <2> QED BY <2>4, <2>5
<1>3. CASE EnterGate(o)
  <2>1. op[o] = "queued" /\ op' = [op EXCEPT ![o] = "inside"]
    BY <1>3 DEF EnterGate
  <2>2. UNCHANGED <<ready, loop, batch, removals, accepted>> /\ (o # Boot => known' = known)
    BY <1>3 DEF EnterGate, history
  <2> QED BY <1>1, <2>1, <2>2, Boots DEF Reported, Starting
<1>4. CASE LeaveGate(o)
  <2>1. op[o] = "inside" /\ UNCHANGED <<ready, batch, removals, accepted>>
    BY <1>4 DEF LeaveGate, history
  <2>2. \A p \in Ops : p # o => op'[p] = op[p]
    BY <1>1, <1>4 DEF LeaveGate, Join
  <2>3. op'[o] \in {"next", "skipped", "ok", "failed"}
    BY <1>1, <1>4 DEF LeaveGate, Join
  <2>4. ~Starting
    BY <2>1, Boots DEF Reported, Starting
  <2>5. op'[Boot] \notin {"idle", "queued"}
    BY <2>2, <2>3, <2>4, Boots DEF Starting
  <2> QED BY <2>1, <2>5 DEF Reported, Starting
<1>5. CASE InterruptOp(o)
  <2>1. op[o] # "idle" /\ op' = [op EXCEPT ![o] = "interrupted"]
    BY <1>5 DEF InterruptOp
  <2>2. UNCHANGED <<ready, loop, batch, removals, accepted>>
    BY <1>5 DEF InterruptOp, history
  <2>3. op[o] = "inside" \/ known' = known
    BY <1>5 DEF InterruptOp
  <2>4. op[o] = "inside" => ~Starting
    BY Boots DEF Reported, Starting
  <2> QED BY <1>1, <2>1, <2>2, <2>3, <2>4, Boots DEF Reported, Starting
<1> QED BY <1>2, <1>3, <1>4, <1>5

\* Steps of the lifecycle fiber.
LEMMA CycleReports ==
    ASSUME Reported, Coordinated,
           \/ TakeCycle \/ EnterCycle \/ ObserveFailed \/ Apply
           \/ \E inventory \in {live, {}} : Observe(inventory)
    PROVE  Reported'
<1>1. loop # "off"
  BY DEF TakeCycle, EnterCycle, ObserveFailed, Apply, Observe
<1>2. ~Starting
  BY <1>1 DEF Reported, Starting
<1>3. op'[Boot] \notin {"idle", "queued"}
  <2>1. \/ op' = op
        \/ op' = [p \in Ops |-> IF op[p] = "next" THEN "running" ELSE op[p]]
        \/ op' = [p \in Ops |-> IF op[p] # "running" THEN op[p] ELSE "ok"]
        \/ op' = [p \in Ops |-> IF op[p] # "running" THEN op[p] ELSE "failed"]
    BY DEF TakeCycle, EnterCycle, ObserveFailed, Apply, Observe, EndPass, EndCycle
  <2> QED BY <1>2, <2>1, Boots DEF Starting
<1>4. accepted' = accepted
  BY DEF TakeCycle, EnterCycle, ObserveFailed, Apply, Observe, history
<1>5. (batch' \cup removals') \subseteq (batch \cup removals)
  BY DEF TakeCycle, EnterCycle, ObserveFailed, Apply, Observe, EndPass, EndCycle
<1> QED BY <1>3, <1>4, <1>5 DEF Reported, Starting

LEMMA ReportedKept == Reported /\ Coordinated /\ [Next]_vars => Reported'
<1> SUFFICES ASSUME Reported, Coordinated, [Next]_vars PROVE Reported'
  OBVIOUS
<1>1. CASE UNCHANGED vars
  BY <1>1 DEF vars, control, history, Reported, Starting
<1>2. ASSUME NEW w \in Windows, Open(w) \/ Close(w) PROVE Reported'
  BY <1>2 DEF Open, Close, HandleHint, WakeLoop, control, history, Reported, Starting
<1>3. CASE HearRemoval
  <2>1. /\ (removals' \cup batch') \subseteq accepted'
        /\ UNCHANGED <<known, ready, op>>
    BY <1>3 DEF HearRemoval, Reported, Starting
  <2>2. ready \/ loop' = loop
    BY <1>3 DEF HearRemoval, HandleHint
  <2> QED BY <2>1, <2>2 DEF Reported, Starting
<1>4. CASE HearFocus
  BY <1>4 DEF HearFocus, HandleHint, WakeLoop, history, Reported, Starting
<1>5. CASE Pause \/ FinishStartup
  BY <1>5 DEF Pause, FinishStartup, history, Reported, Starting
<1>6. ASSUME NEW o \in Ops, Begin(o) \/ EnterGate(o) \/ LeaveGate(o) \/ InterruptOp(o)
      PROVE  Reported'
  BY <1>6, OperationReports
<1>7. CASE \/ TakeCycle \/ EnterCycle \/ ObserveFailed \/ Apply
           \/ \E inventory \in {live, {}} : Observe(inventory)
  BY <1>7, CycleReports
<1>8. CASE Stop \/ FinishStop
  BY <1>8 DEF Stop, FinishStop, history, Reported, Starting
<1>9. CASE InterruptLoop
  <2>1. op' = [o \in Ops |-> IF op[o] = "running" THEN "failed" ELSE op[o]]
    BY <1>9 DEF InterruptLoop
  <2>2. /\ loop' = "off" /\ batch' = {}
        /\ UNCHANGED <<known, ready, removals, accepted>>
    BY <1>9 DEF InterruptLoop, history
  <2> QED BY <2>1, <2>2, Boots DEF Reported, Starting
<1>10. CASE CloseScope
  <2>1. op' = [o \in Ops |-> IF op[o] = "next" THEN "failed" ELSE op[o]]
    BY <1>10 DEF CloseScope
  <2>2. UNCHANGED <<known, ready, loop, batch, removals, accepted>>
    BY <1>10 DEF CloseScope, history
  <2> QED BY <2>1, <2>2, Boots DEF Reported, Starting
<1> QED BY <1>1, <1>2, <1>3, <1>4, <1>5, <1>6, <1>7, <1>8, <1>9, <1>10 DEF Next, Operate

\* Who empties the known windows: an observation that believes it, a plan that forgets
\* the only one, a command that holds the gate.
Emptied ==
    \/ loop = "reading" /\ ~paused /\ known \subseteq accepted
    \/ loop = "applying" /\ \E w \in Windows : known = {w}
    \/ gate \in Ops

\* The engine knows windows only, since it reads them where they are.
Real == live \subseteq Windows /\ known \subseteq Windows

LEMMA RealKept == Real /\ [Next]_vars => Real'
<1> SUFFICES ASSUME Real, [Next]_vars PROVE Real'
  OBVIOUS
<1>1. ASSUME NEW w \in Windows, Open(w) \/ Close(w) PROVE Real'
  BY <1>1 DEF Open, Close, Real
<1>2. ASSUME NEW o \in Ops, Begin(o) \/ EnterGate(o) \/ LeaveGate(o) \/ InterruptOp(o)
      PROVE  Real'
  <2>1. CASE Begin(o)
    BY <2>1 DEF Begin, desktop, Real
  <2>2. CASE EnterGate(o)
    BY <2>2 DEF EnterGate, desktop, Real
  <2>3. CASE LeaveGate(o)
    <3>1. live' = live /\ (UNCHANGED known \/ CommitInventory \/ RefreshStale)
      BY <2>3 DEF LeaveGate, desktop
    <3> QED BY <3>1 DEF CommitInventory, RefreshStale, Real
  <2>4. CASE InterruptOp(o)
    <3>1. live' = live /\ (UNCHANGED known \/ CommitInventory)
      BY <2>4 DEF InterruptOp, desktop
    <3> QED BY <3>1 DEF CommitInventory, Real
  <2> QED BY <1>2, <2>1, <2>2, <2>3, <2>4
<1>3. CASE Apply
  <2>1. live' = live /\ (UNCHANGED known \/ RefreshStale)
    BY <1>3 DEF Apply, desktop
  <2> QED BY <2>1 DEF RefreshStale, Real
<1>4. ASSUME NEW inventory \in {live, {}}, Observe(inventory) PROVE Real'
  BY <1>4 DEF Observe, desktop, Real
<1>5. ASSUME \/ UNCHANGED vars \/ HearRemoval \/ HearFocus \/ Pause \/ FinishStartup
             \/ TakeCycle \/ EnterCycle \/ ObserveFailed
             \/ Stop \/ InterruptLoop \/ CloseScope \/ FinishStop
      PROVE  Real'
  BY <1>5 DEF vars, HearRemoval, HearFocus, Pause, FinishStartup, TakeCycle, EnterCycle,
              ObserveFailed, Stop, InterruptLoop, CloseScope, FinishStop, desktop, Real
<1> QED BY <1>1, <1>2, <1>3, <1>4, <1>5 DEF Next, Operate

\* What one step may do to the windows the engine knows.
LEMMA KnownMoves ==
    ASSUME Reported, Real, Coordinated, [Next]_vars, known # {}, known' = {}
    PROVE  Emptied
<1>1. ASSUME NEW inventory \in {live, {}}, Observe(inventory) PROVE Emptied
  <2>1. loop = "reading" /\ inventory = {} /\ ~Implausible(inventory)
    BY <1>1 DEF Observe
  <2>2. ~paused /\ known \subseteq PassRemovals
    BY <2>1 DEF Implausible
  <2> QED BY <2>1, <2>2 DEF PassRemovals, Reported, Starting, Emptied
<1>2. ASSUME NEW o \in Ops, Begin(o) \/ EnterGate(o) \/ LeaveGate(o) \/ InterruptOp(o)
      PROVE  Emptied
  <2>1. CASE EnterGate(o)
    <3>1. o # Boot
      BY <2>1 DEF EnterGate, Reported, Starting
    <3> QED BY <2>1, <3>1 DEF EnterGate
  <2>2. CASE Begin(o)
    BY <2>2 DEF Begin
  <2>3. CASE LeaveGate(o) \/ InterruptOp(o)
    <3>1. op[o] = "inside" \/ known' = known
      BY <2>3 DEF LeaveGate, InterruptOp
    <3> QED BY <3>1 DEF Coordinated, GateMatchesHolder, Emptied
  <2> QED BY <1>2, <2>1, <2>2, <2>3
<1>3. CASE Apply
  <2>1. loop = "applying" /\ RefreshStale
    BY <1>3 DEF Apply
  <2>2. PICK w \in known : known' = known \ {w}
    BY <2>1 DEF RefreshStale
  <2> QED BY <2>1, <2>2 DEF Real, Emptied
<1>4. ASSUME NEW w \in Windows, Open(w) \/ Close(w) PROVE known' = known
  BY <1>4 DEF Open, Close
<1>5. ASSUME \/ UNCHANGED vars \/ HearRemoval \/ HearFocus \/ Pause \/ FinishStartup
             \/ TakeCycle \/ EnterCycle \/ ObserveFailed
             \/ Stop \/ InterruptLoop \/ CloseScope \/ FinishStop
      PROVE  known' = known
  BY <1>5 DEF vars, HearRemoval, HearFocus, Pause, FinishStartup, TakeCycle, EnterCycle,
              ObserveFailed, Stop, InterruptLoop, CloseScope, FinishStop
<1> QED BY <1>1, <1>2, <1>3, <1>4, <1>5 DEF Next, Operate

\* A cycle does not believe an inventory that came back empty: what it observes empties
\* the known windows only when each was reported closed, and not while paused; otherwise
\* they are emptied only by a failing focus of the only one, or by a command under the
\* gate, whose inventory nobody questions.
THEOREM EmptyIsConfirmed == Spec => NoPhantomEmpty
<1>1. Init => Reported /\ Real
  BY Boots, CycleAssumption DEF Init, Reported, Starting, Real
<1>2. Reported /\ Real /\ Coordinated /\ [Next]_vars => [known # {} /\ known' = {} => Emptied]_vars
  BY KnownMoves
<1> QED BY <1>1, <1>2, ReportedKept, RealKept, CycleInvariant, PTL
        DEF Spec, NoPhantomEmpty, Emptied

-----------------------------------------------------------------------------
(* Configuration.  Startup comes first; a message is an open request's.    *)

Owned(m) ==
    /\ m.id <= past.asked
    /\ Awaited(m) => m.keys = Keys(call[m.by].candidate)

\* Requests have numbers of their own, an answer says what the sidecar did, and until
\* one is late each message is awaited.
Addressed ==
    /\ \A c \in Callers : call[c].id <= past.asked
    /\ \A i \in DOMAIN requests : Owned(requests[i])
    /\ \A i \in DOMAIN answers : Owned(answers[i]) /\ (answers[i].ok <=> answers[i].keys \notin Refused)
    /\ past.late = 0 => /\ \A i \in DOMAIN requests : Awaited(requests[i])
                        /\ \A i \in DOMAIN answers : Awaited(answers[i])

\* Until one is late no caller has two.
Unique ==
    past.late = 0 =>
        /\ \A i, j \in DOMAIN requests : requests[i].by = requests[j].by => i = j
        /\ \A i, j \in DOMAIN answers : answers[i].by = answers[j].by => i = j
        /\ \A i \in DOMAIN requests, j \in DOMAIN answers : requests[i].by # answers[j].by

\* The sidecar has what it last agreed to, or, if no such answer is on its way, what
\* the daemon last heard of.
Told ==
    past.late = 0 =>
        \/ bindings = commands /\ \A i \in DOMAIN answers : ~answers[i].ok
        \/ \E i \in DOMAIN answers :
              /\ answers[i].ok /\ bindings = answers[i].keys
              /\ \A j \in DOMAIN answers : j > i => ~answers[j].ok

\* Of a candidate under way, and of the configuration: what the sidecar may refuse is
\* what the file itself says.
Says(c, says) == \A s \in Settings : says[s] # Absent => c[s] = says[s]

Prepares ==
    /\ Keys(config) \notin Unbuildable \cup Refused
    /\ \A c \in Callers : Preparing(c) =>
          /\ call[c].read.kind = "valid"
          /\ Keys(call[c].candidate) \notin Unbuildable
          /\ Says(call[c].candidate, call[c].read.says)
          /\ Acceptable(call[c].read) <=> Keys(call[c].candidate) \notin Refused

\* Before the file is watched only startup runs.
Startup ==
    /\ watch.on <=> call["start"].at \in {"settling", "done"}
    /\ ~watch.on => /\ ~watch.timer /\ watch.events = 0
                    /\ \A c \in Callers \ {"start"} : call[c].at = "idle"
    /\ call["start"].at \in {"idle", "preparing"} => health = "healthy"
    /\ call["start"].at = "preparing" /\ ~past.missed => call["start"].read = file

Settled == IF Acceptable(file) THEN Says(config, file.says) /\ health = "healthy"
           ELSE refused

\* Who is up to date with the file, once nothing is left to notice.
UpToDate ==
    /\ ~past.raced => \A c, d \in Callers : Preparing(c) /\ Preparing(d) => c = d
    /\ Attended /\ ~watch.timer /\ watch.events = 0 /\ call["hotload"].at # "dead" =>
          /\ \A c \in Callers : Preparing(c) => call[c].read = file
          /\ (\A c \in Callers : ~Preparing(c)) => Settled

Runs == commands = Keys(config) \/ stopping

ConfigInv ==
    /\ ConfigTypeOK /\ Addressed /\ Unique /\ Told /\ Runs /\ Prepares /\ Startup /\ UpToDate

LEMMA KeysType == ASSUME NEW c \in Configs PROVE Keys(c) \in Tables
  BY ConfigAssumption DEF Keys, Configs, Settings

LEMMA ModeType == ASSUME NEW c \in Configs PROVE EffectiveMode(c) \in Modes
  BY ConfigAssumption DEF EffectiveMode, Configs, Settings, Modes

LEMMA DeltaType ==
    ASSUME NEW c \in Configs, NEW says \in Configs
    PROVE  ApplyConfigDelta(c, says) \in Configs
<1> DEFINE d == ApplyConfigDelta(c, says)
<1>1. d \in [Settings -> Tables \cup Modes \cup {Absent}]
  BY DEF ApplyConfigDelta, Configs
<1>2. \A s \in Settings : d[s] = c[s] \/ d[s] = says[s]
  BY DEF ApplyConfigDelta
<1>3. \A s \in {"keybinds", "mode", "defaults.mode"} : d[s] = c[s] \/ d[s] = says[s]
  BY <1>2 DEF Settings
<1> HIDE DEF d
<1>4. d \in Configs
  BY <1>1, <1>3 DEF Configs
<1> QED BY <1>4 DEF d

LEMMA CandidateType ==
    ASSUME ConfigTypeOK, NEW mode
    PROVE  Candidate(mode) \in Configs
  BY DeltaType DEF ConfigTypeOK, Candidate, Contents

\* A candidate says what the file says, and of the key bindings it is the file's table
\* or one that is in force.
LEMMA CandidateSays ==
    ASSUME ConfigTypeOK, Prepares, NEW mode
    PROVE  /\ Says(Candidate(mode), file.says)
           /\ Keys(Candidate(mode)) \in Unbuildable \cup Refused
              <=> file.says["keybinds"] \in Unbuildable \cup Refused
           /\ file.says["keybinds"] \in Unbuildable \cup Refused
              => Keys(Candidate(mode)) = file.says["keybinds"]
<1> DEFINE d == Candidate(mode)
<1>1. file.says \in Configs /\ config \in Configs
  BY DEF ConfigTypeOK, Contents
<1>2. Says(d, file.says)
  BY DEF Candidate, ApplyConfigDelta, Says
<1>3. d["keybinds"] = IF mode = "delta" /\ file.says["keybinds"] = Absent THEN config["keybinds"]
                      ELSE file.says["keybinds"]
  BY DEF Candidate, ApplyConfigDelta, Settings
<1>4. Absent \notin Unbuildable \cup Refused /\ NoKeys \notin Unbuildable \cup Refused
  BY ConfigAssumption
<1>5. Keys(config) \notin Unbuildable \cup Refused
  BY DEF Prepares
<1> HIDE DEF d
<1>6. /\ Keys(d) \in Unbuildable \cup Refused <=> file.says["keybinds"] \in Unbuildable \cup Refused
      /\ file.says["keybinds"] \in Unbuildable \cup Refused => Keys(d) = file.says["keybinds"]
  BY <1>3, <1>4, <1>5 DEF Keys
<1> QED BY <1>2, <1>6 DEF d

Past == [edits : Nat, asked : Nat, late : Nat, raced : BOOLEAN, missed : BOOLEAN]
Watch == [on : BOOLEAN, timer : BOOLEAN, events : Nat]
Message == [by : Callers, id : Nat, keys : Tables]
Reply == [by : Callers, id : Nat, keys : Tables, ok : BOOLEAN]
CallRecord == [at : {"idle", "preparing", "settling", "done", "dead"},
               read : Contents, candidate : Configs, id : Nat]

\* Every step changes the call of one caller at most.
LEMMA LoadType ==
    ASSUME ConfigTypeOK, NEW c \in Callers, NEW mode, Load(c, mode)
    PROVE  /\ call' \in [Callers -> CallRecord] /\ requests' \in Seq(Message)
           /\ stopping' \in BOOLEAN /\ health' \in {"healthy", "degraded"}
           /\ refused' \in BOOLEAN
           /\ past' \in Past
<1>1. /\ call \in [Callers -> CallRecord] /\ requests \in Seq(Message) /\ stopping \in BOOLEAN
      /\ health \in {"healthy", "degraded"} /\ refused \in BOOLEAN
      /\ past \in Past
  BY DEF ConfigTypeOK, CallRecord, Message, Past
<1>2. past' \in Past
  <2> DEFINE r == \E d \in Callers : Preparing(d)
             n == IF requests' = requests THEN past.asked ELSE past.asked + 1
  <2>1. past' = [past EXCEPT !.raced = past.raced \/ r, !.asked = n]
    BY DEF Load
  <2>2. n \in Nat /\ (past.raced \/ r) \in BOOLEAN
    BY <1>1 DEF Past
  <2> HIDE DEF r, n
  <2> QED BY <1>1, <2>1, <2>2 DEF Past
<1>3. CASE call' = [call EXCEPT ![c].at = AfterDefect(c)] /\ UNCHANGED <<health, refused, requests>>
           /\ stopping' = (stopping \/ c = "start")
  BY <1>1, <1>2, <1>3 DEF AfterDefect, CallRecord
<1>4. CASE Reject(c) /\ UNCHANGED <<requests, stopping>>
  BY <1>1, <1>2, <1>4 DEF Reject, AfterFailure, CallRecord
<1>5. CASE Ask(c, Candidate(mode)) /\ UNCHANGED <<health, refused, stopping>>
  <2>1. /\ Candidate(mode) \in Configs /\ Keys(Candidate(mode)) \in Tables /\ file \in Contents
        /\ past.asked + 1 \in Nat
    BY <1>1, CandidateType, KeysType DEF ConfigTypeOK, Past
  <2>2. [at |-> "preparing", read |-> file, candidate |-> Candidate(mode), id |-> past.asked + 1] \in CallRecord
    BY <1>1, <2>1 DEF CallRecord
  <2>3. [by |-> c, id |-> past.asked + 1, keys |-> Keys(Candidate(mode))] \in Message
    BY <1>1, <2>1 DEF Message
  <2>4. requests' \in Seq(Message)
    BY <1>1, <1>5, <2>3, AppendProperties DEF Ask
  <2>5. call' \in [Callers -> CallRecord]
    BY <1>1, <1>5, <2>2 DEF Ask
  <2> QED BY <1>1, <1>2, <1>5, <2>4, <2>5
<1> QED BY <1>3, <1>4, <1>5 DEF Load

LEMMA ConfigTypeKept ==
    ASSUME ConfigTypeOK, [ConfigNext]_configVars
    PROVE  ConfigTypeOK'
<1> USE DEF ConfigTypeOK
<1>0. watch \in Watch /\ past \in Past
  BY DEF Watch, Past
<1>1. CASE Start
  <2>1. "start" \in Callers /\ Load("start", "full")
    BY <1>1 DEF Callers, Start
  <2>2. watch' \in Watch
    BY <1>0, <1>1 DEF Start, WatchAfter, Watch
  <2> QED BY <2>1, <2>2, LoadType DEF Load, Message, CallRecord, Watch, Past
<1>2. CASE Hotload
  <2>1. "hotload" \in Callers /\ Load("hotload", "delta")
    BY <1>2 DEF Callers, Hotload
  <2>2. watch' \in Watch
    <3>1. watch.events - 1 \in Nat
      BY <1>0, <1>2 DEF Hotload, Watch
    <3>2. watch' = [watch EXCEPT !.events = watch.events - 1]
      BY <1>2 DEF Hotload
    <3> QED BY <1>0, <3>1, <3>2 DEF Watch
  <2> QED BY <2>1, <2>2, LoadType DEF Load, Message, CallRecord, Watch, Past
<1>3. ASSUME NEW c \in Reloads, NEW mode \in {"delta", "full"}, Reload(c, mode)
      PROVE  ConfigTypeOK'
  <2>1. c \in Callers /\ Load(c, mode) /\ UNCHANGED watch
    BY <1>3 DEF Callers, Reload
  <2> QED BY <2>1, LoadType DEF Load, Message, CallRecord, Watch, Past
<1>4. CASE Configure
  <2>1. /\ Head(requests) \in Message /\ Tail(requests) \in Seq(Message)
        /\ answers \in Seq(Reply)
    BY <1>4, HeadTailProperties DEF Configure, Message, Reply
  <2> DEFINE request == Head(requests)
             reply == [by |-> request.by, id |-> request.id, keys |-> request.keys,
                       ok |-> request.keys \notin Refused]
  <2>2. reply \in Reply /\ request.keys \in Tables
    BY <2>1 DEF Message, Reply
  <2>3. answers' = Append(answers, reply) /\ bindings' \in {bindings, request.keys}
    BY <1>4 DEF Configure
  <2>4. answers' \in Seq(Reply)
    BY <2>1, <2>2, <2>3, AppendProperties
  <2> QED BY <1>4, <2>1, <2>2, <2>3, <2>4 DEF Configure, Message, Reply
<1>5. CASE HearAnswer
  <2>1. Head(answers) \in Reply /\ Tail(answers) \in Seq(Reply)
    BY <1>5, HeadTailProperties DEF HearAnswer, Reply
  <2>2. watch' \in Watch /\ answers' \in Seq(Reply)
    BY <1>5, <2>1 DEF HearAnswer, WatchAfter, Watch
  <2>3. /\ call \in [Callers -> CallRecord]
        /\ Head(answers).by \in Callers
    BY <2>1 DEF Reply, CallRecord
  <2>4. /\ call' \in [Callers -> CallRecord] /\ config' \in Configs /\ runtimeMode' \in Modes
        /\ health' \in {"healthy", "degraded"} /\ refused' \in BOOLEAN
        /\ commands' \in Tables /\ nativeReady' \in BOOLEAN
    <3>0. PICK c \in Callers :
            \/ CommitConfig(c)
            \/ Reject(c) /\ UNCHANGED <<config, runtimeMode, commands, nativeReady>>
            \/ UNCHANGED <<config, runtimeMode, health, refused, commands, nativeReady, call>>
      BY <1>5, <2>3, Zenon DEF HearAnswer
    <3>1. CASE CommitConfig(c)
      <4>1. call[c].candidate \in Configs /\ Keys(call[c].candidate) \in Tables
            /\ EffectiveMode(call[c].candidate) \in Modes
        BY <2>3, KeysType, ModeType DEF CallRecord
      <4>2. call' = [call EXCEPT ![c].at = "done"] \/ call' = [call EXCEPT ![c].at = AfterCommit(c)]
        BY <3>1 DEF CommitConfig
      <4>3. call' \in [Callers -> CallRecord]
        <5>1. AfterCommit(c) \in {"idle", "settling"}
          BY DEF AfterCommit
        <5>2. PICK at \in {"idle", "settling", "done"} : call' = [call EXCEPT ![c].at = at]
          BY <4>2, <5>1
        <5> QED BY <2>3, <5>2 DEF CallRecord
      <4> QED BY <3>1, <4>1, <4>3 DEF CommitConfig, Prepared, SyncConfiguredWorkspaces
    <3>2. CASE Reject(c) /\ UNCHANGED <<config, runtimeMode, commands, nativeReady>>
      <4>1. AfterFailure(c) \in {"settling", "idle", "done"}
        BY DEF AfterFailure
      <4>2. call' \in [Callers -> CallRecord]
        BY <2>3, <3>2, <4>1 DEF Reject, CallRecord
      <4>3. health' \in {"healthy", "degraded"} /\ refused' \in BOOLEAN
        BY <3>2 DEF Reject
      <4> QED BY <3>2, <4>2, <4>3
    <3>3. CASE UNCHANGED <<config, runtimeMode, health, refused, commands, nativeReady, call>>
      BY <2>3, <3>3
    <3> QED BY <3>0, <3>1, <3>2, <3>3
  <2> QED BY <1>5, <2>2, <2>4 DEF HearAnswer, Message, Reply, CallRecord, Watch
<1>6. ASSUME NEW c \in Callers, Timeout(c)
      PROVE  ConfigTypeOK'
  <2>1. call' \in [Callers -> CallRecord]
    <3>1. call \in [Callers -> CallRecord] /\ call' = [call EXCEPT ![c].at = AfterFailure(c)]
      BY <1>6 DEF Timeout, Reject, CallRecord
    <3>2. AfterFailure(c) \in {"settling", "idle", "done"}
      BY DEF AfterFailure
    <3> QED BY <3>1, <3>2 DEF CallRecord
  <2>2. watch' \in Watch
    BY <1>0, <1>6 DEF Timeout, WatchAfter, Watch
  <2>3. past' \in Past
    <3>1. past.late + 1 \in Nat /\ past' = [past EXCEPT !.late = past.late + 1]
      BY <1>0, <1>6 DEF Timeout, Past
    <3> QED BY <1>0, <3>1 DEF Past
  <2> QED BY <1>6, <2>1, <2>2, <2>3 DEF Timeout, Reject, CallRecord, Watch, Past
<1>7. ASSUME NEW c \in Callers, EndCall(c)
      PROVE  ConfigTypeOK'
  <2>1. call' \in [Callers -> CallRecord]
    BY <1>7 DEF EndCall, CallRecord
  <2> QED BY <1>7, <2>1 DEF EndCall, CallRecord
<1>8. ASSUME NEW content \in Files, Edit(content)
      PROVE  ConfigTypeOK'
  <2>1. content \in Contents
    BY ConfigAssumption
  <2>2. watch' \in Watch
    BY <1>0, <1>8 DEF Edit, Watch
  <2>3. past' \in Past
    <3> DEFINE m == past.missed \/ (~watch.on /\ Preparing("start"))
    <3>1. past.edits + 1 \in Nat /\ m \in BOOLEAN
      BY <1>0 DEF Past
    <3>2. past' = [past EXCEPT !.edits = past.edits + 1, !.missed = m]
      BY <1>8 DEF Edit
    <3> HIDE DEF m
    <3> QED BY <1>0, <3>1, <3>2 DEF Past
  <2> QED BY <1>8, <2>1, <2>2, <2>3 DEF Edit, Watch, Past
<1>9. CASE Debounced
  <2>1. watch' = [watch EXCEPT !.events = watch.events + 1, !.timer = FALSE]
    BY <1>9 DEF Debounced
  <2>2. watch.events + 1 \in Nat
    BY <1>0 DEF Watch
  <2>3. watch' \in Watch
    BY <1>0, <2>1, <2>2 DEF Watch
  <2> QED BY <1>9, <2>3 DEF Debounced, Watch
<1>10. ASSUME NEW mode \in Modes, ChangeMode(mode)
       PROVE  ConfigTypeOK'
  BY <1>10 DEF ChangeMode
<1>11. CASE StopEngine \/ CycleConverges \/ UNCHANGED configVars
  BY <1>11 DEF StopEngine, CycleConverges, configVars
<1> QED BY <1>1, <1>2, <1>3, <1>4, <1>5, <1>6, <1>7, <1>8, <1>9, <1>10, <1>11
        DEF ConfigNext

-----------------------------------------------------------------------------
(* Messages.                                                               *)

\* A caller that reads the file gets a new number, or none.
LEMMA LoadAddresses ==
    ASSUME ConfigTypeOK, Addressed, Unique, Told, NEW c \in Callers, NEW mode, Load(c, mode),
           call[c].at = "idle"
    PROVE  Addressed' /\ Unique' /\ Told'
<1>1. /\ call \in [Callers -> CallRecord] /\ requests \in Seq(Message) /\ past \in Past
      /\ answers \in Seq(Reply)
  BY DEF ConfigTypeOK, CallRecord, Message, Reply, Past
<1>2. /\ UNCHANGED <<answers, commands, bindings>> /\ past'.late = past.late
      /\ past'.asked = IF requests' = requests THEN past.asked ELSE past.asked + 1
  BY <1>1 DEF Load, Past
<1>3. Told'
  BY <1>2 DEF Told
<1>4. ASSUME NEW m, Awaited(m) PROVE m.by # c
  BY <1>4 DEF Awaited, Preparing
<1>5. CASE requests' = requests /\ \E at \in {"idle", "settling", "done", "dead"} :
                                      call' = [call EXCEPT ![c].at = at]
  <2>2. /\ \A i \in DOMAIN requests : requests[i].by \in Callers
        /\ \A i \in DOMAIN answers : answers[i].by \in Callers
    <3>1. /\ \A i \in DOMAIN requests : requests[i] \in Message
          /\ \A i \in DOMAIN answers : answers[i] \in Reply
      BY <1>1
    <3> QED BY <3>1 DEF Message, Reply
  <2>3. \A d \in Callers : (Preparing(d)' <=> Preparing(d)) /\ call'[d].id = call[d].id
                           /\ call'[d].candidate = call[d].candidate
    BY <1>1, <1>5 DEF Preparing, CallRecord
  <2>4. Addressed'
    BY <1>2, <1>5, <2>2, <2>3 DEF Addressed, Owned, Awaited
  <2>5. Unique'
    BY <1>2, <1>5 DEF Unique
  <2> QED BY <1>3, <2>4, <2>5
<1>6. CASE Ask(c, Candidate(mode))
  <2> DEFINE n == past.asked + 1
             new == [by |-> c, id |-> n, keys |-> Keys(Candidate(mode))]
  <2>1. Candidate(mode) \in Configs /\ Keys(Candidate(mode)) \in Tables /\ n \in Nat
    BY <1>1, CandidateType, KeysType DEF Past
  <2>2. new \in Message
    BY <2>1 DEF Message
  <2>3. /\ requests' = Append(requests, new)
        /\ call' = [call EXCEPT ![c] = [at |-> "preparing", read |-> file,
                                        candidate |-> Candidate(mode), id |-> n]]
    BY <1>6 DEF Ask
  <2> HIDE DEF new, n
  <2>4. /\ Len(requests') = Len(requests) + 1 /\ requests'[Len(requests) + 1] = new
        /\ \A i \in 1 .. Len(requests) : requests'[i] = requests[i]
        /\ requests' \in Seq(Message)
    BY <1>1, <2>2, <2>3, AppendProperties
  <2>5. past'.asked = n
    BY <1>2, <1>1, <2>4 DEF n
  <2>6. ASSUME NEW m \in Message \cup Reply, Owned(m)
        PROVE  Owned(m)' /\ (Awaited(m) => Awaited(m)')
    <3>1. m.by \in Callers /\ m.id \in Nat
      BY DEF Message, Reply
    <3>2. m.id <= past.asked /\ past.asked < n /\ n \in Nat /\ past.asked \in Nat
      BY <1>1, <2>1, <2>6 DEF Owned, n, Past
    <3>3. m.by = c => ~Awaited(m)'
      BY <1>1, <2>1, <2>3, <3>1, <3>2 DEF Awaited
    <3>4. m.by # c => (Awaited(m)' <=> Awaited(m)) /\ call'[m.by] = call[m.by]
      BY <1>1, <2>3, <3>1 DEF Awaited, Preparing
    <3>5. m.id <= past'.asked
      BY <2>5, <3>1, <3>2
    <3>6. Owned(m)'
      BY <2>6, <3>3, <3>4, <3>5 DEF Owned
    <3> QED BY <1>4, <3>4, <3>6
  <2>7. ASSUME NEW m \in Message, m = new
        PROVE  Owned(m)' /\ Awaited(m)'
    BY <1>1, <2>1, <2>3, <2>5, <2>7 DEF Owned, Awaited, Preparing, new
  <2>8. \A d \in Callers : call'[d].id <= past'.asked
    BY <1>1, <2>1, <2>3, <2>5 DEF Addressed, n, Past, CallRecord
  <2>9. ASSUME NEW i \in DOMAIN requests'
        PROVE  Owned(requests[i])' /\ (past'.late = 0 => Awaited(requests[i])')
    <3>1. PICK m \in Message : m = requests'[i]
      BY <2>4
    <3>2. m = new \/ \E j \in DOMAIN requests : m = requests[j]
      BY <1>1, <2>4, <3>1
    <3>3. Owned(m)' /\ (past'.late = 0 => Awaited(m)')
      BY <1>2, <2>6, <2>7, <3>2 DEF Addressed
    <3> QED BY <3>1, <3>3 DEF Owned, Awaited
  <2>10. ASSUME NEW i \in DOMAIN answers
         PROVE  Owned(answers[i])' /\ (past'.late = 0 => Awaited(answers[i])')
    <3>1. PICK m \in Reply : m = answers[i]
      BY <1>1
    <3>2. Owned(m)' /\ (past'.late = 0 => Awaited(m)')
      BY <1>2, <2>6, <3>1 DEF Addressed
    <3> QED BY <1>2, <3>1, <3>2 DEF Owned, Awaited
  <2>11. Addressed'
    BY <1>2, <2>8, <2>9, <2>10 DEF Addressed
  <2>12. Unique'
    <3> SUFFICES ASSUME past'.late = 0 PROVE Unique'
      BY DEF Unique
    <3>1. /\ \A i \in DOMAIN requests : requests[i].by # c
          /\ \A i \in DOMAIN answers : answers[i].by # c
      BY <1>2, <1>4 DEF Addressed
    <3>2. new.by = c
      BY DEF new
    <3>3. DOMAIN requests = 1 .. Len(requests) /\ DOMAIN requests' = 1 .. Len(requests) + 1
          /\ Len(requests) \in Nat
      BY <1>1, <2>4
    <3> QED BY <1>2, <2>4, <3>1, <3>2, <3>3 DEF Unique
  <2> QED BY <1>3, <2>11, <2>12
<1> QED BY <1>3, <1>5, <1>6 DEF Load, Reject, AfterFailure, AfterDefect

\* The sidecar takes a request and says what it did of it.
LEMMA ConfigureAddresses ==
    ASSUME ConfigTypeOK, Addressed, Unique, Told, Configure
    PROVE  Addressed' /\ Unique' /\ Told'
<1>1. /\ requests \in Seq(Message) /\ answers \in Seq(Reply) /\ requests # <<>>
  BY DEF ConfigTypeOK, Message, Reply, Configure
<1> DEFINE request == Head(requests)
           ok == request.keys \notin Refused
<1>2. PICK reply \in Reply :
          /\ reply.by = request.by /\ reply.id = request.id /\ reply.keys = request.keys
          /\ reply.ok = ok /\ answers' = Append(answers, reply)
  <2>1. request \in Message
    BY <1>1, HeadTailProperties
  <2> DEFINE r == [by |-> request.by, id |-> request.id, keys |-> request.keys, ok |-> ok]
  <2>2. r \in Reply
    BY <2>1 DEF Message, Reply
  <2>3. answers' = Append(answers, r)
    BY DEF Configure
  <2> QED BY <2>2, <2>3
<1>3. /\ requests' = Tail(requests) /\ bindings' = (IF ok THEN request.keys ELSE bindings)
      /\ UNCHANGED <<commands, call, past>>
  BY DEF Configure
<1>4. /\ Len(answers') = Len(answers) + 1 /\ answers'[Len(answers) + 1] = reply
      /\ \A i \in 1 .. Len(answers) : answers'[i] = answers[i]
      /\ answers' \in Seq(Reply)
  BY <1>1, <1>2, AppendProperties
<1>5. /\ Tail(requests) \in Seq(Message) /\ Len(Tail(requests)) = Len(requests) - 1
      /\ \A i \in 1 .. Len(Tail(requests)) : Tail(requests)[i] = requests[i + 1]
      /\ request = requests[1] /\ Len(requests) \in Nat \ {0}
  BY <1>1, HeadTailProperties
<1> HIDE DEF request, ok
<1>6. Owned(request) /\ (past.late = 0 => Awaited(request))
  BY <1>5 DEF Addressed
<1>7. \A i \in DOMAIN requests' : \E j \in DOMAIN requests : requests'[i] = requests[j]
  BY <1>3, <1>5
<1>8. \A i \in DOMAIN requests' : Owned(requests[i])' /\ (past'.late = 0 => Awaited(requests[i])')
  BY <1>3, <1>7 DEF Addressed, Owned, Awaited, Preparing
<1>9. Owned(reply) /\ (past.late = 0 => Awaited(reply)) /\ (reply.ok <=> reply.keys \notin Refused)
  BY <1>2, <1>6 DEF Owned, Awaited, ok
<1>10. \A i \in DOMAIN answers' : answers'[i] = reply \/ \E j \in DOMAIN answers : answers'[i] = answers[j]
  BY <1>1, <1>4
<1>11. \A i \in DOMAIN answers' : /\ Owned(answers[i])' /\ (past'.late = 0 => Awaited(answers[i])')
                                  /\ answers'[i].ok <=> answers'[i].keys \notin Refused
  BY <1>3, <1>9, <1>10 DEF Addressed, Owned, Awaited, Preparing
<1>12. Addressed'
  BY <1>3, <1>8, <1>11 DEF Addressed
<1>13. Told'
  <2>1. Len(answers) + 1 \in DOMAIN answers' /\ DOMAIN answers' = 1 .. Len(answers) + 1
        /\ Len(answers) \in Nat /\ DOMAIN answers = 1 .. Len(answers)
    BY <1>1, <1>4
  <2>2. CASE ok
    <3>1. reply.ok /\ bindings' = reply.keys /\ answers'[Len(answers) + 1] = reply
      BY <1>2, <1>3, <1>4, <2>2
    <3>2. \A j \in DOMAIN answers' : ~(j > Len(answers) + 1)
      BY <2>1
    <3> QED BY <2>1, <3>1, <3>2 DEF Told
  <2>3. CASE ~ok
    <3>1. ~reply.ok /\ bindings' = bindings /\ commands' = commands /\ past' = past
      BY <1>2, <1>3, <2>3
    <3>2. CASE bindings = commands /\ \A i \in DOMAIN answers : ~answers[i].ok
      BY <1>4, <2>1, <3>1, <3>2 DEF Told
    <3>3. ASSUME NEW i \in DOMAIN answers, answers[i].ok, bindings = answers[i].keys,
                 \A j \in DOMAIN answers : j > i => ~answers[j].ok
          PROVE  Told'
      <4>1. i \in DOMAIN answers' /\ answers'[i] = answers[i]
        BY <1>4, <2>1
      <4>2. \A j \in DOMAIN answers' : j > i => ~answers'[j].ok
        BY <1>4, <2>1, <3>1, <3>3
      <4> QED BY <3>1, <3>3, <4>1, <4>2 DEF Told
    <3>4. CASE past.late # 0
      BY <3>1, <3>4 DEF Told
    <3> QED BY <3>2, <3>3, <3>4 DEF Told
  <2> QED BY <2>2, <2>3
<1>14. Unique'
  <2> SUFFICES ASSUME past'.late = 0 PROVE Unique'
    BY DEF Unique
  <2>1. /\ DOMAIN requests = 1 .. Len(requests) /\ DOMAIN requests' = 1 .. Len(requests) - 1
        /\ DOMAIN answers = 1 .. Len(answers) /\ DOMAIN answers' = 1 .. Len(answers) + 1
        /\ Len(answers) \in Nat
        /\ \A i \in DOMAIN requests' : requests'[i] = requests[i + 1]
        /\ reply.by = requests[1].by /\ past'.late = past.late
    BY <1>1, <1>2, <1>3, <1>4, <1>5
  <2>2. \A i, j \in DOMAIN requests' : requests'[i].by = requests'[j].by => i = j
    BY <1>5, <2>1 DEF Unique
  <2>3. \A i \in DOMAIN answers : reply.by # answers[i].by
    BY <1>5, <2>1 DEF Unique
  <2>4. \A i, j \in DOMAIN answers' : answers'[i].by = answers'[j].by => i = j
    BY <1>4, <2>1, <2>3 DEF Unique
  <2>5. ASSUME NEW i \in DOMAIN requests', NEW j \in DOMAIN answers'
        PROVE  requests'[i].by # answers'[j].by
    <3>1. i + 1 \in DOMAIN requests /\ 1 \in DOMAIN requests /\ i + 1 # 1
      BY <1>5, <2>1
    <3>2. requests[i + 1].by # requests[1].by
      BY <2>1, <3>1 DEF Unique
    <3>3. CASE j \in DOMAIN answers
      BY <1>4, <2>1, <3>1, <3>3 DEF Unique
    <3>4. CASE j = Len(answers) + 1
      BY <1>4, <2>1, <3>2, <3>4
    <3> QED BY <2>1, <3>3, <3>4
  <2> QED BY <2>2, <2>4, <2>5 DEF Unique
<1> QED BY <1>12, <1>13, <1>14

\* A caller that waited has its answer, or has given up.
LEMMA CallEnds ==
    ASSUME ConfigTypeOK, Addressed, Unique, NEW c \in Callers,
           NEW at \in {"idle", "settling", "done"}, call' = [call EXCEPT ![c].at = at],
           UNCHANGED requests, past'.asked = past.asked,
           \/ /\ past'.late = past.late /\ answers # <<>> /\ answers' = Tail(answers)
              /\ c = Head(answers).by
           \/ past'.late # 0 /\ answers' = answers
    PROVE  Addressed' /\ Unique'
<1>1. /\ call \in [Callers -> CallRecord] /\ requests \in Seq(Message) /\ answers \in Seq(Reply)
  BY DEF ConfigTypeOK, CallRecord, Message, Reply
<1>2. \A d \in Callers : /\ Preparing(d)' => Preparing(d)
                         /\ d # c => (Preparing(d)' <=> Preparing(d))
                         /\ call'[d].id = call[d].id /\ call'[d].candidate = call[d].candidate
  BY <1>1 DEF Preparing, CallRecord
<1>3. /\ \A i \in DOMAIN requests : requests[i].by \in Callers
      /\ \A i \in DOMAIN answers : answers[i].by \in Callers
  <2>1. /\ \A i \in DOMAIN requests : requests[i] \in Message
        /\ \A i \in DOMAIN answers : answers[i] \in Reply
    BY <1>1
  <2> QED BY <2>1 DEF Message, Reply
<1>4. CASE past'.late # 0 /\ answers' = answers
  BY <1>2, <1>3, <1>4 DEF Addressed, Unique, Owned, Awaited
<1>5. CASE /\ past'.late = past.late /\ answers # <<>> /\ answers' = Tail(answers)
           /\ c = Head(answers).by
  <2>1. /\ DOMAIN answers' = 1 .. Len(answers) - 1 /\ DOMAIN answers = 1 .. Len(answers)
        /\ Len(answers) \in Nat \ {0} /\ c = answers[1].by
        /\ \A i \in DOMAIN answers' : answers'[i] = answers[i + 1]
    BY <1>1, <1>5, HeadTailProperties
  <2>2. \A i \in DOMAIN answers' : i + 1 \in DOMAIN answers /\ 1 \in DOMAIN answers /\ i + 1 # 1
    BY <2>1
  <2>3. past.late = 0 => /\ \A i \in DOMAIN answers' : answers'[i].by # c
                         /\ \A i \in DOMAIN requests : requests[i].by # c
    BY <2>1, <2>2 DEF Unique
  <2>4. Unique'
    BY <1>5, <2>1, <2>2 DEF Unique
  <2>5. ASSUME NEW i \in DOMAIN answers'
        PROVE  /\ Owned(answers[i])' /\ (answers'[i].ok <=> answers'[i].keys \notin Refused)
               /\ past'.late = 0 => Awaited(answers[i])'
    <3>1. PICK m : m = answers[i + 1]
      OBVIOUS
    <3>2. answers'[i] = m /\ m.by \in Callers /\ (past.late = 0 => m.by # c)
      BY <1>3, <2>1, <2>2, <2>3, <3>1
    <3>3. /\ Owned(m) /\ (m.ok <=> m.keys \notin Refused)
          /\ past.late = 0 => Awaited(m)
      BY <2>2, <3>1 DEF Addressed
    <3>4. Owned(m)' /\ (past'.late = 0 => Awaited(m)')
      BY <1>2, <1>5, <3>2, <3>3 DEF Owned, Awaited
    <3> QED BY <3>2, <3>3, <3>4 DEF Owned, Awaited
  <2>6. \A i \in DOMAIN requests :
            Owned(requests[i])' /\ (past'.late = 0 => Awaited(requests[i])')
    BY <1>2, <1>3, <1>5, <2>3 DEF Addressed, Owned, Awaited
  <2>7. \A d \in Callers : call'[d].id <= past'.asked
    BY <1>2 DEF Addressed
  <2> QED BY <2>4, <2>5, <2>6, <2>7 DEF Addressed
<1> QED BY <1>4, <1>5
\* What the daemon hears is what the sidecar last did.
LEMMA HearTells ==
    ASSUME ConfigTypeOK, Addressed, Told, HearAnswer
    PROVE  Told'
<1>1. /\ answers \in Seq(Reply) /\ answers # <<>> /\ answers' = Tail(answers)
      /\ UNCHANGED <<bindings, past>>
  BY DEF ConfigTypeOK, Reply, HearAnswer
<1>2. /\ DOMAIN answers' = 1 .. Len(answers) - 1 /\ DOMAIN answers = 1 .. Len(answers)
      /\ Len(answers) \in Nat \ {0} /\ Head(answers) = answers[1]
      /\ \A i \in DOMAIN answers' : answers'[i] = answers[i + 1]
  BY <1>1, HeadTailProperties
<1>3. \A i \in DOMAIN answers' : i + 1 \in DOMAIN answers /\ 1 \in DOMAIN answers
  BY <1>2
<1> SUFFICES ASSUME past.late = 0 PROVE Told'
  BY <1>1 DEF Told
<1>4. PICK answer : answer = answers[1]
  OBVIOUS
<1>5. Awaited(answer) /\ Owned(answer)
  BY <1>2, <1>4 DEF Addressed
<1>6. ASSUME NEW i \in DOMAIN answers, i # 1, answers[i].ok, bindings = answers[i].keys,
             \A j \in DOMAIN answers : j > i => ~answers[j].ok
      PROVE  Told'
  <2>1. i - 1 \in DOMAIN answers' /\ (i - 1) + 1 = i
    BY <1>2, <1>6
  <2>2. answers'[i - 1] = answers[i]
    BY <1>2, <2>1
  <2>3. \A j \in DOMAIN answers' : j > i - 1 => ~answers'[j].ok
    <3> SUFFICES ASSUME NEW j \in DOMAIN answers', j > i - 1 PROVE ~answers'[j].ok
      OBVIOUS
    <3>1. j + 1 \in DOMAIN answers /\ j + 1 > i
      BY <1>2, <1>3
    <3> QED BY <1>2, <1>6, <3>1
  <2> QED BY <1>1, <1>6, <2>1, <2>2, <2>3 DEF Told
<1>7. CASE answer.ok
  <2>1. CommitConfig(answer.by)
    BY <1>2, <1>4, <1>5, <1>7 DEF HearAnswer
  <2>2. commands' = answer.keys
    BY <1>5, <2>1 DEF CommitConfig, Prepared, Owned
  <2>3. PICK i \in DOMAIN answers : /\ answers[i].ok /\ bindings = answers[i].keys
                                    /\ \A j \in DOMAIN answers : j > i => ~answers[j].ok
    BY <1>2, <1>4, <1>7 DEF Told
  <2>4. CASE i = 1
    <3>1. \A j \in DOMAIN answers' : j + 1 > 1
      BY <1>2
    <3>2. \A j \in DOMAIN answers' : ~answers'[j].ok
      BY <1>2, <1>3, <2>3, <2>4, <3>1
    <3>3. bindings' = commands'
      BY <1>1, <1>4, <2>2, <2>3, <2>4
    <3> QED BY <3>2, <3>3 DEF Told
  <2> QED BY <1>6, <2>3, <2>4
<1>8. CASE ~answer.ok
  <2>1. commands' = commands
    BY <1>2, <1>4, <1>5, <1>8 DEF HearAnswer
  <2>2. CASE bindings = commands /\ \A i \in DOMAIN answers : ~answers[i].ok
    BY <1>1, <1>2, <1>3, <2>1, <2>2 DEF Told
  <2>3. ASSUME NEW i \in DOMAIN answers, answers[i].ok, bindings = answers[i].keys,
               \A j \in DOMAIN answers : j > i => ~answers[j].ok
        PROVE  Told'
    <3>1. i # 1
      BY <1>4, <1>8, <2>3
    <3> QED BY <1>6, <2>3, <3>1
  <2> QED BY <2>2, <2>3 DEF Told
<1> QED BY <1>7, <1>8

-----------------------------------------------------------------------------
(* What is in force, and who has read the file.                            *)

\* A caller that reads the file asks for what it says, or says that it cannot be had.
LEMMA LoadSettles ==
    ASSUME ConfigTypeOK, Prepares, UpToDate, NEW c \in Callers, NEW mode, Load(c, mode),
           call[c].at = "idle", c \in Reloads => UNCHANGED watch
    PROVE  Prepares' /\ UpToDate'
<1>1. /\ call \in [Callers -> CallRecord] /\ past \in Past
      /\ UNCHANGED <<file, config>>
  BY DEF ConfigTypeOK, CallRecord, Past, Load
<1>2. /\ past'.late = past.late /\ past'.missed = past.missed
      /\ past'.raced = (past.raced \/ \E d \in Callers : Preparing(d))
      /\ stopping => stopping'
  <2> DEFINE r == \E d \in Callers : Preparing(d)
             n == IF requests' = requests THEN past.asked ELSE past.asked + 1
  <2>1. past' = [past EXCEPT !.raced = past.raced \/ r, !.asked = n]
    BY DEF Load
  <2>2. stopping => stopping'
    BY DEF Load
  <2> HIDE DEF r, n
  <2>3. /\ past'.late = past.late /\ past'.missed = past.missed
        /\ past'.raced = (past.raced \/ r)
    BY <1>1, <2>1 DEF Past
  <2> QED BY <2>2, <2>3 DEF r
<1>3. ASSUME NEW at \in {"idle", "settling", "done", "dead"}, call' = [call EXCEPT ![c].at = at]
      PROVE  /\ \A d \in Callers : (Preparing(d)' <=> Preparing(d))
             /\ \A d \in Callers \ {c} : call'[d] = call[d]
             /\ call'[c].at = at
  BY <1>1, <1>3 DEF Preparing, CallRecord
<1>4. ASSUME NEW at \in {"idle", "settling", "done", "dead"}, call' = [call EXCEPT ![c].at = at]
      PROVE  Prepares'
  <2>1. \A d \in Callers : Preparing(d)' => Preparing(d) /\ call'[d] = call[d]
    BY <1>3, <1>4 DEF Preparing
  <2> QED BY <1>1, <2>1 DEF Prepares, Says
<1>5. CASE /\ file.kind = "unreadable"
           /\ call' = [call EXCEPT ![c].at = AfterDefect(c)]
           /\ stopping' = (stopping \/ c = "start")
           /\ UNCHANGED <<health, refused, requests>>
  <2>1. PICK at \in {"done", "dead"} : /\ call' = [call EXCEPT ![c].at = at]
                                       /\ at = IF c \in Reloads THEN "done" ELSE "dead"
    BY <1>5 DEF AfterDefect
  <2>2. /\ \A d \in Callers : (Preparing(d)' <=> Preparing(d))
        /\ \A d \in Callers \ {c} : call'[d] = call[d]
        /\ call'[c].at = at
    BY <1>3, <2>1
  <2>3. (~past.raced)' => \A d, e \in Callers : Preparing(d)' /\ Preparing(e)' => d = e
    BY <1>2, <2>2
  <2>4. CASE c \in Reloads
    <3>1. c # "hotload" /\ "hotload" \in Callers
      BY <2>4, ConfigAssumption DEF Callers
    <3>2. call'["hotload"].at = call["hotload"].at /\ watch' = watch
      BY <2>2, <2>4, <3>1
    <3>3. ASSUME (Attended /\ ~watch.timer /\ watch.events = 0 /\ call["hotload"].at # "dead")'
          PROVE  (\A d \in Callers : ~Preparing(d)) /\ Settled'
      <4>1. Attended /\ ~watch.timer /\ watch.events = 0 /\ call["hotload"].at # "dead"
        BY <1>2, <3>2, <3>3 DEF Attended
      <4>2. \A d \in Callers : ~Preparing(d)
        BY <1>2, <3>3 DEF Attended
      <4>3. Settled
        BY <4>1, <4>2 DEF UpToDate
      <4> QED BY <1>1, <1>5, <4>2, <4>3 DEF Settled, Acceptable, Says
    <3> QED BY <1>4, <2>1, <2>2, <2>3, <3>3 DEF UpToDate
  <2>5. CASE c = "start"
    BY <1>4, <1>5, <2>1, <2>3, <2>5 DEF UpToDate, Attended
  <2>6. CASE c = "hotload"
    <3>1. call'["hotload"].at = "dead"
      BY <2>1, <2>2, <2>6, ConfigAssumption
    <3> QED BY <1>4, <2>1, <2>3, <3>1 DEF UpToDate
  <2> QED BY <2>4, <2>5, <2>6 DEF Callers
<1>6. CASE /\ \/ file.kind = "invalid"
              \/ file.kind = "valid" /\ Keys(Candidate(mode)) \in Unbuildable
           /\ Reject(c)
  <2>1. PICK at \in {"idle", "settling", "done"} : call' = [call EXCEPT ![c].at = at]
    BY <1>6 DEF Reject, AfterFailure
  <2>2. /\ \A d \in Callers : (Preparing(d)' <=> Preparing(d))
        /\ \A d \in Callers \ {c} : call'[d] = call[d]
    BY <1>3, <2>1
  <2>3. ~Acceptable(file) /\ refused'
    BY <1>6, CandidateSays DEF Acceptable, Reject
  <2>4. (~past.raced)' => \A d \in Callers : ~Preparing(d)'
    BY <1>2, <2>2
  <2>5. Settled'
    BY <1>1, <2>3 DEF Settled, Acceptable
  <2> QED BY <1>4, <2>1, <2>4, <2>5 DEF UpToDate, Attended
<1>7. CASE file.kind = "valid" /\ Keys(Candidate(mode)) \notin Unbuildable /\ Ask(c, Candidate(mode))
  <2> DEFINE d == Candidate(mode)
  <2>1. /\ call'[c].at = "preparing" /\ call'[c].read = file /\ call'[c].candidate = d
        /\ \A e \in Callers \ {c} : call'[e] = call[e]
    BY <1>1, <1>7 DEF Ask
  <2>2. Says(d, file.says) /\ (Acceptable(file) <=> Keys(d) \notin Refused)
    BY <1>7, CandidateSays DEF Acceptable
  <2>3. Keys(d) \notin Unbuildable
    BY <1>7
  <2> HIDE DEF d
  <2>4. ASSUME NEW e \in Callers, Preparing(e)'
        PROVE  /\ call'[e].read.kind = "valid"
               /\ Keys(call'[e].candidate) \notin Unbuildable
               /\ Says(call'[e].candidate, call'[e].read.says)
               /\ Acceptable(call'[e].read) <=> Keys(call'[e].candidate) \notin Refused
    <3>1. CASE e = c
      BY <1>7, <2>1, <2>2, <2>3, <3>1
    <3>2. CASE e # c
      <4>1. call'[e] = call[e] /\ Preparing(e)
        BY <2>1, <2>4, <3>2 DEF Preparing
      <4> QED BY <4>1 DEF Prepares
    <3> QED BY <3>1, <3>2
  <2>5. Prepares'
    BY <1>1, <2>4 DEF Prepares, Keys, Says, Acceptable
  <2>6. (~past.raced)' => \A e \in Callers : Preparing(e)' => e = c
    BY <1>2, <2>1 DEF Preparing
  <2>7. Preparing(c)'
    BY <2>1 DEF Preparing
  <2> QED BY <1>1, <2>1, <2>5, <2>6, <2>7 DEF UpToDate, Attended
<1> QED BY <1>5, <1>6, <1>7 DEF Load

\* A caller that commits, or is refused or too late, leaves what the file says.
LEMMA CallSettles ==
    ASSUME ConfigTypeOK, Prepares, UpToDate, Startup, NEW c \in Callers, Preparing(c),
           UNCHANGED <<file, stopping>>, watch' = WatchAfter(watch),
           \/ /\ CommitConfig(c) /\ UNCHANGED past /\ Keys(call[c].candidate) \notin Refused
           \/ /\ Reject(c) /\ UNCHANGED <<config, past>> /\ Keys(call[c].candidate) \in Refused
           \/ /\ Reject(c) /\ UNCHANGED config /\ past' = [past EXCEPT !.late = past.late + 1]
    PROVE  Prepares' /\ UpToDate'
<1>1. call \in [Callers -> CallRecord] /\ past \in Past /\ watch \in Watch
  BY DEF ConfigTypeOK, CallRecord, Past, Watch
<1>2. PICK at \in {"idle", "settling", "done"} : call' = [call EXCEPT ![c].at = at]
  BY DEF CommitConfig, Reject, AfterCommit, AfterFailure
<1>3. /\ \A d \in Callers : Preparing(d)' <=> Preparing(d) /\ d # c
      /\ \A d \in Callers \ {c} : call'[d] = call[d]
  BY <1>1, <1>2 DEF Preparing, CallRecord
<1>4. Keys(config') \notin Unbuildable \cup Refused
  BY DEF Prepares, CommitConfig, Reject
<1>5. Prepares'
  BY <1>3, <1>4 DEF Prepares, Keys, Says, Acceptable, Preparing
<1>6. past'.raced = past.raced
  BY <1>1 DEF Past
<1>7. ~past'.raced => \A d \in Callers : ~Preparing(d)'
  BY <1>3, <1>6 DEF UpToDate
<1>8. ASSUME (Attended /\ ~watch.timer /\ watch.events = 0 /\ call["hotload"].at # "dead")'
      PROVE  Settled'
  <2>1. past'.late = 0 /\ ~past'.raced /\ ~past'.missed /\ ~stopping
    BY <1>8 DEF Attended
  <2>2. past' = past
    <3>1. past.late + 1 # 0 /\ [past EXCEPT !.late = past.late + 1].late = past.late + 1
      BY <1>1 DEF Past
    <3> QED BY <2>1, <3>1
  <2>3. watch.timer = FALSE /\ watch.events = 0
    BY <1>1, <1>8 DEF WatchAfter, Watch
  <2>4. call[c].read = file
    <3>1. CASE watch.on
      <4>1. call["hotload"].at # "dead"
        BY <1>1, <1>2, <1>8, ConfigAssumption DEF Callers, CallRecord, Preparing
      <4> QED BY <2>1, <2>2, <2>3, <3>1, <4>1 DEF UpToDate, Attended
    <3>2. CASE ~watch.on
      <4>1. c = "start"
        BY <3>2 DEF Startup, Preparing
      <4> QED BY <2>1, <2>2, <4>1 DEF Startup, Preparing
    <3> QED BY <3>1, <3>2
  <2>5. CASE CommitConfig(c) /\ Keys(call[c].candidate) \notin Refused
    <3>1. Acceptable(file) /\ Says(call[c].candidate, file.says)
      BY <2>4, <2>5 DEF Prepares
    <3>2. config' = call[c].candidate /\ health' = IF c = "start" THEN health ELSE "healthy"
      BY <2>1, <2>5 DEF CommitConfig
    <3>3. c = "start" => health = "healthy"
      BY DEF Startup, Preparing
    <3> QED BY <3>1, <3>2, <3>3 DEF Settled, Acceptable, Says
  <2>6. CASE Reject(c) /\ Keys(call[c].candidate) \in Refused
    <3>1. ~Acceptable(file) /\ refused'
      BY <2>4, <2>6 DEF Prepares, Reject
    <3> QED BY <3>1 DEF Settled, Acceptable
  <2>7. ~(past' = [past EXCEPT !.late = past.late + 1])
    <3>1. past.late + 1 # past.late /\ [past EXCEPT !.late = past.late + 1].late = past.late + 1
      BY <1>1 DEF Past
    <3> QED BY <2>2, <3>1
  <2> QED BY <2>5, <2>6, <2>7
<1> QED BY <1>5, <1>7, <1>8 DEF UpToDate, Attended
LEMMA StartupKept ==
    ASSUME ConfigTypeOK, Startup, [ConfigNext]_configVars
    PROVE  Startup'
<1>1. /\ call \in [Callers -> CallRecord] /\ past \in Past /\ watch \in Watch
      /\ "start" \in Callers /\ "hotload" \in Callers \ {"start"}
  BY DEF ConfigTypeOK, CallRecord, Past, Watch, Callers
<1>2. CASE Start
  <2>1. /\ ~watch.on /\ ~watch.timer /\ watch.events = 0
        /\ \A c \in Callers \ {"start"} : call[c].at = "idle"
        /\ watch' = WatchAfter(watch) /\ Load("start", "full") /\ health = "healthy"
    BY <1>2 DEF Start, Startup
  <2>2. /\ ~watch'.timer /\ watch'.events = 0
        /\ watch'.on <=> call'["start"].at = "settling"
    BY <1>1, <2>1 DEF WatchAfter, Watch
  <2>3. CASE call' = [call EXCEPT !["start"].at = "dead"]
    <3>1. call'["start"].at = "dead" /\ \A c \in Callers \ {"start"} : call'[c] = call[c]
      BY <1>1, <2>3 DEF CallRecord
    <3> QED BY <2>1, <2>2, <3>1 DEF Startup
  <2>4. CASE call' = [call EXCEPT !["start"].at = "settling"]
    <3>1. call'["start"].at = "settling" /\ \A c \in Callers \ {"start"} : call'[c] = call[c]
      BY <1>1, <2>4 DEF CallRecord
    <3> QED BY <2>1, <2>2, <3>1 DEF Startup
  <2>5. CASE Ask("start", Candidate("full")) /\ UNCHANGED <<health, refused>>
    <3>1. /\ call'["start"].at = "preparing" /\ call'["start"].read = file
          /\ \A c \in Callers \ {"start"} : call'[c] = call[c]
      BY <1>1, <2>5 DEF Ask
    <3>2. file' = file
      BY <2>1 DEF Load
    <3> QED BY <2>1, <2>2, <2>5, <3>1, <3>2 DEF Startup
  <2>6. "start" \notin Reloads
    BY ConfigAssumption
  <2> QED BY <2>1, <2>3, <2>4, <2>5, <2>6 DEF Load, Reject, AfterDefect, AfterFailure
<1>3. ASSUME NEW c \in Callers \ {"start"}, watch.on, watch'.on, call["start"] = call'["start"],
             call["start"].at \in {"settling", "done"}
      PROVE  Startup'
  BY <1>1, <1>3 DEF Startup
<1>4. CASE Hotload
  <2>1. watch.on /\ watch' = [watch EXCEPT !.events = watch.events - 1] /\ Load("hotload", "delta")
    BY <1>1, <1>4 DEF Hotload, Startup, Watch
  <2>2. call'["start"] = call["start"]
    BY <1>1, <2>1 DEF Load, Ask, Reject
  <2>3. watch'.on
    BY <1>1, <2>1 DEF Watch
  <2>4. call["start"].at \in {"settling", "done"}
    BY <2>1 DEF Startup
  <2> QED BY <1>1, <1>3, <2>1, <2>2, <2>3, <2>4
<1>5. ASSUME NEW c \in Reloads, NEW mode \in {"delta", "full"}, Reload(c, mode)
      PROVE  Startup'
  <2>1. c \in Callers \ {"start"} /\ watch.on /\ watch' = watch /\ Load(c, mode)
    BY <1>5, ConfigAssumption DEF Reload, Startup, Callers
  <2>2. call'["start"] = call["start"]
    BY <1>1, <2>1 DEF Load, Ask, Reject
  <2>3. call["start"].at \in {"settling", "done"}
    BY <2>1 DEF Startup
  <2> QED BY <1>3, <2>1, <2>2, <2>3
<1>6. ASSUME NEW c \in Callers, Preparing(c), UNCHANGED file, watch' = WatchAfter(watch),
             CommitConfig(c) \/ Reject(c)
      PROVE  Startup'
  <2>1. PICK at \in {"idle", "settling", "done"} :
            /\ call' = [call EXCEPT ![c].at = at]
            /\ c = "start" => at = "settling"
    BY <1>6, ConfigAssumption DEF CommitConfig, Reject, AfterCommit, AfterFailure
  <2>2. /\ call'[c].at = at /\ \A d \in Callers \ {c} : call'[d] = call[d]
        /\ watch'.on = (watch.on \/ call'["start"].at = "settling")
        /\ watch'.timer = watch.timer /\ watch'.events = watch.events
    BY <1>1, <1>6, <2>1 DEF CallRecord, WatchAfter, Watch
  <2>3. CASE c = "start"
    BY <2>1, <2>2, <2>3 DEF Startup
  <2>4. CASE c # "start"
    <3>1. watch.on
      BY <1>6, <2>4 DEF Startup, Preparing
    <3> QED BY <1>1, <1>3, <2>2, <2>4, <3>1 DEF Startup
  <2> QED BY <2>3, <2>4
<1>7. CASE HearAnswer
  <2>1. CASE UNCHANGED <<call, health, refused>>
    <3>1. watch' = WatchAfter(watch) /\ UNCHANGED <<file, past>>
      BY <1>7 DEF HearAnswer
    <3>2. watch'.on = (watch.on \/ call["start"].at = "settling") /\ watch'.timer = watch.timer
          /\ watch'.events = watch.events
      BY <1>1, <2>1, <3>1 DEF WatchAfter, Watch
    <3> QED BY <2>1, <3>1, <3>2 DEF Startup
  <2>2. ASSUME NEW answer, answer = Head(answers), Awaited(answer), CommitConfig(answer.by) \/ Reject(answer.by)
        PROVE  Startup'
    <3>1. answer.by \in Callers
      <4>1. Head(answers) \in Reply
        BY <1>7, HeadTailProperties DEF HearAnswer, ConfigTypeOK, Reply
      <4> QED BY <2>2, <4>1 DEF Reply
    <3> QED BY <1>6, <1>7, <2>2, <3>1 DEF HearAnswer, Awaited
  <2>3. PICK answer : answer = Head(answers)
    OBVIOUS
  <2> QED BY <1>7, <2>1, <2>2, <2>3 DEF HearAnswer
<1>8. ASSUME NEW c \in Callers, Timeout(c)
      PROVE  Startup'
  BY <1>6, <1>8 DEF Timeout
<1>9. ASSUME NEW c \in Callers, EndCall(c)
      PROVE  Startup'
  <2>1. PICK at \in {"idle", "done"} : call' = [call EXCEPT ![c].at = at] /\ (c # "hotload" => at = "done")
    BY <1>9 DEF EndCall
  <2>2. call'[c].at = at /\ \A d \in Callers \ {c} : call'[d] = call[d]
    BY <1>1, <2>1 DEF CallRecord
  <2>3. UNCHANGED <<file, watch, health, refused, past>> /\ call[c].at = "settling"
    BY <1>9 DEF EndCall
  <2>4. CASE c = "start"
    BY <2>1, <2>2, <2>3, <2>4 DEF Startup
  <2>5. CASE c # "start"
    <3>1. watch.on
      BY <2>3, <2>5 DEF Startup
    <3> QED BY <1>1, <1>3, <2>2, <2>3, <2>5, <3>1 DEF Startup
  <2> QED BY <2>4, <2>5
<1>10. ASSUME NEW content \in Files, Edit(content)
       PROVE  Startup'
  <2>1. /\ watch' = [watch EXCEPT !.timer = watch.on] /\ UNCHANGED <<call, health, refused>>
        /\ past' = [past EXCEPT !.edits = past.edits + 1,
                                !.missed = past.missed \/ (~watch.on /\ Preparing("start"))]
    BY <1>10 DEF Edit
  <2>2. watch'.timer = watch.on /\ watch'.on = watch.on /\ watch'.events = watch.events
    BY <1>1, <2>1 DEF Watch
  <2>3. past'.missed <=> past.missed \/ (~watch.on /\ Preparing("start"))
    BY <1>1, <2>1 DEF Past
  <2> QED BY <2>1, <2>2, <2>3 DEF Startup, Preparing
<1>11. CASE Debounced
  <2>1. watch.on /\ watch'.on /\ UNCHANGED <<call>>
    <3>1. watch' = [watch EXCEPT !.timer = FALSE, !.events = watch.events + 1] /\ UNCHANGED <<call>>
      BY <1>11 DEF Debounced
    <3>2. watch'.on = watch.on
      BY <1>1, <3>1 DEF Watch
    <3> QED BY <1>11, <3>1, <3>2 DEF Debounced, Startup
  <2> QED BY <1>1, <1>3, <2>1 DEF Startup
<1>12. CASE \/ \E mode \in Modes : ChangeMode(mode)
            \/ StopEngine \/ Configure \/ CycleConverges \/ UNCHANGED configVars
  BY <1>12 DEF Startup, ChangeMode, StopEngine, Configure, CycleConverges, configVars
<1> QED BY <1>2, <1>4, <1>5, <1>7, <1>8, <1>9, <1>10, <1>11, <1>12 DEF ConfigNext

\* The other steps change neither what is in force nor who waits for what.
LEMMA OthersSettle ==
    ASSUME ConfigTypeOK, Prepares, UpToDate, UNCHANGED <<config, refused>>, stopping => stopping',
           health' = health \/ health' = "healthy",
           \A c \in Callers : /\ Preparing(c)' <=> Preparing(c)
                              /\ Preparing(c) => call'[c] = call[c],
           call'["hotload"].at # "dead" => call["hotload"].at # "dead",
           past'.raced = past.raced, past'.late = past.late, past.missed => past'.missed,
           \/ file' = file /\ (watch' = watch \/ watch'.events # 0)
           \/ watch'.timer \/ ~watch'.on
    PROVE  Prepares' /\ UpToDate'
<1>1. Prepares'
  BY DEF Prepares, Preparing, Says, Acceptable
<1>2. (~past.raced)' => \A c, d \in Callers : Preparing(c)' /\ Preparing(d)' => c = d
  BY DEF UpToDate
<1>3. ASSUME (Attended /\ ~watch.timer /\ watch.events = 0 /\ call["hotload"].at # "dead")'
      PROVE  /\ \A c \in Callers : Preparing(c)' => call'[c].read = file'
             /\ (\A c \in Callers : ~Preparing(c)') => Settled'
  <2>1. /\ file' = file /\ Attended /\ ~watch.timer /\ watch.events = 0
        /\ call["hotload"].at # "dead"
    BY <1>3 DEF Attended
  <2>2. /\ \A c \in Callers : Preparing(c) => call[c].read = file
        /\ (\A c \in Callers : ~Preparing(c)) => Settled
    BY <2>1 DEF UpToDate
  <2> QED BY <2>1, <2>2 DEF Settled, Says, Acceptable
<1> QED BY <1>1, <1>2, <1>3 DEF UpToDate

\* And they leave the messages alone.
LEMMA OthersAddress ==
    ASSUME ConfigTypeOK, Addressed, Unique, Told,
           UNCHANGED <<requests, answers, commands, bindings>>,
           \A c \in Callers : /\ Preparing(c)' <=> Preparing(c)
                              /\ call'[c].id = call[c].id /\ call'[c].candidate = call[c].candidate,
           past'.asked = past.asked, past'.late = past.late
    PROVE  Addressed' /\ Unique' /\ Told'
<1>1. /\ \A i \in DOMAIN requests : requests[i].by \in Callers
      /\ \A i \in DOMAIN answers : answers[i].by \in Callers
  <2>1. requests \in Seq(Message) /\ answers \in Seq(Reply)
    BY DEF ConfigTypeOK, Message, Reply
  <2>2. /\ \A i \in DOMAIN requests : requests[i] \in Message
        /\ \A i \in DOMAIN answers : answers[i] \in Reply
    BY <2>1
  <2> QED BY <2>2 DEF Message, Reply
<1> QED BY <1>1 DEF Addressed, Unique, Told, Owned, Awaited

\* Once one is late, an answer for nobody is dropped.
LEMMA AnswerDropped ==
    ASSUME ConfigTypeOK, Addressed, answers # <<>>, answers' = Tail(answers),
           UNCHANGED <<requests, call, past>>, past.late # 0
    PROVE  Addressed' /\ Unique'
<1>1. answers \in Seq(Reply)
  BY DEF ConfigTypeOK, Reply
<1>2. /\ DOMAIN answers' = 1 .. Len(answers) - 1 /\ DOMAIN answers = 1 .. Len(answers)
      /\ Len(answers) \in Nat \ {0}
      /\ \A i \in DOMAIN answers' : answers'[i] = answers[i + 1]
  BY <1>1, HeadTailProperties
<1>3. \A i \in DOMAIN answers' : i + 1 \in DOMAIN answers
  BY <1>2
<1>4. \A i \in DOMAIN answers' :
          Owned(answers[i])' /\ (answers'[i].ok <=> answers'[i].keys \notin Refused)
  BY <1>2, <1>3 DEF Addressed, Owned, Awaited, Preparing
<1>5. \A i \in DOMAIN requests : Owned(requests[i])'
  BY DEF Addressed, Owned, Awaited, Preparing
<1> QED BY <1>4, <1>5 DEF Addressed, Unique

-----------------------------------------------------------------------------
(* Together.                                                               *)

LEMMA ConfigInvStarts ==
    ASSUME ConfigInit
    PROVE  ConfigInv
<1>1. /\ file \in Contents /\ Nothing \in Configs /\ Keys(Nothing) = NoKeys
      /\ "start" \in Callers
  BY ConfigAssumption DEF ConfigInit, Nothing, Configs, Settings, Keys, Callers
<1>2. ConfigTypeOK
  <2>1. call \in [Callers -> CallRecord]
    BY <1>1 DEF ConfigInit, CallRecord
  <2>2. watch \in Watch /\ past \in Past
    BY DEF ConfigInit, Watch, Past
  <2>3. NoKeys \in Tables /\ "bsp" \in Modes
    BY ConfigAssumption DEF Modes
  <2>4. /\ file \in Contents /\ config \in Configs /\ runtimeMode \in Modes
        /\ health \in {"healthy", "degraded"} /\ refused \in BOOLEAN
        /\ commands \in Tables /\ bindings \in Tables
        /\ nativeReady \in BOOLEAN /\ requests = <<>> /\ answers = <<>> /\ stopping \in BOOLEAN
    BY <1>1, <2>3 DEF ConfigInit
  <2> QED BY <2>1, <2>2, <2>4 DEF ConfigTypeOK, CallRecord, Watch, Past
<1>3. \A c \in Callers : ~Preparing(c) /\ call[c].at = "idle" /\ call[c].id = 0
  BY DEF ConfigInit, Preparing
<1>4. Addressed /\ Unique /\ Told /\ Runs
  BY <1>1, <1>3 DEF ConfigInit, Addressed, Unique, Told, Runs
<1>5. Prepares /\ Startup /\ UpToDate
  <2>1. NoKeys \notin Unbuildable \cup Refused
    BY ConfigAssumption
  <2> QED BY <1>1, <1>3, <2>1 DEF ConfigInit, Prepares, Startup, UpToDate, Attended
<1> QED BY <1>1, <1>2, <1>4, <1>5 DEF ConfigInit, ConfigInv

LEMMA ConfigInvKept ==
    ASSUME ConfigInv, [ConfigNext]_configVars
    PROVE  ConfigInv'
<1>0. /\ ConfigTypeOK' /\ Startup'
      /\ ConfigTypeOK /\ Addressed /\ Unique /\ Told /\ Runs /\ Prepares /\ Startup /\ UpToDate
  BY ConfigTypeKept, StartupKept DEF ConfigInv
<1>1. /\ call \in [Callers -> CallRecord] /\ past \in Past /\ watch \in Watch
      /\ answers \in Seq(Reply)
      /\ "start" \in Callers \ Reloads /\ "hotload" \in Callers \ Reloads
      /\ Reloads \subseteq Callers
  BY <1>0, ConfigAssumption DEF ConfigTypeOK, CallRecord, Past, Watch, Reply, Callers
<1> DEFINE Kept == Addressed' /\ Unique' /\ Told' /\ Runs' /\ Prepares' /\ UpToDate'
<1> SUFFICES Kept
  BY <1>0 DEF ConfigInv
<1>2. ASSUME NEW c \in Callers, NEW mode, Load(c, mode), call[c].at = "idle",
             c \in Reloads => UNCHANGED watch
      PROVE  Kept
  <2>1. UNCHANGED <<config, commands>>
    BY <1>2 DEF Load
  <2>3. stopping => stopping'
    BY <1>2 DEF Load
  <2>2. Runs'
    BY <1>0, <2>1, <2>3 DEF Runs, Keys
  <2> QED BY <1>0, <1>2, <2>2, LoadAddresses, LoadSettles
<1>3. CASE Start \/ Hotload \/ \E c \in Reloads, mode \in {"delta", "full"} : Reload(c, mode)
  <2> HIDE DEF Kept
  <2>1. CASE Start
    BY <1>1, <1>2, <2>1 DEF Start
  <2>2. CASE Hotload
    BY <1>1, <1>2, <2>2 DEF Hotload
  <2>3. ASSUME NEW c \in Reloads, NEW mode \in {"delta", "full"}, Reload(c, mode)
        PROVE  Kept
    BY <1>1, <1>2, <2>3 DEF Reload
  <2> QED BY <1>3, <2>1, <2>2, <2>3
<1>4. CASE Configure
  <2>1. Addressed' /\ Unique' /\ Told'
    BY <1>0, <1>4, ConfigureAddresses
  <2>2. UNCHANGED <<file, watch, config, health, refused, call, past, commands, stopping>>
    BY <1>4 DEF Configure
  <2>3. Prepares' /\ UpToDate'
    BY <1>0, <2>2, OthersSettle DEF Preparing
  <2>4. Runs'
    BY <1>0, <2>2 DEF Runs, Keys
  <2> QED BY <2>1, <2>3, <2>4
<1>5. CASE HearAnswer
  <2>1. Told'
    BY <1>0, <1>5, HearTells
  <2>2. PICK answer : answer = Head(answers)
    OBVIOUS
  <2>3. /\ answer \in Reply /\ answer.by \in Callers /\ answers # <<>> /\ answer = answers[1]
        /\ Owned(answer) /\ (answer.ok <=> answer.keys \notin Refused)
    <3>1. answer \in Reply /\ answers # <<>> /\ 1 \in DOMAIN answers /\ answer = answers[1]
      BY <1>1, <1>5, <2>2, HeadTailProperties DEF HearAnswer
    <3> QED BY <1>0, <3>1 DEF Addressed, Reply
  <2>4. /\ answers' = Tail(answers) /\ UNCHANGED <<file, requests, stopping, past>>
        /\ watch' = WatchAfter(watch)
    BY <1>5 DEF HearAnswer
  <2> DEFINE c == answer.by
  <2>5. ASSUME NEW at \in {"idle", "settling", "done"}, call' = [call EXCEPT ![c].at = at]
        PROVE  Addressed' /\ Unique'
    BY <1>0, <2>2, <2>3, <2>4, <2>5, CallEnds
  <2>6. CASE Awaited(answer) /\ answer.ok /\ CommitConfig(c)
    <3>1. \E at \in {"idle", "settling", "done"} : call' = [call EXCEPT ![c].at = at]
      BY <2>6 DEF CommitConfig, AfterCommit
    <3>2. Preparing(c) /\ Keys(call[c].candidate) \notin Refused
      BY <2>3, <2>6 DEF Awaited, Owned
    <3>3. Prepares' /\ UpToDate'
      BY <1>0, <2>3, <2>4, <2>6, <3>2, CallSettles
    <3>4. Runs'
      BY <2>4, <2>6 DEF Runs, CommitConfig, Prepared, Keys
    <3> QED BY <2>1, <2>5, <3>1, <3>3, <3>4
  <2>7. CASE Awaited(answer) /\ ~answer.ok /\ Reject(c) /\ UNCHANGED <<config, commands>>
    <3>1. \E at \in {"idle", "settling", "done"} : call' = [call EXCEPT ![c].at = at]
      BY <2>7 DEF Reject, AfterFailure
    <3>2. Preparing(c) /\ Keys(call[c].candidate) \in Refused
      BY <2>3, <2>7 DEF Awaited, Owned
    <3>3. Prepares' /\ UpToDate'
      BY <1>0, <2>3, <2>4, <2>7, <3>2, CallSettles
    <3>4. Runs'
      BY <1>0, <2>4, <2>7 DEF Runs, Keys
    <3> QED BY <2>1, <2>5, <3>1, <3>3, <3>4
  <2>8. CASE ~Awaited(answer) /\ UNCHANGED <<config, health, refused, commands, call>>
    <3>1. past.late # 0
      BY <1>0, <1>1, <2>3, <2>8 DEF Addressed
    <3>2. Addressed' /\ Unique'
      BY <1>0, <1>1, <2>3, <2>4, <2>8, <3>1, AnswerDropped
    <3>3. watch'.timer = watch.timer /\ ~Attended'
      BY <1>1, <2>4, <3>1 DEF WatchAfter, Watch, Attended
    <3>4. Prepares'
      BY <1>0, <2>4, <2>8 DEF Prepares, Preparing, Says, Acceptable
    <3>5. UpToDate'
      BY <1>0, <2>4, <2>8, <3>3 DEF UpToDate, Preparing
    <3>6. Runs'
      BY <1>0, <2>4, <2>8 DEF Runs, Keys
    <3> QED BY <2>1, <3>2, <3>4, <3>5, <3>6
  <2> QED BY <1>5, <2>2, <2>6, <2>7, <2>8 DEF HearAnswer
<1>6. ASSUME NEW c \in Callers, Timeout(c)
      PROVE  Kept
  <2>1. /\ Preparing(c) /\ Reject(c) /\ watch' = WatchAfter(watch)
        /\ past' = [past EXCEPT !.late = past.late + 1]
        /\ UNCHANGED <<file, config, commands, requests, answers, stopping>>
    BY <1>6 DEF Timeout
  <2>2. past'.late # 0 /\ past'.asked = past.asked
    BY <1>1, <2>1 DEF Past
  <2>3. \E at \in {"idle", "settling", "done"} : call' = [call EXCEPT ![c].at = at]
    BY <2>1 DEF Reject, AfterFailure
  <2>4. Addressed' /\ Unique'
    BY <1>0, <2>1, <2>2, <2>3, CallEnds
  <2>5. Told'
    BY <2>2 DEF Told
  <2>6. Prepares' /\ UpToDate'
    BY <1>0, <2>1, CallSettles
  <2>7. Runs'
    BY <1>0, <2>1 DEF Runs, Keys
  <2> QED BY <2>4, <2>5, <2>6, <2>7
<1>7. ASSUME UNCHANGED <<config, refused, requests, answers, commands, bindings>>,
             stopping => stopping', health' = health \/ health' = "healthy",
             \A c \in Callers : /\ Preparing(c)' <=> Preparing(c)
                                /\ call'[c].id = call[c].id /\ call'[c].candidate = call[c].candidate
                                /\ Preparing(c) => call'[c] = call[c],
             call'["hotload"].at # "dead" => call["hotload"].at # "dead",
             past'.raced = past.raced, past'.late = past.late, past.missed => past'.missed,
             past'.asked = past.asked,
             \/ file' = file /\ (watch' = watch \/ watch'.events # 0)
             \/ watch'.timer \/ ~watch'.on
      PROVE  Kept
  <2>1. Runs'
    BY <1>0, <1>7 DEF Runs, Keys
  <2>2. Prepares' /\ UpToDate'
    BY <1>0, <1>7, OthersSettle
  <2>3. Addressed' /\ Unique' /\ Told'
    BY <1>0, <1>7, OthersAddress
  <2> QED BY <2>1, <2>2, <2>3
<1>8. ASSUME NEW c \in Callers, EndCall(c)
      PROVE  Kept
  <2>1. /\ UNCHANGED <<file, watch, config, health, refused, requests, answers, commands, bindings, past>>
        /\ stopping => stopping'
        /\ call[c].at = "settling"
    BY <1>8 DEF EndCall
  <2>2. PICK at \in {"idle", "done"} : call' = [call EXCEPT ![c].at = at]
    BY <1>8 DEF EndCall
  <2>3. /\ call'[c].at = at /\ \A d \in Callers \ {c} : call'[d] = call[d]
        /\ call'[c].id = call[c].id /\ call'[c].candidate = call[c].candidate
    BY <1>1, <2>2 DEF CallRecord
  <2>4. \A d \in Callers : /\ Preparing(d)' <=> Preparing(d)
                           /\ call'[d].id = call[d].id /\ call'[d].candidate = call[d].candidate
                           /\ Preparing(d) => call'[d] = call[d]
    BY <2>1, <2>3 DEF Preparing
  <2>5. call'["hotload"].at # "dead" => call["hotload"].at # "dead"
    BY <1>1, <2>1, <2>3
  <2> QED BY <1>7, <2>1, <2>4, <2>5
<1>9. ASSUME NEW content \in Files, Edit(content)
      PROVE  Kept
  <2>1. /\ watch' = [watch EXCEPT !.timer = watch.on]
        /\ past' = [past EXCEPT !.edits = past.edits + 1,
                                !.missed = past.missed \/ (~watch.on /\ Preparing("start"))]
        /\ UNCHANGED <<config, health, refused, requests, answers, commands, bindings, call, stopping>>
    BY <1>9 DEF Edit
  <2>2. /\ watch'.timer \/ ~watch'.on
        /\ past'.raced = past.raced /\ past'.late = past.late /\ past'.asked = past.asked
    BY <1>1, <2>1 DEF Past, Watch
  <2>3. past.missed => past'.missed
    BY <1>1, <2>1 DEF Past
  <2> QED BY <1>7, <2>1, <2>2, <2>3 DEF Preparing
<1>10. CASE Debounced
  <2>1. /\ watch' = [watch EXCEPT !.timer = FALSE, !.events = watch.events + 1]
        /\ UNCHANGED <<file, config, health, refused, requests, answers, commands, bindings, call, stopping, past>>
    BY <1>10 DEF Debounced
  <2>2. watch'.events = watch.events + 1 /\ watch.events \in Nat
    BY <1>1, <2>1 DEF Watch
  <2>3. watch'.events # 0
    BY <2>2
  <2> QED BY <1>7, <2>1, <2>3 DEF Preparing
<1>11. CASE \/ \E mode \in Modes : ChangeMode(mode)
            \/ StopEngine \/ UNCHANGED configVars
  <2>1. /\ UNCHANGED <<file, watch, config, health, refused, requests, answers, commands, bindings, call, past>>
        /\ stopping => stopping'
    BY <1>11 DEF ChangeMode, StopEngine, configVars
  <2> QED BY <1>7, <2>1 DEF Preparing
<1>12. CASE CycleConverges
  <2>1. /\ UNCHANGED <<file, watch, config, refused, requests, answers, commands, bindings, call,
                       stopping, past>>
        /\ health' = "healthy"
    BY <1>12 DEF CycleConverges
  <2> QED BY <1>7, <2>1 DEF Preparing
<1> HIDE DEF Kept
<1> QED BY <1>3, <1>4, <1>5, <1>6, <1>8, <1>9, <1>10, <1>11, <1>12 DEF ConfigNext

THEOREM ConfigInvHolds == ConfigSpec => []ConfigInv
<1>1. ConfigInit => ConfigInv
  BY ConfigInvStarts
<1>2. ConfigInv /\ [ConfigNext]_configVars => ConfigInv'
  BY ConfigInvKept
<1> QED BY <1>1, <1>2, PTL DEF ConfigSpec

\* The commands and the bindings that a key has are those of the configuration in force,
\* whatever overlaps and fails, for any files, tables and number of reloads (KeysFollowConfig).
THEOREM KeysAreInForce == ConfigSpec => []KeysFollowConfig
<1>1. ConfigInv => KeysFollowConfig
  BY DEF ConfigInv, Runs, Told, KeysFollowConfig
<1> QED BY <1>1, ConfigInvHolds, PTL

\* When all is quiet the configuration says what the file says, or the file is one that
\* cannot be accepted and has been refused, unless something came in between that the
\* property names (FileIsInForce).  Of health it only says that an accepted file leaves it
\* healthy: a refusal shows there until the next cycle converges.
THEOREM TheFileIsInForce == ConfigSpec => []FileIsInForce
<1>1. ConfigInv => FileIsInForce
  <2> SUFFICES ASSUME ConfigInv, Attended, Quiet, call["hotload"].at # "dead" PROVE Settled
    BY DEF FileIsInForce, Settled, Says
  <2>1. ~watch.timer /\ watch.events = 0 /\ \A c \in Callers : ~Preparing(c)
    BY DEF Quiet, Preparing
  <2> QED BY <2>1 DEF ConfigInv, UpToDate
<1> QED BY <1>1, ConfigInvHolds, PTL

\* Both, as the run checks them.
THEOREM ConfigurationIsKept == ConfigSpec => []ConfigurationHolds
<1>1. KeysFollowConfig /\ FileIsInForce => ConfigurationHolds
  BY DEF ConfigurationHolds
<1> QED BY <1>1, KeysAreInForce, TheFileIsInForce, PTL
=============================================================================
