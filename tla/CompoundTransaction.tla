------------------------- MODULE CompoundTransaction ------------------------
(***************************************************************************)
(* Compound commands of packages/layout/src/engine.ts (executeCompound,    *)
(* rollbackCompound, buildCompoundPlan), with what runs beside them:       *)
(* commands that change the world without the gate, the user, and writes   *)
(* the sidecar still carries out after the engine has given up on them.    *)
(*                                                                         *)
(* A command waits for the gate, captures the windows it may touch, reads  *)
(* the inventory, drafts a world, has the sidecar move the windows as one  *)
(* batch, verifies where they ended, maybe tries other layout policies,    *)
(* persists what it learned and commits the draft; or else it puts the     *)
(* captured windows back.  What runs between two awaits is one action.     *)
(*                                                                         *)
(* There is one workspace.  A command places all of its open members, each *)
(* at its own place of the chosen policy; a place is named by the command  *)
(* and the policy.  Parking differs only in where windows are placed.      *)
(***************************************************************************)
EXTENDS Integers, FiniteSets

CONSTANTS
    Windows,
    Managed,            \* those of them that are members from the start
    Commands,
    Deferred,           \* commands that choose what to capture under the gate
    Retries,            \* those of them that try further layout policies
    Policies,           \* length of POLICY_CHAIN
    Switches, KindOf,   \* pause, resume and toggle commands
    NoOne,
    MaxDisturbances,    \* bound: what the user does to windows
    MaxFailures         \* bound: calls the engine gives up on

ASSUME CompoundAssumption ==
    /\ Managed \subseteq Windows
    /\ Retries \subseteq Deferred /\ Deferred \subseteq Commands
    /\ Policies \in Nat \ {0} /\ MaxDisturbances \in Nat /\ MaxFailures \in Nat
    /\ KindOf \in [Switches -> {"pause", "resume", "toggle"}]
    /\ NoOne \notin Commands

VARIABLES
    frame, ident,       \* the desktop: place of each window, and what has its id
    mover,              \* what moved each window last (observation only)
    disturbances, failures,
    flight,             \* writes the sidecar has yet to carry out
    world,              \* committed: members, pause, commands it contains
    flip,               \* per switch, the value it will write, if under way
    learning, stored,   \* what was learned, in memory and in the store
    published,          \* commands whose events were flushed
    health,
    gate,
    tx                  \* per command: where it is, and its CompoundCtx

desktop == <<frame, ident, mover, disturbances>>
surroundings == <<desktop, failures>>
memory == <<learning, stored>>
vars == <<desktop, failures, flight, world, flip, memory, published, health, gate, tx>>

Home == <<NoOne, 0>>
Elsewhere == <<NoOne, 1>>
Halfway(c) == <<c, 0>>

Place(c, policy) == <<c, policy>>
Frames == {Home, Elsewhere} \cup Commands \X (0..Policies)
Gone == 0               \* no window has the id
Idents == 0..2

Interruptible == {"capture", "windows", "topology", "writing", "refresh"}
InTransaction == Interruptible \cup {"persist", "restore", "forget"}
Receipts == {"completed", "failed", "timeout", "died"}
Results == {"none", "exact", "clamp", "progressing", "refused", "stale"}

\* A command that is not under the gate.
Fresh(stage) ==
    [stage |-> stage, known |-> {}, todo |-> {}, taken |-> <<>>, seen |-> <<>>,
     targets |-> {}, result |-> <<>>, again |-> {}, policy |-> 1, placed |-> TRUE,
     draft |-> [members |-> {}, paused |-> FALSE, done |-> {}], before |-> {},
     keep |-> FALSE, late |-> FALSE, incomplete |-> FALSE, receipt |-> "completed"]

Init ==
    /\ frame = [w \in Windows |-> Home]
    /\ ident = [w \in Windows |-> 1]
    /\ mover = [w \in Windows |-> <<NoOne, "user">>]
    /\ disturbances = 0 /\ failures = 0
    /\ flight = {}
    /\ world = [members |-> Managed, paused |-> FALSE, done |-> {}]
    /\ flip = [p \in Switches |-> "idle"]
    /\ learning = {} /\ stored = {} /\ published = {}
    /\ health = "healthy"
    /\ gate = NoOne
    /\ tx = [c \in Commands |-> Fresh("idle")]

Open == {w \in Windows : ident[w] # Gone}

(***************************************************************************)
(* How a turn of the command ends.                                         *)
(***************************************************************************)

Continue(c, t) == tx' = [tx EXCEPT ![c] = t] /\ UNCHANGED gate

Release(c, receipt) == tx' = [tx EXCEPT ![c] = Fresh(receipt)] /\ gate' = NoOne

\* The rollback has more windows to restore, or is over.
RestoreOn(c, t) ==
    IF t.todo # {} THEN Continue(c, t) /\ UNCHANGED health
    ELSE /\ health' = IF t.incomplete THEN "degraded" ELSE health
         /\ IF t.keep /\ learning' # stored
            THEN Continue(c, [t EXCEPT !.stage = "forget"])
            ELSE Release(c, t.receipt)

\* The command fails: forget what it learned, put the captured windows back.
Abort(c, t, learned, receipt) ==
    /\ learning' = IF t.keep THEN learned ELSE t.before
    /\ RestoreOn(c, [Fresh("restore") EXCEPT !.todo = DOMAIN t.taken, !.taken = t.taken,
                                             !.keep = t.keep, !.receipt = receipt])
    /\ UNCHANGED <<world, stored, published>>

\* The draft replaces the world and the events are flushed.
Commit(c, t) ==
    /\ world' = [t.draft EXCEPT !.done = @ \cup {c}]
    /\ published' = published \cup {c}
    /\ Release(c, IF t.late THEN "timeout" ELSE "completed")
    /\ UNCHANGED health

\* What was learned is saved before the commit; nothing learned, nothing to await.
Conclude(c, t, learned) ==
    /\ learning' = learned
    /\ IF learned = stored THEN Commit(c, t)
       ELSE /\ Continue(c, [t EXCEPT !.stage = "persist"])
            /\ UNCHANGED <<world, published, health>>
    /\ UNCHANGED stored

\* A write expects whatever now has the window's id (MovesOnlyCaptured).
Regression_IssueUnguarded(c, t, now, later) ==
    /\ flight' = flight \cup
          {[win |-> w, frame |-> Place(c, t.policy), ident |-> ident[w],
            by |-> c, restoring |-> FALSE, heard |-> TRUE] : w \in now}
    /\ Continue(c, [t EXCEPT !.stage = "writing", !.todo = later,
                        !.result = [w \in now \cup DOMAIN t.result |->
                                       IF w \in now THEN "none" ELSE t.result[w]]])

\* Write the windows now, and the later ones when these are verified.
Issue(c, t, now, later) ==
    /\ flight' = flight \cup
          {[win |-> w, frame |-> Place(c, t.policy), ident |-> t.taken[w].ident,
            by |-> c, restoring |-> FALSE, heard |-> TRUE] : w \in now}
    /\ Continue(c, [t EXCEPT !.stage = "writing", !.todo = later,
                        !.result = [w \in now \cup DOMAIN t.result |->
                                       IF w \in now THEN "none" ELSE t.result[w]]])

\* The engine waits for writes it has given up on too (EveryCommandEnds).
Regression_HeardForEver(c) == {o \in flight : o.by = c}

Heard(c) == {o \in flight : o.by = c /\ o.heard}

\* The engine gives up on these writes; the sidecar carries them out all the same.
Abandon(writes) ==
    /\ failures < MaxFailures
    /\ failures' = failures + 1
    /\ flight' = (flight \ writes) \cup {[o EXCEPT !.heard = FALSE] : o \in writes}

(***************************************************************************)
(* Gate, capture and plan.                                                 *)
(***************************************************************************)

\* The bus refuses commands in pause; most commands choose what to capture
\* before they wait for the gate.
Begin(c) ==
    /\ tx[c].stage = "idle" /\ ~world.paused
    /\ tx' = [tx EXCEPT ![c] = [Fresh("waiting") EXCEPT
                !.known = IF c \in Deferred THEN {} ELSE world.members]]
    /\ UNCHANGED <<surroundings, flight, world, flip, memory, published, health, gate>>

\* The command begins whoever holds the gate (Atomic).
Regression_EnterHeldGate(c) ==
    /\ tx[c].stage = "waiting"
    /\ gate' = c
    /\ LET ids == IF c \in Deferred THEN world.members ELSE tx[c].known
       IN  tx' = [tx EXCEPT ![c] = [Fresh(IF ids = {} THEN "windows" ELSE "capture")
                                      EXCEPT !.todo = ids, !.before = learning]]
    /\ UNCHANGED <<surroundings, flight, world, flip, memory, published, health>>

EnterGate(c) ==
    /\ tx[c].stage = "waiting" /\ gate = NoOne
    /\ gate' = c
    /\ LET ids == IF c \in Deferred THEN world.members ELSE tx[c].known
       IN  tx' = [tx EXCEPT ![c] = [Fresh(IF ids = {} THEN "windows" ELSE "capture")
                                      EXCEPT !.todo = ids, !.before = learning]]
    /\ UNCHANGED <<surroundings, flight, world, flip, memory, published, health>>

\* Under the gate it turns out that there is nothing to do, that the command
\* makes no sense, or that its deadline has passed.
EnterInVain(c) ==
    /\ tx[c].stage = "waiting" /\ gate = NoOne
    /\ \E r \in IF c \in Deferred THEN {"completed", "failed", "timeout"} ELSE {"timeout"} :
          Release(c, r)
    /\ UNCHANGED <<surroundings, flight, world, flip, memory, published, health>>

Capture(c, w) ==
    /\ tx[c].stage = "capture" /\ w \in tx[c].todo
    /\ \/ Release(c, "failed")      \* the read fails, or there is no such window
       \/ /\ w \in Open
          /\ LET t == tx[c]
                 rest == t.todo \ {w}
             IN  Continue(c, [t EXCEPT
                    !.taken = [v \in DOMAIN t.taken \cup {w} |->
                                 IF v = w THEN [frame |-> frame[w], ident |-> ident[w]]
                                          ELSE t.taken[v]],
                    !.todo = rest,
                    !.stage = IF rest = {} THEN "windows" ELSE "capture"])
    /\ UNCHANGED <<surroundings, flight, world, flip, memory, published, health>>

\* Recovery, an invalid inventory or topology, a draft that is refused or a plan
\* that is infeasible ends the command.
ReadFails(c) ==
    /\ tx[c].stage \in {"windows", "topology"}
    /\ Abort(c, tx[c], learning, "failed")
    /\ UNCHANGED <<surroundings, flight, flip>>

ReadWindows(c) ==
    /\ tx[c].stage = "windows"
    /\ Continue(c, [tx[c] EXCEPT !.stage = "topology", !.seen = [w \in Open |-> frame[w]]])
    /\ UNCHANGED <<surroundings, flight, world, flip, memory, published, health>>

\* The draft is a copy of the world of this moment.
Drafted(c) ==
    LET t == tx[c] IN [t EXCEPT !.draft = world, !.targets = world.members \cap DOMAIN t.seen]

Writes(c, t) == {w \in t.targets : t.seen[w] # Place(c, t.policy)}

\* The topology is read; from here to the first write there is no await.
Plan(c) ==
    /\ tx[c].stage = "topology"
    /\ LET t == Drafted(c) IN
       \/ /\ c \in Deferred                         \* the reducer changes nothing
          /\ Release(c, "completed")
          /\ UNCHANGED <<world, learning, published, health, flight>>
       \/ /\ world.paused /\ Writes(c, t) # {}
          /\ Abort(c, t, learning, "failed")
          /\ UNCHANGED flight
       \/ /\ ~world.paused /\ ~(Writes(c, t) \subseteq DOMAIN t.taken)
          /\ Abort(c, t, learning, "died")          \* captured.get(id)! is undefined
          /\ UNCHANGED flight
       \/ /\ ~world.paused /\ Writes(c, t) # {} /\ Writes(c, t) \subseteq DOMAIN t.taken
          /\ Issue(c, t, Writes(c, t), {})
          /\ UNCHANGED <<world, learning, published, health>>
       \/ /\ Writes(c, t) = {} /\ Conclude(c, t, learning)
          /\ UNCHANGED flight
    /\ UNCHANGED <<surroundings, flip, stored>>

(***************************************************************************)
(* The sidecar.                                                            *)
(***************************************************************************)

\* A write is carried out, whether or not somebody still waits for it.  The
\* sidecar checks what has the window's id just before.
Land(o) ==
    /\ o \in flight
    /\ flight' = flight \ {o}
    /\ \E r \in Results \ {"none"} :
          /\ r = "stale" <=> ident[o.win] # o.ident
          /\ \E f \in CASE r = "exact" -> {o.frame}
                        [] r = "stale" -> {frame[o.win]}
                        [] r = "refused" -> {frame[o.win], Halfway(o.by)}
                        [] OTHER -> {Halfway(o.by)} :
                /\ frame' = [frame EXCEPT ![o.win] = f]
                /\ mover' = [mover EXCEPT ![o.win] =
                      IF f = frame[o.win] THEN @
                      ELSE <<o.by, IF o.restoring THEN "restore"
                                   ELSE IF o.heard THEN "plan" ELSE "late">>]
          /\ tx' = IF o.heard THEN [tx EXCEPT ![o.by].result[o.win] = r] ELSE tx
    /\ UNCHANGED <<failures, ident, disturbances, world, flip, memory, published, health, gate>>

\* A call other than the first batch fails: the window counts as refused.
CallFails(o) ==
    /\ o \in flight /\ o.heard
    /\ tx[o.by].stage = "restore" \/ tx[o.by].keep \/ tx[o.by].again # {}
    /\ Abandon({o})
    /\ tx' = [tx EXCEPT ![o.by].result[o.win] = "refused"]
    /\ UNCHANGED <<desktop, world, flip, memory, published, health, gate>>

BatchFails(c) ==
    /\ tx[c].stage = "writing" /\ ~tx[c].keep /\ tx[c].again = {} /\ Heard(c) # {}
    /\ Abandon(Heard(c))
    /\ Abort(c, tx[c], learning, "failed")
    /\ UNCHANGED <<desktop, flip>>

(***************************************************************************)
(* Verification, other policies, commit.                                   *)
(***************************************************************************)

\* Read the captured windows again, to check where they are or to plan anew.
Reread(c, t, placed) ==
    Continue(c, [t EXCEPT !.stage = "refresh", !.todo = DOMAIN t.taken, !.placed = placed,
                     !.keep = @ \/ ~placed])

\* The windows whose write had this result.
Resulted(t, r) == {w \in DOMAIN t.result : t.result[w] = r}

\* Those that are not where they should be, and of them those that are written once more.
Bad(t) == Resulted(t, "progressing") \cup Resulted(t, "refused")
Unsettled(t, w) == t.result[w] = "progressing" /\ w \notin t.again /\ ~t.keep

\* What is learned from windows that hold other frames.
Lessons(c, t) == IF Resulted(t, "clamp") = {} THEN learning ELSE learning \cup {c}

\* All that was asked for has been answered.
Judge(c) ==
    /\ tx[c].stage = "writing" /\ Heard(c) = {}
    /\ LET t == tx[c] IN
       \/ /\ Resulted(t, "stale") # {}
          /\ Abort(c, t, learning, "failed")
          /\ UNCHANGED flight
       \/ /\ Resulted(t, "stale") = {} /\ learning' = Lessons(c, t)
          /\ \/ \E w \in Bad(t) :          \* write once more, with the retry ladder
                   /\ Unsettled(t, w)
                   /\ Issue(c, [t EXCEPT !.again = @ \cup {w}], {w}, {})
             \/ /\ \E w \in Bad(t) : ~Unsettled(t, w)
                /\ c \in Retries
                /\ Reread(c, t, FALSE) /\ UNCHANGED flight
             \/ /\ Bad(t) = {} /\ t.todo # {}
                /\ \E w \in t.todo : Issue(c, t, {w}, t.todo \ {w})
             \/ /\ Bad(t) = {} /\ t.todo = {} /\ c \in Retries
                /\ Reread(c, t, TRUE) /\ UNCHANGED flight
          /\ UNCHANGED <<world, stored, published, health>>
       \/ /\ Resulted(t, "stale") = {}
          /\ \E w \in Bad(t) : ~Unsettled(t, w)
          /\ c \notin Retries
          /\ Abort(c, t, Lessons(c, t), "failed")
          /\ UNCHANGED flight
       \/ /\ Resulted(t, "stale") = {} /\ Bad(t) = {} /\ t.todo = {} /\ c \notin Retries
          /\ \/ Conclude(c, t, Lessons(c, t))
             \/ Abort(c, t, Lessons(c, t), "failed")      \* the focus failed
          /\ UNCHANGED flight
    /\ UNCHANGED <<surroundings, flip>>

\* Writes that were answered well are not read back (CommittedAsPlaced).
Regression_TrustWrites(c, t) == t.placed

InPlace(c, t) == t.placed /\ \A w \in t.targets : t.seen[w] = Place(c, t.policy)

\* Everything is in place, or another policy is tried, as long as there is one.
Decide(c, t) ==
    IF InPlace(c, t)
    THEN Conclude(c, t, learning) /\ UNCHANGED flight
    ELSE LET u == [t EXCEPT !.keep = TRUE, !.result = <<>>] IN
         \/ Abort(c, u, learning, "failed") /\ UNCHANGED flight
         \/ \E k \in t.policy + 1 .. Policies :
               /\ LET v == [u EXCEPT !.policy = k]
                  IN  \E w \in Writes(c, v) : Issue(c, v, {w}, Writes(c, v) \ {w})
               /\ UNCHANGED <<world, memory, published, health>>

Refresh(c, w) ==
    /\ tx[c].stage = "refresh" /\ w \in tx[c].todo
    /\ LET t == tx[c]
           u == [t EXCEPT !.todo = @ \ {w}, !.seen[w] = frame[w]]
       IN
       \/ Abort(c, t, learning, "failed") /\ UNCHANGED flight
       \/ /\ ident[w] = t.taken[w].ident
          /\ IF u.todo # {}
             THEN Continue(c, u) /\ UNCHANGED <<world, memory, published, health, flight>>
             ELSE Decide(c, u)
    /\ UNCHANGED <<surroundings, flip>>

\* Saving cannot be interrupted.
Persist(c) ==
    /\ tx[c].stage = "persist"
    /\ \/ stored' = learning /\ UNCHANGED learning /\ Commit(c, tx[c])
       \/ Abort(c, tx[c], learning, IF tx[c].late THEN "timeout" ELSE "failed")
    /\ UNCHANGED <<surroundings, flight, flip>>

\* The deadline, or stop().
Interrupt(c) ==
    /\ Abandon(Heard(c))
    /\ \/ /\ tx[c].stage = "capture"
          /\ Release(c, "timeout")
          /\ UNCHANGED <<world, learning, stored, published, health>>
       \/ /\ tx[c].stage \in Interruptible \ {"capture"}
          /\ Abort(c, tx[c], learning, "timeout")
       \/ /\ tx[c].stage = "persist" /\ ~tx[c].late
          /\ Continue(c, [tx[c] EXCEPT !.late = TRUE])
          /\ UNCHANGED <<world, learning, stored, published, health>>
    /\ UNCHANGED <<desktop, flip>>

(***************************************************************************)
(* Rollback, which nothing interrupts.                                     *)
(***************************************************************************)

\* A captured window is read.  If it is the same and not where it was, it is
\* written; if it cannot be told, the rollback is incomplete.
RestoreRead(c, w) ==
    /\ tx[c].stage = "restore" /\ tx[c].result = <<>> /\ w \in tx[c].todo
    /\ LET t == tx[c]
           cap == t.taken[w]
           u == [t EXCEPT !.todo = @ \ {w}]
       IN
       \/ /\ UNCHANGED <<memory, flight>>
          /\ RestoreOn(c, [u EXCEPT !.incomplete = TRUE])
       \/ /\ ident[w] = cap.ident /\ frame[w] = cap.frame
          /\ UNCHANGED <<memory, flight>> /\ RestoreOn(c, u)
       \/ /\ ident[w] = cap.ident /\ frame[w] # cap.frame
          /\ Continue(c, [t EXCEPT !.result = [v \in {w} |-> "none"]])
          /\ flight' = flight \cup {[win |-> w, frame |-> cap.frame, ident |-> cap.ident,
                                     by |-> c, restoring |-> TRUE, heard |-> TRUE]}
          /\ UNCHANGED <<memory, health>>
    /\ UNCHANGED <<surroundings, world, flip, published>>

\* A restoring write that fails is not counted (RestoredOrDegraded).
Regression_RestoreUnchecked(c) ==
    /\ tx[c].stage = "restore" /\ tx[c].result # <<>> /\ Heard(c) = {}
    /\ UNCHANGED memory
    /\ \E w \in DOMAIN tx[c].result :
          RestoreOn(c, [tx[c] EXCEPT !.todo = @ \ {w}, !.result = <<>>])
    /\ UNCHANGED <<surroundings, flight, world, flip, published>>

RestoreWritten(c) ==
    /\ tx[c].stage = "restore" /\ tx[c].result # <<>> /\ Heard(c) = {}
    /\ UNCHANGED memory
    /\ LET t == tx[c] IN
       \E w \in DOMAIN t.result :
          RestoreOn(c, [t EXCEPT !.todo = @ \ {w}, !.result = <<>>,
                                 !.incomplete = @ \/ t.result[w] # "exact"])
    /\ UNCHANGED <<surroundings, flight, world, flip, published>>

\* What other policies taught is kept, if it can be saved.
Forget(c) ==
    /\ tx[c].stage = "forget"
    /\ \/ stored' = learning /\ UNCHANGED <<learning, health>>
       \/ learning' = stored /\ health' = "degraded" /\ UNCHANGED stored
    /\ Release(c, tx[c].receipt)
    /\ UNCHANGED <<surroundings, flight, world, flip, published>>

(***************************************************************************)
(* Everybody else.                                                         *)
(***************************************************************************)

\* The user moves a window, or its id comes to name another or none.
Disturb(w) ==
    /\ disturbances < MaxDisturbances
    /\ disturbances' = disturbances + 1
    /\ \E i \in Idents : ident' = [ident EXCEPT ![w] = i]
    /\ frame' = [frame EXCEPT ![w] = Elsewhere]
    /\ mover' = [mover EXCEPT ![w] = <<NoOne, "user">>]
    /\ UNCHANGED <<failures, flight, world, flip, memory, published, health, gate, tx>>

\* A reconciliation cycle, under the gate, makes the members what is open.
Cycle ==
    /\ gate = NoOne /\ world.members # Open
    /\ world' = [world EXCEPT !.members = Open]
    /\ UNCHANGED <<surroundings, flight, flip, memory, published, health, gate, tx>>

\* Pause, resume and toggle take no gate.  They await the native call.
BeginSwitch(p) ==
    /\ flip[p] = "idle"
    /\ flip' = [flip EXCEPT ![p] =
          IF KindOf[p] = "pause" \/ (KindOf[p] = "toggle" /\ ~world.paused)
          THEN "pause" ELSE "resume"]
    /\ UNCHANGED <<surroundings, flight, world, memory, published, health, gate, tx>>

EndSwitch(p) ==
    /\ flip[p] \in {"pause", "resume"}
    /\ flip' = [flip EXCEPT ![p] = "done"]
    /\ world' = [world EXCEPT !.paused = (flip[p] = "pause")]
    /\ UNCHANGED <<surroundings, flight, memory, published, health, gate, tx>>

Working(c) ==
    \/ ReadFails(c) \/ ReadWindows(c) \/ Plan(c) \/ BatchFails(c) \/ Judge(c)
    \/ Persist(c) \/ RestoreWritten(c) \/ Forget(c)
    \/ \E w \in Windows : Capture(c, w) \/ Refresh(c, w) \/ RestoreRead(c, w)

Next ==
    \/ \E c \in Commands :
          Begin(c) \/ EnterGate(c) \/ EnterInVain(c) \/ Working(c) \/ Interrupt(c)
    \/ \E o \in flight : Land(o) \/ CallFails(o)
    \/ \E w \in Windows : Disturb(w)
    \/ Cycle
    \/ \E p \in Switches : BeginSwitch(p) \/ EndSwitch(p)

\* Calls of the adapter return, and a waiter of the gate gets it when it is free.
Fairness ==
    /\ \A c \in Commands : WF_vars(EnterGate(c)) /\ WF_vars(Working(c))
    /\ WF_vars(\E o \in flight : o.heard /\ (Land(o) \/ CallFails(o)))

Spec == Init /\ [][Next]_vars /\ Fairness

-----------------------------------------------------------------------------
(***************************************************************************)
(* Properties.                                                             *)
(***************************************************************************)

\* Nothing of a failed command stays on the desktop unless health says so: once
\* it has ended, no window is where its plan put it.  (A write that lands after the
\* engine has given up on it and has rolled back is not the plan's any more.)  Nor
\* is anything left in memory that a failed command learned: between commands,
\* memory and store agree.
RestoredOrDegraded ==
    /\ \A c \in Commands \ published :
          tx[c].stage \in Receipts /\ health = "healthy"
              => \A w \in Windows : mover[w] # <<c, "plan">>
    /\ gate = NoOne => learning = stored

\* A window that took over the id of a captured one is never moved, neither by
\* the plan nor by the rollback.
MovesOnlyCaptured ==
    \A c \in Commands, w \in Windows :
        tx[c].stage \in InTransaction /\ mover[w][1] = c
            => w \in DOMAIN tx[c].taken /\ tx[c].taken[w].ident = ident[w]

\* A command is committed only when the windows it moved are where the policy
\* wants them, or, without other policies to try, where they stably stop short.
CommittedAsPlaced ==
    [][\A c \in published' \ published : \A w \in tx[c].targets :
          \/ frame[w] = Place(c, tx[c].policy)
          \/ mover[w] # <<c, "plan">>
          \/ c \notin Retries /\ tx[c].result[w] = "clamp"]_vars

\* The comment on executeCompound: all of a command's effect or none, and not
\* undone by the next command.
Promise == INSTANCE AtomicCommit WITH
    status <- [c \in Commands |-> IF c \in published THEN "committed"
                                  ELSE IF tx[c].stage \in Receipts THEN "aborted" ELSE "open"],
    effects <- world.done,
    announced <- published

Atomic == Promise!Spec

\* A command that waits for the gate ends, and so does its rollback.
EveryCommandEnds == \A c \in Commands : (tx[c].stage = "waiting") ~> (tx[c].stage \in Receipts)

=============================================================================
