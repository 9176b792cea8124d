----------------------------- MODULE Workspaces -----------------------------
(***************************************************************************)
(* The world the engine keeps and the rules that make the desktop follow   *)
(* it: which workspace each window belongs to, which workspace each        *)
(* display shows, what is parked (packages/layout/src/world.ts, rules/,    *)
(* and the reducers and executePlan of engine.ts).                         *)
(*                                                                         *)
(* A reconciliation cycle holds the gate: it observes, plans with all      *)
(* rules, applies the plan action by action, verifies, and starts over     *)
(* until a pass changes nothing.  float, tile, manage, unmanage and        *)
(* setWorkspaceMode take no gate and interleave with it and with the       *)
(* compound commands, which commit a draft.                                *)
(*                                                                         *)
(* A BSP tree is abstracted to the set of its windows, a tiled frame to    *)
(* the display and the windows that share it, every parking corner to      *)
(* Parked, any other place on the desktop to Stray.                        *)
(***************************************************************************)
EXTENDS Naturals, FiniteSets, Sequences, SequencesExt

CONSTANTS
    Windows, Displays, Names,
    Main,           \* the workspace "1", which is focused at first
    Configured,     \* the workspaces of the configuration: they exist from the start
    MainDisplay,    \* the primary display, if it is connected
    None,
    ClassOf,        \* "normal", "transient" or "system" (system or uncertain)
    ParentOf,       \* the window of its process that a transient belongs to
    Affinity,       \* the workspace that the configuration assigns a window to
    Preferred,      \* the display that the configuration prefers for a workspace
    Room,           \* how many windows can share a display
    Stray, Parked,
    MaxPasses,      \* MAX_CONVERGENCE_PASSES
    Inventories,    \* bound: which windows may be there at first
    Budget          \* bound: how many events, commands and failures there may be

ASSUME WorkspacesAssumption ==
    /\ IsFiniteSet(Windows) /\ IsFiniteSet(Names)
    /\ Main \in Configured /\ Configured \subseteq Names /\ MainDisplay \in Displays
    /\ None \notin Names \cup Displays \cup Windows
    /\ ParentOf \in [Windows -> Windows \cup {None}]
    /\ Affinity \in [Windows -> Names \cup {None}]
    /\ Preferred \in [Names -> Displays \cup {None}]
    /\ \A n \in Names \ Configured : Preferred[n] = None
    /\ ClassOf \in [Windows -> {"normal", "transient", "system"}]
    /\ Room \in [Displays -> Nat] /\ MaxPasses \in Nat \ {0}
    /\ Inventories \subseteq (SUBSET Windows) \ {{}} /\ Budget \subseteq Nat \X Nat \X Nat

VARIABLES
    live, plugged,  \* the desktop: windows that exist, displays that are connected
    place,          \* where each window is
    world,          \* World: what was observed, the workspaces, the focused one
    tombs,          \* tombstones
    managed, unmanaged,     \* overrides
    pending,        \* a cycle has been asked for
    stage, pass,    \* of the cycle that holds the gate
    plan,           \* the actions it has still to apply
    before,         \* the fingerprint from the beginning of the pass
    moved,          \* where the windows that the plan moved were seen before
    written, removed,
    verified,       \* verifiedWindows: where windows that this cycle wrote were read back
    draft,          \* of the compound command that holds the gate, or None
    converged,      \* history: the last thing under the gate was a cycle that converged
    used            \* history: of the budget

desktop == <<live, plugged, place>>
engine == <<world, tombs, managed, unmanaged>>
cycle == <<stage, pass, plan, before, moved, written, removed, verified>>
vars == <<desktop, engine, pending, cycle, draft, converged, used>>

Space == [known : BOOLEAN, mode : {"bsp", "floating"}, tiled : SUBSET Windows,
          floating : SUBSET Windows, parked : SUBSET Windows,
          visible : Displays \cup {None}, pinned : Displays \cup {None}]
Tile(d, S) == [on |-> d, among |-> S]
Places == {Stray, Parked} \cup [on : Displays, among : SUBSET Windows]
Seen == UNION {[S -> Places] : S \in SUBSET Windows}
EmptySpace(known) ==
    [known |-> known, mode |-> "bsp", tiled |-> {}, floating |-> {}, parked |-> {},
     visible |-> None, pinned |-> None]

Init ==
    /\ live \in Inventories /\ plugged = Displays
    /\ place = [x \in Windows |-> Stray]
    /\ world = [windows |-> <<>>, displays |-> {}, focused |-> Main,
                spaces |-> [n \in Names |-> EmptySpace(n \in Configured)]]
    /\ tombs = <<>> /\ managed = {} /\ unmanaged = {}
    /\ pending = TRUE
    /\ stage = "idle" /\ pass = 0 /\ plan = <<>> /\ before = None
    /\ moved = <<>> /\ written = {} /\ removed = FALSE /\ verified = <<>>
    /\ draft = None
    /\ converged = FALSE
    /\ used = <<0, 0, 0>>

Spend(i) == used' = [used EXCEPT ![i] = @ + 1] /\ used' \in Budget
Event == Spend(1)
Command == Spend(2)
Failure == Spend(3)

Ignored(x) == ClassOf[x] = "system" /\ x \notin managed

Members(space) == space.tiled \cup space.floating
Homes(w, x) == {n \in Names : x \in Members(w.spaces[n])}
Homeless(w) == {x \in DOMAIN w.windows : Homes(w, x) = {}}

Primary(w) == IF MainDisplay \in w.displays THEN MainDisplay ELSE CHOOSE d \in w.displays : TRUE

\* The display that shows a workspace, or would.
Host(w, n) ==
    LET s == w.spaces[n]
    IN  SelectSeq(<<s.visible, s.pinned, Preferred[n], Primary(w)>>,
                  LAMBDA d : d \in w.displays)[1]

(***************************************************************************)
(* Geometry.                                                               *)
(***************************************************************************)

Fits(d, S) == Cardinality(S) <= Room[d]

\* The layout of the workspace applies: it is a BSP on a connected display.
LaidOut(w, n) == w.spaces[n].mode = "bsp" /\ w.spaces[n].visible \in w.displays

Untiled(w, n) ==
    LET s == w.spaces[n]
    IN  IF LaidOut(w, n) /\ Fits(s.visible, s.tiled)
        THEN {x \in s.tiled \cap DOMAIN w.windows : w.windows[x] # Tile(s.visible, s.tiled)} ELSE {}

InPlace(w, n, x) == x \in w.spaces[n].parked /\ w.windows[x] = Parked

Unparked(w, n) ==
    {x \in Members(w.spaces[n]) \cap DOMAIN w.windows :
        ClassOf[x] # "transient" /\ ~InPlace(w, n, x)}

(***************************************************************************)
(* Reducers.                                                               *)
(***************************************************************************)

With(w, n, space) == [w EXCEPT !.spaces[n] = space]

\* A workspace that is created is taken to be visible where the focused one is.
Ensure(w, n) ==
    IF w.spaces[n].known THEN w
    ELSE LET there == w.spaces[w.focused].visible
         IN  With(w, n, [EmptySpace(TRUE) EXCEPT !.visible = IF there # None THEN there ELSE Primary(w)])

\* Regression (CalmCyclesConverge): who leaves stays among the floating ones.
Regression_Without(space, x) == [space EXCEPT !.tiled = @ \ {x}, !.parked = @ \ {x}]

Without(space, x) ==
    [space EXCEPT !.tiled = @ \ {x}, !.floating = @ \ {x}, !.parked = @ \ {x}]

Leave(w, x) == [w EXCEPT !.spaces = [n \in Names |-> Without(@[n], x)]]

Join(w, n, x, floating) ==
    LET v == Ensure(w, n)
    IN  IF floating THEN [v EXCEPT !.spaces[n].floating = @ \cup {x}]
        ELSE [v EXCEPT !.spaces[n].tiled = @ \cup {x}]

\* Whom revealing n on d displaces.
Displaced(w, n, d) == {m \in Names \ {n} : w.spaces[m].visible = d}

Show(w, n, d) ==
    LET gone == Displaced(w, n, d)
        one == {m \in gone : m = CHOOSE k \in gone : TRUE}
    IN  [w EXCEPT !.spaces = [m \in Names |->
            [w.spaces[m] EXCEPT !.visible = IF m = n THEN d ELSE IF m \in one THEN None ELSE @]]]

(***************************************************************************)
(* The rules, and the plan they make together.                             *)
(***************************************************************************)

Each(S, Action(_)) ==
    LET q == SetToSeq(S) IN [i \in 1..Len(q) |-> Action(q[i])]

RemoveWindow(x) == [kind |-> "remove", win |-> x]
InsertWindow(x, n, floating) == [kind |-> "insert", win |-> x, space |-> n, floating |-> floating]
SetFrame(x, where) == [kind |-> "move", win |-> x, place |-> where]
FloatWindow(x) == [kind |-> "float", win |-> x]
ParkWorkspace(n) == [kind |-> "park", space |-> n]
ParkOne(n, x) == [kind |-> "parkOne", space |-> n, win |-> x]
RevealWorkspace(n, d) == [kind |-> "reveal", space |-> n, on |-> d]
Uncover(n, d) == [kind |-> "uncover", space |-> n, on |-> d]
Settle(x, where) == [kind |-> "settle", win |-> x, place |-> where]

PruneDeadMembership(w) == Each({x \in Windows \ DOMAIN w.windows : Homes(w, x) # {}}, RemoveWindow)

\* Regression (ReturnsHome): returning windows go to the focused workspace.
Regression_RestoreMembership(w, ts) ==
    Each(DOMAIN ts \cap Homeless(w), LAMBDA x : InsertWindow(x, w.focused, ts[x].floating))

RestoreMembership(w, ts) ==
    Each(DOMAIN ts \cap Homeless(w), LAMBDA x : InsertWindow(x, ts[x].space, ts[x].floating))

Target(w, x) ==
    IF Affinity[x] # None /\ w.spaces[Affinity[x]].known THEN Affinity[x] ELSE w.focused

\* As many as there is room for, in some order: the window is moved to its tile, which
\* is planned on top of the earlier ones, and inserted.  The others wait.
AssignNewWindows(w, ts) ==
    LET candidates == {x \in Homeless(w) \ DOMAIN ts :
                          ~Ignored(x) /\ ClassOf[x] # "transient"}
        host(x) == Host(w, Target(w, x))
        among(S, x) == w.spaces[Target(w, x)].tiled \cup {y \in S : Target(w, y) = Target(w, x)}
        fitting == {S \in SUBSET candidates : \A x \in S : Fits(host(x), among(S, x))}
        most == CHOOSE S \in fitting : \A T \in fitting : Cardinality(T) <= Cardinality(S)
        order == SetToSeq(most)
        earlier(i) == {order[k] : k \in 1..i}
    IN  [k \in 1..(2 * Len(order)) |->
            LET i == (k + 1) \div 2
                x == order[i]
            IN  IF k % 2 = 1 THEN SetFrame(x, Tile(host(x), among(earlier(i), x)))
                ELSE InsertWindow(x, Target(w, x), FALSE)]

\* A dialog floats where its parent is, and waits if its parent has no home.
TransientFollowsParent(w) ==
    LET floats(x) == \E n \in Names : x \in w.spaces[n].floating
        parent(x) == IF ParentOf[x] \in DOMAIN w.windows /\ ~floats(ParentOf[x])
                     THEN Homes(w, ParentOf[x]) ELSE {w.focused}
        ready == {x \in Homeless(w) : ClassOf[x] = "transient" /\ parent(x) # {}}
    IN  Each(ready, LAMBDA x : InsertWindow(x, CHOOSE n \in parent(x) : TRUE, TRUE))

\* For the windows of each workspace that a rule selects.
InSpaces(Selected(_), Action(_, _)) ==
    Each({p \in Names \X Windows : p[2] \in Selected(p[1])}, LAMBDA p : Action(p[1], p[2]))

\* tile-workspaces, and reconcile-drift whose actions are the same.
TileWorkspaces(w) ==
    InSpaces(LAMBDA n : Untiled(w, n),
             LAMBDA n, x : SetFrame(x, Tile(w.spaces[n].visible, w.spaces[n].tiled)))

\* What has no layout floats.
ClampToCapabilities(w) ==
    InSpaces(LAMBDA n : {x \in w.spaces[n].tiled \cap DOMAIN w.windows :
                            /\ LaidOut(w, n) /\ ~Fits(w.spaces[n].visible, w.spaces[n].tiled)
                            /\ ~Ignored(x)},
             LAMBDA n, x : FloatWindow(x))

\* Regression (ConvergedIsArranged): windows that are floating are not parked.
Regression_NeedsPark(w, n) ==
    \E x \in Unparked(w, n) : ~Ignored(x) /\ x \in w.spaces[n].tiled

NeedsPark(w, n) == \E x \in Unparked(w, n) : ~Ignored(x)

ParkInvisibleWorkspaces(w) ==
    Each({n \in Names \ {w.focused} : w.spaces[n].visible = None /\ NeedsPark(w, n)}, ParkWorkspace)

RevealFocusedWorkspace(w) ==
    IF w.spaces[w.focused].visible \in w.displays THEN <<>>
    ELSE <<RevealWorkspace(w.focused, Host(w, w.focused))>>

\* A floating window that is off the screen without having been parked.
RecoverLostWindows(w) ==
    InSpaces(LAMBDA n : {x \in w.spaces[n].floating \cap DOMAIN w.windows :
                            /\ w.spaces[n].visible \in w.displays
                            /\ w.windows[x] = Parked
                            /\ \A m \in Names : x \notin w.spaces[m].parked},
             LAMBDA n, x : SetFrame(x, Stray))

Rules(w, ts) ==
    PruneDeadMembership(w) \o RestoreMembership(w, ts) \o AssignNewWindows(w, ts)
        \o TransientFollowsParent(w) \o TileWorkspaces(w) \o ClampToCapabilities(w)
        \o ParkInvisibleWorkspaces(w) \o RevealFocusedWorkspace(w) \o RecoverLostWindows(w)

(***************************************************************************)
(* A cycle.                                                                *)
(***************************************************************************)

Gate == stage = "idle" /\ draft = None

\* convergenceFingerprint: what of the world clients can see.
Fingerprint(w) ==
    <<[w EXCEPT !.spaces = [n \in Names |-> [@[n] EXCEPT !.parked = {}]]],
      {x \in DOMAIN w.windows : \E n \in Names : x \in w.spaces[n].parked}>>

BeginCycle ==
    /\ Gate /\ pending
    /\ pending' = FALSE
    /\ stage' = "observe" /\ pass' = 1
    /\ before' = Fingerprint(world)
    /\ converged' = FALSE
    /\ UNCHANGED <<desktop, engine, plan, moved, written, removed, verified, draft, used>>

\* Both inventories have been read.  Tombstones expire after five minutes, the
\* windows become the world's, and the rules run, all in one turn.  Of a window
\* that the cycle has written, the frame that was read back then is taken.
Observe ==
    /\ stage = "observe"
    /\ world' = [world EXCEPT
           !.windows = [x \in live |-> IF x \in DOMAIN verified THEN verified[x] ELSE place[x]],
           !.displays = plugged]
    /\ \E expired \in {{}, DOMAIN tombs} :
          tombs' = [x \in DOMAIN tombs \ expired |-> tombs[x]]
    /\ plan' = Rules(world', tombs')
    /\ stage' = "apply"
    /\ UNCHANGED <<desktop, managed, unmanaged, pending, pass, before, moved, written, removed,
                   verified, draft, converged, used>>

\* An action of the plan, and what it is replaced by: nothing, or its parts.
Applying(kind) == stage = "apply" /\ plan # <<>> /\ Head(plan).kind = kind
Go(parts) ==
    /\ plan' = parts \o Tail(plan)
    /\ UNCHANGED <<live, plugged, managed, unmanaged, pending, stage, pass, before, verified,
                   draft, converged, used>>
StillThere == UNCHANGED <<place, moved, written>>

\* doRemove, which also runs outside the gate.
Bury(x) ==
    LET home == world.spaces[CHOOSE n \in Homes(world, x) : TRUE]
        name == CHOOSE n \in Homes(world, x) : TRUE
    IN  IF Homes(world, x) = {} THEN UNCHANGED <<world, tombs>>
        ELSE /\ world' = With(world, name, Without(home, x))
             /\ tombs' = [y \in DOMAIN tombs \cup {x} |->
                    IF y = x THEN [space |-> name, floating |-> x \in home.floating,
                                   surviving |-> home.tiled \ {x}, parked |-> x \in home.parked]
                    ELSE tombs[y]]

ApplyRemove ==
    /\ Applying("remove")
    /\ Bury(Head(plan).win)
    /\ removed' = TRUE
    /\ StillThere /\ Go(<<>>)

\* Regression (WorldIsConsistent): what the rules planned is inserted whatever happened
\* meanwhile.
Regression_AlreadyHome(x) == FALSE

AlreadyHome(x) == Homes(world, x) # {}

\* The parked frame comes back with a floating window, and with a tiled one if
\* its workspace's tree is as it left it.
ApplyInsert ==
    LET a == Head(plan)
        old == IF a.win \in DOMAIN tombs THEN {tombs[a.win]} ELSE {}
        same == {t \in old : /\ t.space = a.space /\ ~t.floating
                             /\ a.win \in DOMAIN world.windows
                             /\ t.surviving = world.spaces[a.space].tiled}
        floating == a.floating /\ same = {}
        keep == \E t \in old : t.parked /\ (floating \/ t \in same)
        joined == Join(world, a.space, a.win, floating)
    IN  /\ Applying("insert")
        /\ IF AlreadyHome(a.win) THEN UNCHANGED <<world, tombs>>
           ELSE /\ world' = IF keep THEN [joined EXCEPT !.spaces[a.space].parked = @ \cup {a.win}]
                            ELSE joined
                /\ tombs' = [x \in DOMAIN tombs \ {a.win} |-> tombs[x]]
        /\ StillThere /\ UNCHANGED removed /\ Go(<<>>)

\* doFloat and doTile, which also run outside the gate.
Floated(x) ==
    LET homes == {n \in Names : x \in world.spaces[n].tiled}
        n == CHOOSE k \in homes : TRUE
    IN  IF homes = {} THEN world
        ELSE Join(With(world, n, Without(world.spaces[n], x)), n, x, TRUE)

Tiled(x) ==
    LET homes == {n \in Names : x \in world.spaces[n].floating}
        n == CHOOSE k \in homes : TRUE
    IN  IF homes = {} THEN world
        ELSE Join(With(world, n, Without(world.spaces[n], x)), n, x, FALSE)

ApplyFloat ==
    /\ Applying("float")
    /\ world' = Floated(Head(plan).win)
    /\ StillThere /\ UNCHANGED <<tombs, removed>> /\ Go(<<>>)

\* The display that a place is on, if it is on one, is connected.
Reachable(where) == where \notin {Stray, Parked} => where.on \in plugged

\* setFrame; "settle" is the write inside a reveal, which nothing undoes if the
\* plan fails and which the world learns of when it is verified.
ApplyMove ==
    LET a == Head(plan)
    IN  /\ Applying("move") \/ Applying("settle")
        /\ a.win \in live /\ Reachable(a.place)
        /\ place' = [place EXCEPT ![a.win] = a.place]
        /\ written' = written \cup {a.win}
        /\ IF a.kind = "settle" THEN UNCHANGED <<world, moved>>
           ELSE /\ world' = [world EXCEPT !.windows[a.win] = a.place]
                /\ moved' = [x \in DOMAIN moved \cup {a.win} |->
                       IF x \in DOMAIN moved THEN moved[x] ELSE world.windows[x]]
        /\ UNCHANGED <<tombs, removed>> /\ Go(<<>>)

ApplyPark ==
    LET n == Head(plan).space
    IN  /\ Applying("park")
        /\ StillThere /\ UNCHANGED <<world, tombs, removed>>
        /\ Go(Each(Unparked(world, n), LAMBDA x : ParkOne(n, x)))

\* The window is noted as parked in the workspace, its member still or not.
ApplyParkOne ==
    LET a == Head(plan)
    IN  /\ Applying("parkOne")
        /\ a.win \in live
        /\ place' = [place EXCEPT ![a.win] = Parked]
        /\ written' = written \cup {a.win}
        /\ world' = [world EXCEPT !.spaces[a.space].parked = @ \cup {a.win}]
        /\ UNCHANGED <<tombs, removed, moved>> /\ Go(<<>>)

\* revealWorkspace: park whom it displaces, change both, tile.
ApplyReveal ==
    LET a == Head(plan)
        gone == Displaced(world, a.space, a.on)
        one == {n \in gone : n = CHOOSE m \in gone : TRUE}
    IN  /\ Applying("reveal")
        /\ world' = Ensure(world, a.space)
        /\ StillThere /\ UNCHANGED <<tombs, removed>>
        /\ Go((IF one = {} THEN <<>> ELSE <<ParkWorkspace(CHOOSE n \in one : TRUE)>>)
                 \o <<Uncover(a.space, a.on)>>)

ApplyUncover ==
    LET a == Head(plan)
        w == Show(world, a.space, a.on)
    IN  /\ Applying("uncover")
        /\ world' = w
        /\ StillThere /\ UNCHANGED <<tombs, removed>>
        /\ Go(Each(Untiled(w, a.space), LAMBDA x : Settle(x, Tile(a.on, w.spaces[a.space].tiled))))

EndCycle(success) ==
    /\ stage' = "idle" /\ pass' = 0 /\ plan' = <<>> /\ before' = None
    /\ moved' = <<>> /\ written' = {} /\ removed' = FALSE /\ verified' = <<>>
    /\ converged' = success

\* A write is refused, or has lost its window or its display: the plan stops.
\* The windows that it moved get their positions back, though not their sizes,
\* unless that fails too; the written ones are read again.  The cycle fails.
ApplyFails ==
    /\ stage = "apply" /\ plan # <<>> /\ Head(plan).kind \in {"move", "settle", "parkOne"}
    /\ \/ /\ \/ Head(plan).win \notin live
             \/ Head(plan).kind # "parkOne" /\ ~Reachable(Head(plan).place)
          /\ UNCHANGED used
       \/ Failure
    /\ \E back \in [DOMAIN moved \cap live -> {"frame", "position", "lost"}] :
          place' = [x \in Windows |->
              CASE x \notin DOMAIN back \/ (x \in DOMAIN back /\ back[x] = "lost") -> place[x]
                [] back[x] = "frame" /\ Reachable(moved[x]) -> moved[x]
                [] OTHER -> Stray]
    /\ world' = [world EXCEPT !.windows = [x \in DOMAIN @ |->
                    IF x \in written \cap live THEN place'[x] ELSE @[x]]]
    /\ EndCycle(FALSE)
    /\ UNCHANGED <<live, plugged, tombs, managed, unmanaged, pending, draft>>

LastPass == pass = MaxPasses

\* What the plan wrote is read back.  Then the cycle is over if the pass has
\* changed nothing, and another pass begins otherwise.
Verify ==
    LET w == [world EXCEPT !.windows = [x \in DOMAIN @ |-> IF x \in written THEN place[x] ELSE @[x]]]
        still == Fingerprint(w) = before /\ ~removed
    IN  /\ stage = "apply" /\ plan = <<>>
        /\ IF ~(written \subseteq live) THEN EndCycle(FALSE) /\ UNCHANGED world
           ELSE /\ world' = w
                /\ \/ still /\ EndCycle(TRUE)
                   \/ ~still /\ LastPass /\ EndCycle(FALSE)
                   \/ /\ ~still /\ ~LastPass
                      /\ stage' = "observe" /\ pass' = pass + 1 /\ before' = Fingerprint(w)
                      /\ verified' = [x \in DOMAIN verified \cup written |->
                             IF x \in written THEN place[x] ELSE verified[x]]
                      /\ moved' = <<>> /\ written' = {} /\ removed' = FALSE
                      /\ UNCHANGED <<plan, converged>>
        /\ UNCHANGED <<desktop, tombs, managed, unmanaged, pending, draft, used>>

(***************************************************************************)
(* Compound commands: a draft of the world is planned, written, and taken  *)
(* over if every target is where it should be.                             *)
(***************************************************************************)

\* planPark and planRetile: what they change in the draft.
Stow(w, hidden, retiled) ==
    [w EXCEPT !.spaces = [n \in Names |->
        [w.spaces[n] EXCEPT !.parked =
            IF n \in hidden THEN @ \cup {x \in Unparked(w, n) : ~Ignored(x)}
            ELSE IF n \in retiled /\ LaidOut(w, n) THEN {} ELSE @]]]

Goals(w, hidden, retiled) ==
    LET stowed == UNION {{x \in Unparked(w, n) : ~Ignored(x)} : n \in hidden}
        laid == {n \in retiled : LaidOut(w, n)}
        tiled == UNION {w.spaces[n].tiled \cap DOMAIN w.windows : n \in laid}
        home(x) == CHOOSE n \in laid : x \in w.spaces[n].tiled
    IN  [x \in stowed \cup tiled |->
            IF x \in tiled THEN Tile(w.spaces[home(x)].visible, w.spaces[home(x)].tiled) ELSE Parked]

\* The gate is free, the inventories are read, the affected windows exist.
Transact(affected, w, hidden, retiled) ==
    /\ Gate /\ Command
    /\ affected \subseteq live
    /\ \A n \in retiled : w.spaces[n].mode = "bsp" /\ w.spaces[n].visible # None
                             => w.spaces[n].visible \in w.displays /\ Fits(w.spaces[n].visible, w.spaces[n].tiled)
    /\ draft' = [world |-> Stow(w, hidden, retiled), goals |-> Goals(w, hidden, retiled)]
    /\ UNCHANGED <<desktop, engine, pending, cycle, converged>>

Fresh == [world EXCEPT !.windows = [x \in live |-> place[x]], !.displays = plugged]

MembersOf(S) == UNION {Members(world.spaces[n]) : n \in S} \cap DOMAIN world.windows

\* revealIn.
Unveil(affected, w, n, d, more) ==
    /\ Displaced(w, n, d) # {} => d \in w.displays
    /\ Transact(affected \cup MembersOf({n} \cup Displaced(w, n, d)), Show(w, n, d),
                {m \in Displaced(w, n, d) : m = CHOOSE k \in Displaced(w, n, d) : TRUE}, {n} \cup more)

FocusWorkspace(n) ==
    LET w == Ensure(Fresh, n)
    IN  Unveil(MembersOf({world.focused}), [w EXCEPT !.focused = n], n, Host(w, n), {})

\* moveWindowBetweenWorkspacesIn.  A destination that is new is not visible.
Moved(w, x, n) ==
    LET floating == \E m \in Names : x \in w.spaces[m].floating
        there == IF w.spaces[n].known THEN w ELSE With(w, n, EmptySpace(TRUE))
    IN  IF n \in Homes(w, x) THEN w ELSE Join(Leave(there, x), n, x, floating)

MoveWindowToWorkspace(x, n) ==
    /\ x \in DOMAIN world.windows
    /\ Transact({x} \cup MembersOf({n} \cup Homes(world, x)), Moved(Fresh, x, n), {},
                {n} \cup {m \in Homes(world, x) : world.spaces[m].visible # None})

\* resolveFocusedMoveTarget: the focused window, or, when none is focused, the one of
\* the focused workspace that was so last.  Any normal window may be either.
MayHaveFocus(x) == x \in DOMAIN world.windows /\ ClassOf[x] = "normal"

\* The destination is shown where it belongs, or on the display of the source,
\* and is focused.
MoveFocusedWindowToWorkspace(x, n) ==
    LET belongs(m, otherwise) ==
            LET s == world.spaces[m]
            IN  Head(SelectSeq(<<s.visible, s.pinned, Preferred[m], otherwise>>, LAMBDA d : d # None))
        source == IF Homes(world, x) = {} THEN world.focused ELSE CHOOSE m \in Homes(world, x) : TRUE
        from == belongs(source, Primary(world))
        to == IF world.spaces[n].known /\ belongs(n, from) \in world.displays THEN belongs(n, from) ELSE from
    IN  /\ MayHaveFocus(x)
        /\ Unveil({x} \cup MembersOf({source}), [Moved(Fresh, x, n) EXCEPT !.focused = n], n, to,
                  IF source # n /\ to # from THEN {source} ELSE {})

MoveWorkspaceToDisplay(n, d) ==
    /\ d \in plugged
    /\ LET w == Ensure(Fresh, n)
       IN  Unveil({}, With(w, n, [w.spaces[n] EXCEPT !.pinned = d]), n, d, {})

\* focusedWorkspaceForCommand: that of the focused window, or the focused one.
MayBeMeant(n) == world.spaces[n].known /\ (n = world.focused \/ MembersOf({n}) # {})

\* The next display in the system's order, or the first if the workspace has none.  It
\* fails if the displays have changed when it reads them again.
MoveFocusedWorkspaceToNextDisplay(n, d) ==
    LET s == world.spaces[n]
        has == SelectSeq(<<s.visible, s.pinned, Preferred[n]>>, LAMBDA e : e # None)
    IN  /\ MayBeMeant(n)
        /\ Cardinality(world.displays) > 1 /\ plugged = world.displays
        /\ d \in world.displays /\ (has # <<>> => d # Head(has))
        /\ Unveil({}, With(Fresh, n, [Fresh.spaces[n] EXCEPT !.pinned = d]), n, d, {})

\* A workspace, or all that are visible.
Retile(S) ==
    /\ \/ \E n \in Names : world.spaces[n].known /\ S = {n}
       \/ S = {n \in Names : world.spaces[n].visible # None}
    /\ Transact(MembersOf(S), Fresh, {}, S)

Commit ==
    /\ draft # None
    /\ DOMAIN draft.goals \subseteq live
    /\ \A x \in DOMAIN draft.goals : Reachable(draft.goals[x])
    /\ place' = [x \in Windows |-> IF x \in DOMAIN draft.goals THEN draft.goals[x] ELSE place[x]]
    /\ world' = [draft.world EXCEPT !.windows = [x \in DOMAIN @ |->
                    IF x \in DOMAIN draft.goals THEN draft.goals[x] ELSE @[x]]]
    /\ draft' = None /\ converged' = FALSE
    /\ UNCHANGED <<live, plugged, tombs, managed, unmanaged, pending, cycle, used>>

Abort ==
    /\ draft # None
    /\ draft' = None /\ converged' = FALSE
    /\ UNCHANGED <<desktop, engine, pending, cycle, used>>

(***************************************************************************)
(* Commands that take no gate, and the desktop.                            *)
(***************************************************************************)

Ungated ==
    /\ Command
    /\ pending' = TRUE
    /\ UNCHANGED <<desktop, cycle, draft, converged>>

ManageWindow(x) ==
    /\ x \in DOMAIN world.windows
    /\ managed' = managed \cup {x} /\ unmanaged' = unmanaged \ {x}
    /\ UNCHANGED <<world, tombs>> /\ Ungated

UnmanageWindow(x) ==
    /\ x \in DOMAIN world.windows
    /\ managed' = managed \ {x} /\ unmanaged' = unmanaged \cup {x}
    /\ Bury(x) /\ Ungated

FloatOrTile(x) ==
    /\ x \in DOMAIN world.windows
    /\ world' \in {Floated(x), Tiled(x)}
    /\ UNCHANGED <<tombs, managed, unmanaged>> /\ Ungated

SetWorkspaceMode(n, mode) ==
    /\ world' = IF world.spaces[n].known THEN [world EXCEPT !.spaces[n].mode = mode] ELSE world
    /\ UNCHANGED <<tombs, managed, unmanaged>> /\ Ungated

Happening ==
    /\ Event
    /\ pending' = TRUE
    /\ UNCHANGED <<engine, cycle, draft, converged>>

Open(x) ==
    /\ x \notin live /\ live' = live \cup {x}
    /\ place' = [place EXCEPT ![x] = Stray]
    /\ UNCHANGED plugged /\ Happening

Close(x) ==
    /\ x \in live /\ live # {x} /\ live' = live \ {x}
    /\ place' = [place EXCEPT ![x] = Stray]
    /\ UNCHANGED plugged /\ Happening

\* The system moves the windows that were on the display or in its corners.
Unplug(d) ==
    /\ d \in plugged /\ plugged # {d} /\ plugged' = plugged \ {d}
    /\ \E cornered \in SUBSET {x \in live : place[x] = Parked} :
          place' = [x \in Windows |->
              IF x \in cornered \/ (place[x] \notin {Stray, Parked} /\ place[x].on = d)
              THEN Stray ELSE place[x]]
    /\ UNCHANGED live /\ Happening

Plug(d) ==
    /\ d \notin plugged /\ plugged' = plugged \cup {d}
    /\ UNCHANGED <<live, place>> /\ Happening

(***************************************************************************)
(* The specification.                                                      *)
(***************************************************************************)

Cycle == BeginCycle \/ Observe \/ Verify \/ ApplyFails
Apply == \/ ApplyRemove \/ ApplyInsert \/ ApplyFloat \/ ApplyMove
         \/ ApplyPark \/ ApplyParkOne \/ ApplyReveal \/ ApplyUncover
Compound ==
    \/ Commit \/ Abort
    \/ \E n \in Names : FocusWorkspace(n)
    \/ \E n \in Names, d \in Displays :
          MoveWorkspaceToDisplay(n, d) \/ MoveFocusedWorkspaceToNextDisplay(n, d)
    \/ \E S \in SUBSET Names : Retile(S)
    \/ \E x \in Windows, n \in Names : MoveWindowToWorkspace(x, n) \/ MoveFocusedWindowToWorkspace(x, n)
Meanwhile ==
    \/ \E x \in Windows : ManageWindow(x) \/ UnmanageWindow(x) \/ FloatOrTile(x) \/ Open(x) \/ Close(x)
    \/ \E n \in Names, mode \in {"bsp", "floating"} : SetWorkspaceMode(n, mode)
    \/ \E d \in Displays : Unplug(d) \/ Plug(d)

Next == Cycle \/ Apply \/ Compound \/ Meanwhile

Spec == Init /\ [][Next]_vars

(***************************************************************************)
(* Properties.                                                             *)
(***************************************************************************)

\* A window belongs to one workspace at most, where it is tiled or floats:
\* startup's inventory, returning windows, dialogs and commands all insert
\* (engine.ts:1101-1104).
OneHome ==
    \A x \in Windows :
        /\ Cardinality(Homes(world, x)) <= 1
        /\ \A n \in Names : ~(x \in world.spaces[n].tiled /\ x \in world.spaces[n].floating)

\* A display shows one workspace at most, whoever revealed it, created it or
\* moved it there (engine.ts:1015-1037, 1819-1849).
OneVisible ==
    \A n, m \in Names : n # m /\ world.spaces[n].visible = world.spaces[m].visible
                            => world.spaces[n].visible = None

\* The two together: through windows that return, dialogs, displays that come
\* and go, and commands beside a cycle's plan.
WorldIsConsistent == OneHome /\ OneVisible

\* When a cycle has converged and none is pending, the desktop is as the world
\* wants it: tiles are in place, windows of hidden workspaces are parked, the
\* focused workspace is on a connected display, nobody dead is a member, and
\* who has no home found no room.  Of a window that was explicitly unmanaged
\* nothing is asked here (UnmanagedStaysOut).
ConvergedIsArranged ==
    converged /\ ~pending =>
        /\ \A n \in Names : LaidOut(world, n) /\ Fits(world.spaces[n].visible, world.spaces[n].tiled) =>
              \A x \in world.spaces[n].tiled : place[x] = Tile(world.spaces[n].visible, world.spaces[n].tiled)
        /\ \A n \in Names \ {world.focused} : world.spaces[n].visible = None =>
              \A x \in Members(world.spaces[n]) : ClassOf[x] = "normal" => place[x] = Parked
        /\ world.spaces[world.focused].visible \in plugged
        /\ \A x \in Windows : Homes(world, x) # {} => x \in live
        /\ \A x \in Homeless(world) \ unmanaged : ClassOf[x] = "normal" =>
              ~Fits(Host(world, Target(world, x)), world.spaces[Target(world, x)].tiled \cup {x})

\* rules/rule.ts:36 and docs/spec.md:176-177 of an explicit unmanage: it "lasts for
\* the logical window's lifetime".  Not so: no rule looks at the set, and the next
\* cycle takes the window in again.
UnmanagedStaysOut ==
    converged /\ ~pending => \A x \in unmanaged : Homes(world, x) = {}

\* A cycle that nothing has disturbed since it began needs fewer passes than
\* it is given: the rules do not undo each other's work.
CalmCyclesConverge == stage # "idle" /\ ~pending => pass < MaxPasses

\* A window that the engine remembers returns to the workspace that it left,
\* not to its affinity's or the focused one, whatever else a pass does.  A
\* dialog that follows its parent is not bound by it.
ReturnsHome ==
    [][stage = "apply" /\ stage' = "apply" =>
          \A x \in DOMAIN tombs \cap Homeless(world) :
              ClassOf[x] # "transient" => Homes(world', x) \subseteq {tombs[x].space}]_vars

=============================================================================
