------------------------------- MODULE Tiling -------------------------------
(***************************************************************************)
(* One workspace in bsp mode: windows open and close, the focused window   *)
(* moves in a direction, and the engine restarts.  Each step plans the     *)
(* layout of the tree it leaves, as tile-workspaces and the compound       *)
(* moveDirection do (packages/layout/src/engine.ts, rules/), and windows   *)
(* are where the plan puts them.                                           *)
(***************************************************************************)
EXTENDS InitialLayout

CONSTANTS
    Windows,
    MaxSteps    \* bound: closed windows, moves and restarts together

VARIABLES
    tree, frames, policy, steps,
    open    \* observation only: the windows that were admitted and have not closed

vars == <<tree, frames, policy, steps, open>>

Init == tree = EmptyTree /\ frames = NoPlan /\ policy = Nothing /\ steps = 0 /\ open = {}

\* A tree that no policy of the chain can lay out is not committed.
CommitPlan(new, plan) ==
    /\ plan.frames # NoPlan
    /\ tree' = new /\ frames' = plan.frames /\ policy' = plan.policy

Retile(new) == CommitPlan(new, PlanLayout(new))

Count == steps < MaxSteps /\ steps' = steps + 1

\* A window appears; any other tile may be the last one focused.
Open(win) ==
    /\ win \notin Tiled(tree)
    /\ \E beside \in IF tree = EmptyTree THEN {Nothing} ELSE Tiled(tree) :
          /\ PlanInsertion(tree, win, beside) # Nothing
          /\ Retile(PlanInsertion(tree, win, beside))
    /\ open' = open \cup {win}
    /\ UNCHANGED steps

Close(win) ==
    /\ Count
    /\ win \in Tiled(tree)
    /\ IF Tiled(tree) = {win} THEN tree' = EmptyTree /\ frames' = NoPlan /\ policy' = Nothing
       ELSE Retile(RemoveLeaf(tree, win))
    /\ open' = open \ {win}

\* `groups` is experiments.directionalMoveGroups, which a reload may change.
Moved(win, direction, groups) == MoveGeometrically(tree, frames, win, direction, groups)

MoveDirection(win, direction) ==
    /\ Count
    /\ win \in Tiled(tree)
    /\ \E groups \in BOOLEAN :
          LET moved == Moved(win, direction, groups)
          IN  moved # tree /\ Retile(moved)
    /\ UNCHANGED open

\* Windows that are given with their place in a scenario (resolveInitialLayout).
Hydrate ==
    /\ Count
    /\ tree # EmptyTree
    /\ Retile(InferInitialTree(LeafOrder(tree), frames, Content))
    /\ UNCHANGED open

\* The engine ends and starts again (preserveOrdinaryStartup): the tree is
\* inferred from where the windows are, but overlapping ones are admitted one by
\* one as if they had just opened.
Restart ==
    /\ Count
    /\ tree # EmptyTree
    /\ IF \E v, w \in Tiled(tree) : v # w /\ \A axis \in Axes : Shared(frames[v], frames[w], axis) > 0
       THEN tree' = EmptyTree /\ frames' = NoPlan /\ policy' = Nothing /\ open' = {}
       ELSE Retile(InferInitialTree(LeafOrder(tree), frames, Content)) /\ UNCHANGED open

Next ==
    \/ \E win \in Windows : Open(win)
    \/ \E win \in Windows : Close(win)
    \/ \E win \in Windows, direction \in Directions : MoveDirection(win, direction)
    \/ Restart
    \/ Hydrate

Spec == Init /\ [][Next]_vars

(***************************************************************************)
(* Properties.                                                             *)
(***************************************************************************)

Members == Tiled(tree)
DefaultTolerance == 1

\* The tiles are the windows that were admitted and have not closed, each once: no
\* surgery on the tree loses, keeps or repeats a window.  And where the plan keeps every
\* limit, their frames and the gaps between them cover the content and no two are closer
\* than the gap: no rounding leaves a seam (assignFrames, and every operation on trees).
TilesExactly ==
    /\ Members = open
    /\ tree # EmptyTree => Len(LeafOrder(tree)) = Cardinality(open)
    /\ policy # Nothing => DOMAIN frames = open
    /\ policy = "greedy" =>
        /\ \A v, w \in open : v # w => \E axis \in Axes : Shared(frames[v], frames[w], axis) <= -Gap
        /\ MapThenSumSet(LAMBDA w : (frames[w].size["vertical"] + Gap) * (frames[w].size["horizontal"] + Gap),
                         open)
              = (Content.size["vertical"] + Gap) * (Content.size["horizontal"] + Gap)

\* A window that fits beside the focused one within that one's frame is put
\* there, and no other window moves: not even one whose own limits, or those of
\* its neighbors, have pushed the dividers away from their ratios
\* (planWindowInsertion and retainPathDividers).
OpeningIsLocal ==
    policy = "greedy" =>
        \A win \in Windows \ Members, beside \in Members :
            LET grown == PlanInsertion(tree, win, beside)
                fits == \E axis \in Axes :
                    Greedy(Split(axis, Half, Leaf(beside), Leaf(win)), frames[beside], Limits) # NoPlan
            IN  fits => /\ grown # Nothing
                        /\ \A w \in Members \ {beside} : PlanLayout(grown).frames[w] = frames[w]

\* A restart finds a tree under which no window has to be written again, whatever
\* tree the windows came from: there is always a cut that crosses none of them,
\* the inferred ratios put the dividers back, and the limits are kept.  The
\* exception is a grid, which can be cut either way: the cut that is chosen may
\* align dividers that were not aligned (inferInitialTree and
\* preserveOrdinaryStartup).
RestartKeepsFrames ==
    LET planned == Greedy(InferInitialTree(LeafOrder(tree), frames, Content), Content, Limits)
        grid == \A axis \in Axes : Cuts(LeafOrder(tree), frames, axis) # <<>>
    IN  policy = "greedy" /\ ~grid =>
            /\ planned # NoPlan
            /\ \A win \in Members, axis \in Axes :
                  /\ Distance(planned[win].at[axis], frames[win].at[axis]) <= DefaultTolerance
                  /\ Distance(planned[win].size[axis], frames[win].size[axis]) <= DefaultTolerance

\* Focus commands alone reach every tile from every other one: ranking by the
\* nearest border hides no window for good (directionalFocusNeighbor).
EveryTileReachable ==
    policy = "greedy" =>
        \A wins \in SUBSET Members \ {{}, Members} : \E win \in wins, d \in Directions :
            FocusNeighbor(frames, win, LeafOrder(tree), d) \in Members \ wins

Reaches(moved, frame, d) ==
    IF d.before THEN moved.at[d.axis] <= frame.at[d.axis] + BorderTolerance
    ELSE End(moved, d.axis) >= End(frame, d.axis) - BorderTolerance

WentTheWay(win, d, plan, target) ==
    plan.policy = "greedy" =>
        /\ Reaches(plan.frames[win], frames[win], d)
        /\ target # Nothing => Reaches(plan.frames[win], plan.frames[target.win], d)

\* A move that rearranges the tree takes the window the way it was told: its
\* border on that side does not go back, and the window it moved toward is no
\* longer ahead of it, up to the tolerance of borders and as long as the limits
\* of all windows can be kept; and no other window is lost on the way
\* (moveGeometrically, in each of its cases).
MovesTheWay ==
    policy = "greedy" =>
        \A win \in Members, d \in Directions, groups \in BOOLEAN :
            LET moved == Moved(win, d, groups)
            IN  \/ moved = tree
                \/ /\ Tiled(moved) = open
                   /\ WentTheWay(win, d, PlanLayout(moved), ForwardTarget(tree, frames, Leaf(win), d))
=============================================================================
