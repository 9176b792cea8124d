------------------------------ MODULE PlanningMC ------------------------------
(***************************************************************************)
(* The planner under its two users, in one run: either the workspace of    *)
(* Tiling, whose windows have limits that are known, or the windows of     *)
(* LearnedLimits, whose limits are found out.  The one that is not `at     *)
(* work` stays at its initial state.                                       *)
(***************************************************************************)
EXTENDS LearnedLimitsMC

CONSTANTS winD, TiledWindows, TiledLimits, TiledContent, MaxSteps

\* A and C need 50 points of width, B takes 56 at most, D takes what it gets.
MCTiledContent == [at |-> Sizes(10, -20), size |-> Sizes(120, 81)]
MCTiledLimits == [win \in {winA, winB, winC, winD} |->
    IF win \in {winA, winC} THEN Bounds(50, Unbounded)
    ELSE IF win = winB THEN Bounds(0, 56) ELSE NoBounds]

\* People leave a window where it is narrower than any accepts, and off its tile.
MCOneDrag == {[at |-> Sizes(30, 20), size |-> Sizes(30, 60)]}

VARIABLES atWork, tiles, places, policy, steps, open

T == INSTANCE Tiling WITH Windows <- TiledWindows, Limits <- TiledLimits, Content <- TiledContent,
                          tree <- tiles, frames <- places

PlanningInit == Init /\ T!Init /\ atWork \in {"tiling", "learning"}

PlanningNext ==
    /\ UNCHANGED atWork
    /\ \/ atWork = "tiling" /\ T!Next /\ UNCHANGED vars
       \/ atWork = "learning" /\ Next /\ UNCHANGED <<tiles, places, policy, steps, open>>

PlanningSpec == PlanningInit /\ [][PlanningNext]_<<vars, atWork, tiles, places, policy, steps, open>>

\* The properties of Tiling: what it says of its own workspace.
TilesExactly == T!TilesExactly

\* An opening window moves only the one that makes room for it, and a restart none
\* (planWindowInsertion, preserveOrdinaryStartup).
FramesAreKept == T!OpeningIsLocal /\ T!RestartKeepsFrames

\* Directions mean what they say: focus reaches every tile, and a window that is moved
\* goes where it was told (directionalFocusNeighbor, moveGeometrically).
DirectionsHold == T!EveryTileReachable /\ T!MovesTheWay
=============================================================================
