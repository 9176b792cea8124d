CONSTANTS
    winA = winA
    winB = winB
    winC = winC
    winD = winD
    editor = editor
    viewer = viewer
    Windows = {winA, winB, winC}
    TiledWindows = {winA, winB, winC, winD}
    AppOf <- MCAppOf
    Gap = 4
    Content <- MCContent
    TiledContent <- MCTiledContent
    WorkArea <- MCArea
    Limits <- MCLimits
    TiledLimits <- MCTiledLimits
    Updates <- MCUpdates
    Drags <- MCOneDrag
    Policies <- MCPolicies
    Nothing = Nothing
    Attempts = 3
    MaxPasses = 12
    MaxEvents = 4
    MaxTrouble = 1
    MaxSteps = 1

SPECIFICATION PlanningSpec
INVARIANTS
    TilesExactly
    FramesAreKept
    DirectionsHold
    LearnedIsReal
    CyclesSettle
CHECK_DEADLOCK FALSE
