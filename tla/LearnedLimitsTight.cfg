CONSTANTS
    winA = winA
    winB = winB
    winC = winC
    editor = editor
    viewer = viewer
    Windows = {winA, winC}
    AppOf <- MCAppOf
    Gap = 4
    Content <- MCContent
    WorkArea <- MCArea
    Limits <- MCTight
    Updates <- MCNoUpdates
    Drags <- MCDrags
    Policies <- MCPolicies
    Nothing = Nothing
    Attempts = 3
    MaxPasses = 16
    MaxEvents = 4
    MaxTrouble = 0

SPECIFICATION Spec
INVARIANTS
    OscillationStops
CHECK_DEADLOCK FALSE
