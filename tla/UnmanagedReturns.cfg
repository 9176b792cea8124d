CONSTANTS
    winA = winA
    winB = winB
    winDialog = winDialog
    wsOne = wsOne
    wsTwo = wsTwo
    d1 = d1
    d2 = d2
    Windows = {winA, winB, winDialog}
    Displays = {d1, d2}
    Names = {wsOne, wsTwo}
    Main = wsOne
    Configured = {wsOne}
    MainDisplay = d1
    None = None
    ClassOf <- MCClassOf
    ParentOf <- MCParentOf
    Affinity <- MCAffinity
    Preferred <- MCPreferred
    Room <- MCRoom
    Stray = Stray
    Parked = Parked
    MaxPasses = 5
    Inventories = {{winA, winB}}
    Budget <- MCOneCommand

SPECIFICATION Spec

INVARIANT UnmanagedStaysOut

CHECK_DEADLOCK FALSE
