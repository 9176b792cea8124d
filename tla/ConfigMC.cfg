CONSTANTS
    winA = winA
    winB = winB
    winDialog = winDialog
    wsOne = wsOne
    wsTwo = wsTwo
    d1 = d1
    d2 = d2
    Windows = {winA, winB, winDialog}
    Displays = {d1, d2}
    Names = {wsOne, wsTwo}
    Main = wsOne
    Configured = {wsOne}
    MainDisplay = d1
    None = None
    ClassOf <- MCClassOf
    ParentOf <- MCParentOf
    Affinity <- MCAffinity
    Preferred <- MCPreferred
    Room <- MCRoom
    Stray = Stray
    Parked = Parked
    MaxPasses = 5
    Inventories <- MCInventories
    Budget <- MCBudget
    absent = absent
    none = none
    k1 = k1
    k2 = k2
    chord = chord
    action = action
    Absent = absent
    Tables <- MCTables
    NoKeys = none
    Unbuildable = {action}
    Refused = {chord}
    Files <- MCFiles
    Reloads = {r1}
    MaxEdits = 2
    MaxLate = 1

SPECIFICATION BesideSpec

INVARIANTS
    WorldIsConsistent
    ConvergedIsArranged
    CalmCyclesConverge
    ConfigurationHolds

PROPERTIES
    ReturnsHome

CHECK_DEADLOCK FALSE
