CONSTANTS
    start = start
    setFrame = setFrame
    resume = resume
    w1 = w1
    w2 = w2
    Free = Free
    Loop = Loop
    Stopper = Stopper
    Windows = {w1}
    InitiallyOpen = {w1}
    Ops <- MCOps
    Boot = start
    Exclusive <- MCExclusive
    Reconciling <- MCOps
    Resumes = {resume}
    MaxPasses = 2
    MaxFocus = 2
    MaxConflicts = 0
    Managed <- Windows2
    Rank <- Ranks
    Spaces <- Spaces2
    HomeOf <- Homes
    FirstShown = "A"
    None = None
    MaxTrouble = 2
    MaxCommands = 2

SPECIFICATION LifeSpec

INVARIANTS
    RequestsAreServed
    HintsAreKept
    WholeOrOnRecord
    NobodyLeftBehind

CHECK_DEADLOCK FALSE
