CONSTANTS
    start = start
    setFrame = setFrame
    resume = resume
    w1 = w1
    w2 = w2
    Free = Free
    Loop = Loop
    Stopper = Stopper
    Windows = {w1, w2}
    InitiallyOpen = {w1}
    Ops <- MCTwoOps
    Boot = start
    Exclusive <- MCExclusive
    Reconciling <- MCTwoOps
    Resumes = {}
    MaxPasses = 2
    MaxFocus = 0
    MaxConflicts = 1

SPECIFICATION QuietSpec

PROPERTIES
    NoPhantomEmpty
    EverythingIsAnswered

CHECK_DEADLOCK FALSE
