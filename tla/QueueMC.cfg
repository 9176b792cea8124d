CONSTANTS
    first = first
    again = again
    plan = plan
    batch = batch
    key = key
    NoUnit = NoUnit
    NoKey = NoKey
    Units <- MCUnits
    Batches = {batch}
    Keys = {key}
    KeyOf <- MCKeyOf
    StepCount <- MCStepCount
    Reversible <- MCReversible
    Escalates = {again}
    BatchSizes = {0, 1, 3}
    PendingLimit = 2
    RepeatThreshold = 2
    BatchCap = 2
    p1 = p1
    p2 = p2
    minimum = minimum
    maximum = maximum
    other = other
    Processes = {p1, p2}
    Fields = {minimum, maximum, other}
    Values = {0, 1}
    Empty <- MCEmpty
    Contradictory <- MCContradictory
    Lessons <- MCLessons
    Stored <- MCStored
    Missing = Missing
    Garbage = Garbage
    Unloaded = Unloaded
    Free = Free
    Attempts = 2
    MaxSessions = 1
    MaxMishaps = 1

SPECIFICATION SharedSpec

INVARIANTS
    ServedInOrder
    FailedIsRolledBack

PROPERTIES
    EventuallySettled
    NoLostUpdate
    SessionsEnd
    MemoryFollowsFile

CHECK_DEADLOCK FALSE
