CONSTANTS
    reveal = reveal
    move = move
    pause = pause
    w1 = w1
    w2 = w2
    NoOne = NoOne
    Windows = {w1, w2}
    Managed = {w1}
    Commands = {reveal, move}
    Deferred = {move}
    Retries = {move}
    Policies = 2
    Switches = {pause}
    KindOf <- MCKindOf
    MaxDisturbances = 1
    MaxFailures = 1

SPECIFICATION MCSpec

INVARIANTS
    RestoredOrDegraded
    MovesOnlyCaptured

PROPERTIES
    CommittedAsPlaced
    Atomic
    EveryCommandEnds

CHECK_DEADLOCK FALSE
