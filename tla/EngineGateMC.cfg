CONSTANTS
    setFrame = setFrame
    resume = resume
    plan1 = plan1
    plan2 = plan2
    NoUnit = NoUnit
    NoKey = NoKey
    Free = Free
    Loop = Loop
    Units <- MCUnits
    Plans = {plan1, plan2}
    Batches = {}
    Keys = {}
    KeyOf <- MCKeyOf
    StepCount <- MCStepCount
    Reversible <- MCReversible
    Escalates = {}
    BatchSizes = {}
    Exclusive = {setFrame}
    Reconciling = {setFrame, resume}
    PendingLimit = 4
    RepeatThreshold = 2
    BatchCap = 2
    MaxHints = 1

SPECIFICATION EngineSpec

INVARIANTS
    CommandsExcludeCycles

PROPERTIES
    SettledUnlessCircular
