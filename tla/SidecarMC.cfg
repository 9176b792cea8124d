CONSTANTS
    getWindows = getWindows
    setFrame = setFrame
    Requests = {getWindows, setFrame}
    Subscribe = Subscribe
    MaxChanges = 2
    m1 = m1
    left = left
    right = right
    app = app
    reveal = reveal
    other = other
    Messages = {m1}
    Batches <- MCBatches
    MaxLength = 3
    Windows = {left, right}
    Apps = {app}
    Owner <- OneApp
    Names = {reveal, other}
    Looks = {"asked", "other"}
    Needed = 1
    Samples = 1
    MaxReplaced = 1
    Pids = {app}
    AXWindows = {left, right}
    PidOf <- OnePid
    TitleOf <- OneTitle
    Numbered = {}
    Reportable = {left, right}
    Frames = {1, 2}
    Near <- OneApart
    ScreenRecording = TRUE
    Torn = {left}
    RefreshTasks = {1, 2}
    Retries = 0
    Nobody = Nobody
    Nowhere = Nowhere
    MaxHappenings = 2
SPECIFICATION SidecarSpec
INVARIANTS
    HeardAsSaid
    InventoryIsSound
    FlagIsRestored
    WavesAreSound
PROPERTIES
    ReportsItsOwn
    AllAreAnswered
CHECK_DEADLOCK FALSE
