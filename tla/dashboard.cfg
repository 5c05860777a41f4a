CONSTANTS
    r1 = r1
    r2 = r2
    t1 = t1
    a = a
    u = u
    v = v
    Tools <- TwoAdapters
    Stray = "stray"
    HandWritten <- Plain
    EnvOff = {}
    EnvSend = {}
    ReadOnly = FALSE
    Installed = TRUE
    Requests = {r1, r2}
    Terminals = {t1}
    NoOne = NoOne
    ReadsMayDiffer = FALSE
    MaxOutside = 1
    MaxEnds = 1
    Calls = {a, u, v}
    Kind <- MoveUndoPreview
    Undoes <- OfTheMove
    Versions <- Upgrades
    None = NoOne
    MaxTicks = 1
    MaxRotations = 1
    MaxMissing = 1
SPECIFICATION DashboardSpec
SYMMETRY Alike
INVARIANTS
    LastWordStands
    SendingIsAsTold
    RowsAreCalls
    BackIsTrue
PROPERTIES
    RowsKeepTheirPlace
CHECK_DEADLOCK FALSE
