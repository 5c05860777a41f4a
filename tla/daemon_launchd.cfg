\* One daemon at a time, ended or crashed up to three times, with two calls.
CONSTANTS
    d1 = d1
    d2 = d2
    c1 = c1
    c2 = c2
    Daemons = {d1, d2}
    NoOne = NoOne
    Requests = {c1, c2}
    OnlyLaunchd = TRUE
    MaxExits = 3
SPECIFICATION DaemonSpec
INVARIANTS
    RefusedMeansNotRun
PROPERTIES
    ServesAgain
    EveryCallEnds
CHECK_DEADLOCK FALSE
