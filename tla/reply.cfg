SPECIFICATION Spec
CONSTANTS
    None = None
    Instant = {"write", "mine", "restore"}
    MaxCopies = 1
    SweepAfter = 2
    SweepGap = 1
    ClaimSpan = 2
    Lag = 0
    OpenBy = 0
    Horizon = 3
    MaxOthers = 1
    Older = {"same", "none"}
    Rivals = TRUE
INVARIANTS
    CleanReportIsTrue
    SweepTakesOnlyOwnCopy
    KeptReplyHoldsTheText
    ClipboardStaysOutOfReply
    NewestCopySurvivesAWrite
PROPERTIES
    EveryReplyEnds
CHECK_DEADLOCK FALSE
