\* Two calls, two drafts and an account the user may remove.
CONSTANTS
    c1 = c1
    c2 = c2
    d1 = d1
    d2 = d2
    a = a
    Default = Default
    Calls = {c1, c2}
    Ids = {d1, d2}
    Addresses = {a}
    StoredSender <- SavedWithAddress
    QuitMayAccept = FALSE
SPECIFICATION Spec
SYMMETRY CallsAndDraftsAlike
INVARIANTS
    UnwarnedErrorSentNothing
    RollbackIsHonest
    DraftsFollowSends
CHECK_DEADLOCK FALSE
