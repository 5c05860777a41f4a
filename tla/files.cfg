\* Two writers that cross the size threshold together, one undo reading; two exports.
CONSTANTS
    w1 = w1
    w2 = w2
    Writers = {w1, w2}
    Undoer = w1
    Each = 3
    Cap = 1
    c1 = c1
    c2 = c2
    p1 = p1
    p2 = p2
    e1 = e1
    e2 = e2
    m1 = m1
    m2 = m2
    m3 = m3
    Calls = {c1, c2}
    Pids = {p1, p2}
    Entries = {e1, e2}
    Messages = {m1, m2, m3}
    EntryOf <- NamedAlike
    MaxChanges = 2
    User = User
    Nobody = Nobody
SPECIFICATION FilesSpec
SYMMETRY Alike
INVARIANTS
    OneRotationLosesNothing
    QuietReadIsComplete
    FilesAreAsTold
PROPERTIES
    NothingIsOverwritten
CHECK_DEADLOCK FALSE
