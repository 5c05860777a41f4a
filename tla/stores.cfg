CONSTANTS
    n1 = n1
    n2 = n2
    p = p
    k = k
    e = e
    c1 = c1
    u1 = u1
    u2 = u2
    Calls = {n1, n2}
    User = User
    None = None
    Gone = Gone
    Reminders = {p, k}
    Events = {e}
    Boxes = {"Home", "Work"}
    Default = "Home"
    ReadOnly = {}
    Starts <- WithAndWithoutSubtask
    MaxOutside = 1
    Clients = {c1}
    Pks = {1, 2}
    Uuids = {u1, u2}
    NoteKinds <- SomeNotes
    MaxNotes = 2
    MaxByOthers = 1
SPECIFICATION StoresSpec
SYMMETRY Alike
INVARIANTS
    RefusedIsNeverSaved
    NoSubtaskGoesUnasked
PROPERTIES
    OkIsTrueWhenSaid
    AnswersAreTrue
    NoNoteMeansSearched
CHECK_DEADLOCK FALSE
