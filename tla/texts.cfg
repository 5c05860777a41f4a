\* Bodies: two builds, or a build and a read.  Dedupe: two runs with opposite orders, or a same-mailbox pass beside one, and a user.
CONSTANTS
    a = a
    b = b
    m = m
    c = c
    x = x
    y = y
    r1 = r1
    r2 = r2
    Builds = {i1, i2}
    Asks = {q1}
    Paths = {1, 2, 3}
    Mids = {draft, partial}
    MidAt <- PartialAndDraft
    FullOf <- FillsTheFirst
    ReusesIds = FALSE
    MaxChanged = 2
    i1 = i1
    i2 = i2
    q1 = q1
    draft = draft
    partial = partial
    Runs = {r1, r2}
    Nobody = Nobody
    Ids = {m}
    Copies = {1, 2, 3}
    IdOf <- MCIdOf
    Accounts = {a, b, c}
    Mailboxes <- MCMailboxes
    Homes <- MCHomes
    Bodies = {x, y}
    Says <- MCSays
    Orders <- MCOrders
    BatchSize = 1
    MaxDark = 1
    DragsAcross = FALSE
    MaxUserMoves = 2
SPECIFICATION MCSpec
INVARIANTS
    NoSetIsLostSilently
    DistinctBodiesStay
    BodyReadsAreHonest
SYMMETRY Alike
CHECK_DEADLOCK FALSE
