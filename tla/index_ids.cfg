\* One build at a time and one reading process, two messages; two ROWIDs, or three in a rebuilt index.
CONSTANTS
    b1 = b1
    p1 = p1
    m1 = m1
    m2 = m2
    g1 = g1
    g2 = g2
    None = None
    Builds = {b1}
    Reads = {p1}
    Msgs = {m1, m2}
    Unnamed = {}
    Gids = {g1, g2}
    TopUpMax = 1
    MaxRow = 3
    MaxRebuilds = 1
    MaxWipes = 1
    RebuildsAnytime = FALSE
SYMMETRY Symmetries
SPECIFICATION MCSpec
INVARIANTS
    NoNoteMeansLookedFor
CHECK_DEADLOCK FALSE
