\* Two copies of one message: moves, trashes, dedupe passes and their undos.
CONSTANTS
    o1 = o1
    o2 = o2
    m1 = m1
    m2 = m2
    Ops = {o1, o2}
    Nobody = Nobody
    Msgs = {m1}
    Copies = {1, 2}
    IdOf <- SameMessage
    Kinds = {"move", "trash", "dedupe"}
    Stocked <- AllInInbox
    Sources = {"Inbox"}
    MaxUserMoves = 0
SYMMETRY OpSymmetry
SPECIFICATION Spec
INVARIANTS
    NothingMovesUnplanned
PROPERTIES
    AnswersClaimNoMore
    OneCopySurvives
CHECK_DEADLOCK FALSE
