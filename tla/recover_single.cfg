\* One message: a move, an undo of it or another move, and the user dragging the message.
CONSTANTS
    o1 = o1
    o2 = o2
    m1 = m1
    m2 = m2
    Ops = {o1, o2}
    Nobody = Nobody
    Msgs = {m1}
    Copies = {1}
    IdOf <- OneCopyEach
    Kinds = {"move"}
    Stocked <- AllInInbox
    Sources = {"Inbox"}
    MaxUserMoves = 1
SPECIFICATION Spec
INVARIANTS
    WhatMovedIsReplayable
PROPERTIES
    ImplementsReceipts
CHECK_DEADLOCK FALSE
