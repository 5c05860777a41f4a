\* Three stored rows, copies of one message or without an id, in two accounts.
CONSTANTS
    x = x
    g = g
    h = h
    c = c
    d = d
    MaxStored = 3
    Boxes = {1, 2, 3}
    Stores = {1, 3}
    Account <- MCAccount
    Role <- MCRole
    Backing <- MCBacking
    Mids = {x}
    Null = Null
    Convs = {c, d}
    Dates = {1}
    SizeDate <- MCSizeDate
    MaxLabels = 2
    MaxChanges = 2
SPECIFICATION StoredSpec
SYMMETRY ConvSymmetry
INVARIANTS
    WhatMovesIsStored
    ReadsAgree
CHECK_DEADLOCK FALSE
