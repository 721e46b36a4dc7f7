SPECIFICATION Spec
CONSTANTS
    a = a
    b = b
    x = x
    c1 = c1
    c2 = c2
    c3 = c3
    NoLeader = NoLeader
    NoRecord = NoRecord
    NoClient = NoClient
    Endpoints = {a, b}
    Clients = {c1, c2, c3}
    Config <- Overlapping
    MaxElections = 1
    MaxExtraCloses = 0
INVARIANT RegisteredIsChecked
CHECK_DEADLOCK FALSE
