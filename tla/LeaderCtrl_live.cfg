SPECIFICATION FairSpec
CONSTANTS
    a = a
    b = b
    x = x
    c1 = c1
    c2 = c2
    c3 = c3
    NoLeader = NoLeader
    NoRecord = NoRecord
    NoClient = NoClient
    Endpoints = {a, b}
    Clients = {c1, c2}
    Config <- PairOverlap
    MaxElections = 1
    MaxExtraCloses = 1
INVARIANTS
    TypeOK
    LeaderOfOwnCluster
PROPERTIES
    LeaderConverges
    RegisterReturns
    CheckerEnds
\* The clients close and the servers stop moving: the program may be done.
CHECK_DEADLOCK FALSE
