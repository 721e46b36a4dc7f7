SPECIFICATION FairSpec
CONSTANTS
    a = a
    b = b
    x = x
    g1 = g1
    g2 = g2
    g3 = g3
    NoLeader = NoLeader
    NoSubConn = NoSubConn
    NoCaller = NoCaller
    Addrs = {a, b, x}
    ReadySets <- AnyReady
    Callers = {g1, g2, g3}
    FirstLeaders <- AnyLeader
    MaxMoves = 1
    MaxPicks = 3
INVARIANTS
    TypeOK
    PickLinearizable
    RoundRobinBalanced
    OnlyUpgradesBlock
PROPERTIES
    PickBounded
    PickReturnsUntrapped
\* The callers stop when they have picked MaxPicks times.
CHECK_DEADLOCK FALSE
