SPECIFICATION FairSpec
CONSTANTS
    a = a
    b = b
    x = x
    g1 = g1
    g2 = g2
    g3 = g3
    NoLeader = NoLeader
    NoSubConn = NoSubConn
    NoCaller = NoCaller
    Addrs = {a, b}
    ReadySets <- OneReady
    Callers = {g1, g2}
    FirstLeaders <- LeaderKnown
    MaxMoves = 0
    MaxPicks = 2
PROPERTY PickReturns
\* The callers stop when they have picked MaxPicks times.
CHECK_DEADLOCK FALSE
