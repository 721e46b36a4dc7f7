SPECIFICATION FairClientSpec
CONSTANTS
    NoLeader = NoLeader
    NoRecord = NoRecord
    NoClient = NoClient
    Endpoints = {a, b}
    Clients = {c1, c2}
    Observed = {c1}
    Config <- OneCluster
    MaxElections = 0
    MaxExtraCloses = 0
INVARIANTS
    ClientTypeOK
    RegisteredPickerIsMaintained
    CallsAreServed
PROPERTIES
    PickersLetCallsThrough
    CloseEnds
\* Clients that are closed, or were never opened, do nothing more.
CHECK_DEADLOCK FALSE
