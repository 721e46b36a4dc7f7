SPECIFICATION FairClientSpec
CONSTANTS
    NoLeader = NoLeader
    NoRecord = NoRecord
    NoClient = NoClient
    Endpoints = {a, b}
    Clients = {c1, c2}
    Observed = {c1}
    Config <- OneCluster
    MaxElections = 0
    MaxExtraCloses = 0
PROPERTY CallsGetThrough
CHECK_DEADLOCK FALSE
