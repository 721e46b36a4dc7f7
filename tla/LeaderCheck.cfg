SPECIFICATION FairSpec
CONSTANTS
    Endpoints <- Hosts
    Remotes <- Addresses
    Lookup <- SharedAddress
    ServerName = "endpoint"
INVARIANTS TypeOK AuthServesRemote
PROPERTIES ImplementsProbe EverybodyEnds
\* A check that has returned does nothing more.
CHECK_DEADLOCK FALSE
