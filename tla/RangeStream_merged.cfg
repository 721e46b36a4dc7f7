SPECIFICATION FairSpec
CONSTANTS
    StreamCount = 2
    MaxLength = 2
    MaxConcurrent = 2
    Revision = 0
    MayCancel = TRUE
    MaxRevision = 2
INVARIANTS TypeOK NoSendAfterClose OneSnapshot OnlyServersBlock NothingLeftBehind
PROPERTIES ImplementsMergedStream EndsWhenDone
\* A stream that has ended does nothing more.
CHECK_DEADLOCK FALSE
