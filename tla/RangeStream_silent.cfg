SPECIFICATION Spec
CONSTANTS
    StreamCount = 2
    MaxLength = 1
    MaxConcurrent = 2
    Revision = 1
    MayCancel = TRUE
    MaxRevision = 1
INVARIANT CompleteOrError
\* A stream that has ended does nothing more.
CHECK_DEADLOCK FALSE
