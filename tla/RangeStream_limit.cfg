SPECIFICATION Spec
CONSTANTS
    StreamCount = 3
    MaxLength = 1
    MaxConcurrent = 2
    Revision = 1
    MayCancel = FALSE
    MaxRevision = 1
INVARIANT Limited
\* A stream that has ended does nothing more.
CHECK_DEADLOCK FALSE
