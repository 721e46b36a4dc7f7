SPECIFICATION WatchSpec
CONSTANTS
    StreamCount = 1
    MaxLength = 2
    MaxByte = 1
    Tick = Tick
    LogKeys <- AllKeys
    PrefixKeys <- ShortKeys
INVARIANTS TypeOK DeliversPrefix
PROPERTIES ImplementsMergedStream EndsWhenDone
\* A stream that has ended does nothing more.
CHECK_DEADLOCK FALSE
