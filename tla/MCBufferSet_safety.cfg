SPECIFICATION Spec
CONSTANTS
    t1 = t1
    t2 = t2
    Tasks = {t1, t2}
    Flusher = flusher
    MaxWriteBuffers = 2
    Capacity = 2
    FlushOps <- AllFlushOps
    AvoidFlushDuringShutdown = FALSE
    MaxGroup = 3
SYMMETRY Symmetry
CHECK_DEADLOCK FALSE
INVARIANTS
    OneInstaller
    BuffersReachable
    FlushExcludesWriters
    UnflushedBounded
    FlushDoesNotStall
    CloseFlushesAll
PROPERTIES
    FlushIsDurable
