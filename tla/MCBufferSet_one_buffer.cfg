SPECIFICATION FairSpec
CONSTANTS
    t1 = t1
    t2 = t2
    Tasks = {t1, t2}
    Flusher = flusher
    MaxWriteBuffers = 1
    Capacity = 1
    FlushOps <- NoFlushOps
    AvoidFlushDuringShutdown = FALSE
    MaxGroup = 3
CHECK_DEADLOCK FALSE
PROPERTIES
    StallEnds
