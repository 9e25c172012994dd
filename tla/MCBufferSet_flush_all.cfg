SPECIFICATION Spec
CONSTANTS
    t1 = t1
    t2 = t2
    Tasks = {t1, t2}
    Flusher = flusher
    MaxWriteBuffers = 2
    Capacity = 1
    FlushOps <- DefaultFlushOps
    AvoidFlushDuringShutdown = FALSE
    MaxGroup = 3
CHECK_DEADLOCK FALSE
PROPERTIES
    FlushCoversAllData
