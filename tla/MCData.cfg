SPECIFICATION DataSpec
CONSTANTS
    t1 = t1
    t2 = t2
    Threads = {t1, t2}
    Vacant = Vacant
    Fanout = 2
    Ids = {3, 4, 5}
    Addrs = {0, 11}
    MaxNodes = 6
    MaxCalls = 2
SYMMETRY Symmetry
CHECK_DEADLOCK FALSE
INVARIANTS
    ChildrenOwned
    PageReadsBack
    ItersExact
    FileReadsBack
    ClockExact
PROPERTIES
    KeepsAddresses
    LruExact
