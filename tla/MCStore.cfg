SPECIFICATION StoreSpec
CONSTANTS
    t1 = t1
    t2 = t2
    Tasks = {t1, t2}
    i1 = i1
    i2 = i2
    PageIds = {i1, i2}
    BufSize = 32
    HALF = 32
    ALIGN = 2
    PageSizes = {1, 13, 30}
    MaxRecords = 3
SYMMETRY Symmetry
CHECK_DEADLOCK FALSE
INVARIANTS
    RecordsDisjoint
    FlushToldOnce
    RecordsRead
    IdsOwnedOnce
    PagesReadable
    RecoversSaved
    DeadPagesUnused
PROPERTIES
    EditsKept
    SpaceBounded
