SPECIFICATION Spec
CONSTANTS
    Readers = {r1}
    Waiters = {w}
    MaxVersion = 3
    Closes = TRUE
INVARIANTS BoxesPinned NextFound CleanedUnused
CHECK_DEADLOCK FALSE
