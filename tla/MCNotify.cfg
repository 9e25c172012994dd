CONSTANTS
    f1 = f1
    f2 = f2
    c1 = c1
    c2 = c2
    None = None
    Nodes = {f1, f2}
    Callers = {c1, c2}
    MaxFutures = 2
    MaxCalls = 2
SPECIFICATION FairSpec
CHECK_DEADLOCK FALSE
INVARIANTS
    NeverPanics
PROPERTIES
    KeepsPromise
    Delivered
