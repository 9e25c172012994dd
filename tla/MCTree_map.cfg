SPECIFICATION Spec
CONSTANTS
    t1 = t1
    t2 = t2
    Tasks = {t1, t2}
    Scenes = {"points", "gets", "deletes", "partial", "scans"}
    PartialKinds = {"put"}
    PartialSafe = 1
SYMMETRY Symmetry
CHECK_DEADLOCK FALSE
INVARIANTS
    SplitsOrdered
PROPERTIES
    ImplementsMap
    ReadsExact
