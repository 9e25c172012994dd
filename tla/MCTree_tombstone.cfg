SPECIFICATION Spec
CONSTANTS
    t1 = t1
    t2 = t2
    Tasks = {t1, t2}
    Scenes = {"partial"}
    PartialKinds = {"put", "delete"}
    PartialSafe = 2
SYMMETRY Symmetry
CHECK_DEADLOCK FALSE
PROPERTIES
    ImplementsMap
