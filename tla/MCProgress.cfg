SPECIFICATION Spec
CHECK_DEADLOCK FALSE
PROPERTIES
    OperationsEnd
    ReclaimSettles
    JobsProgress
