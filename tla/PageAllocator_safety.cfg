SPECIFICATION Spec
CONSTANTS
    NumPages = 3
    Callers = {c1, c2}
    Prealloc = prealloc
    MinReserved = 1
    MaxReserved = 1
    DeferFreeUnmap = FALSE
    EnablePrealloc = TRUE
    ResizeTargets <- TargetsWithin
    AvailPhysical <- MemoryTightOrAmple
    Failures <- AllFailures
SYMMETRY CallerSymmetry
INVARIANTS TypeOK PageConservation CountersExact MappedWhereUsed
PROPERTY PoolSpec
CHECK_DEADLOCK FALSE
