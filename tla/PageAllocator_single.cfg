SPECIFICATION FairSpec
CONSTANTS
    NumPages = 3
    Callers = {c1}
    Prealloc = prealloc
    MinReserved = 2
    MaxReserved = 2
    DeferFreeUnmap = FALSE
    EnablePrealloc = TRUE
    ResizeTargets <- TargetsWithin
    AvailPhysical <- MemoryTightOrAmple
    Failures <- MapFailures
INVARIANTS NoLostWakeup
PROPERTIES WaitersServed StopReturns
