SPECIFICATION GilSpec
CONSTANTS
    NumPages = 2
    Callers = {c1}
    Prealloc = prealloc
    Nobody = nobody
    MinReserved = 2
    MaxReserved = 2
    DeferFreeUnmap = FALSE
    EnablePrealloc = TRUE
    ResizeTargets <- NoTargets
    AvailPhysical <- MemoryAmple
    Failures <- NoFailures
CHECK_DEADLOCK FALSE
PROPERTY WaitersServed
