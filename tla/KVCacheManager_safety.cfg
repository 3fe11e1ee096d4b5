SPECIFICATION Spec
CONSTANTS
    NumPages = 3
    PageSize = 2
    BlockSize = 1
    Clients = {c1}
    PostInit = postInit
    Nobody = nobody
    AsyncSched = FALSE
    MultiProcess = FALSE
    EnablePrealloc = TRUE
    ReserveNull = TRUE
    Reserves = TRUE
    MaxNeed = 3
    Limits <- BelowInitial
    DirectLimits <- NoLimits
    AvailPhysical <- MemoryAmple
    Failures <- MapFailures
    CreationTimesOut = FALSE
INVARIANTS TypeOK BlocksAccounted PagesTracked CapacityCheckSuffices
PROPERTY UsesPool
