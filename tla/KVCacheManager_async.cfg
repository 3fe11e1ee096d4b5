SPECIFICATION FairSpec
CONSTANTS
    NumPages = 3
    PageSize = 2
    BlockSize = 1
    Clients = {c1, c2}
    PostInit = postInit
    Nobody = nobody
    AsyncSched = TRUE
    MultiProcess = TRUE
    EnablePrealloc = FALSE
    ReserveNull = FALSE
    Reserves = FALSE
    MaxNeed = 2
    Limits <- NoLimits
    DirectLimits <- OnePage
    AvailPhysical <- MemoryTightOrAmple
    Failures <- AllFailures
    CreationTimesOut = TRUE
PROPERTY AllocReturns
