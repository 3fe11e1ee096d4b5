SPECIFICATION Spec
CONSTANTS
    r1 = r1
    r2 = r2
    r3 = r3
    h1 = h1
    h2 = h2
    h3 = h3
    Requests = {r1, r2, r3}
    Hashes = {h1, h2, h3}
    Prompt <- SharedPrompt
    NoHash = NoHash
    NoBlock = NoBlock
    NumPages = 2
    BlocksPerPage = 2
    MaxCached = 2
    Limits = {0, 1}
    Memories = {1, 2}
INVARIANTS TypeOK HitsAreValid HeldContentKept BlocksAccounted 
CHECK_DEADLOCK FALSE
