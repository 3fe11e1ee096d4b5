SPECIFICATION Spec
CONSTANTS
    Instances = {i1, i2}
    Requests = {q1, q2, q3}
    Group <- OneGroup
    MinGuarantee <- Min2
    SoftLimit <- Soft2
    HardLimit <- Hard3
    PoolCapacity = 5
    SafeLimit = 5
    GlobalReserved = 1
    MaxInstanceInflight = 2
    MaxGroupInflight = 0
    Estimates <- UpTo4
    TtlEnabled = TRUE
INVARIANTS TypeOK NoOvercommit InflightBounded NoLeak
PROPERTY GuaranteeKept
SYMMETRY RequestSymmetry
