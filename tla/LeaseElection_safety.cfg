SPECIFICATION Spec
CONSTANTS
    Pods = {p1, p2}
    None = None
    Interval = 2
    Duration = 4
    Latency = 1
    MaxCalls = 1
    MaxTransitions = 2
INVARIANTS TypeOK OneLeaderPerTerm AtMostOneLeader
PROPERTY LeaseHonoured
SYMMETRY Symmetry
