SPECIFICATION FairSpec
CONSTANTS
    Servers = {p1, p2}
    Exporters = {e1}
    Secondaries = {s1, s2}
    None = None
    Beside = FALSE
INVARIANTS TypeOK OnePrimary ExitOnlyOnDeath
PROPERTY OrphansExit
CHECK_DEADLOCK FALSE
