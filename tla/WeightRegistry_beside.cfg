SPECIFICATION Spec
CONSTANTS
    Servers = {p1, p2}
    Exporters = {e1}
    Secondaries = {s1, s2}
    None = None
    Beside = TRUE
INVARIANT ExitOnlyOnDeath
CHECK_DEADLOCK FALSE
