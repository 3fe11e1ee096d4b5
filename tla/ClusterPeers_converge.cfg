SPECIFICATION MCSpec
CONSTANTS
    Pods = {1, 2, 3}
    NoPod = NoPod
    ExpectedPods = 3
    MaxEvents = 1
INVARIANT TypeOK
PROPERTIES LeadersConverge RoutesConverge
