SPECIFICATION FairSpec
CONSTANTS
    s1 = s1
    t1 = t1
    Instances = {s1, t1, t2}
    Moves = {m1, m2}
    Sources <- OneSource
    SleepMode = TRUE
    Overlap <- OneOverlap
    NoInstance = NoInstance
    NoMove = NoMove
    MaxDisturbed = 2
INVARIANTS TypeOK OneMoveAtATime ModelKept NoTwoCopies
PROPERTY MovesEnd
CHECK_DEADLOCK FALSE
