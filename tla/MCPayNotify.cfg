SPECIFICATION FairSpec
CONSTANTS
    w1 = w1
    w2 = w2
    t1 = t1
    t2 = t2
    Workers = {w1, w2}
    Tasks = {t1, t2}
    MaxNotifyTimes = 2
    MaxFaults = 1
    MayStall = FALSE
INVARIANTS
    TaskExplained
    AttemptsCounted
PROPERTIES
    FinalStays
    TaskSettles
CHECK_DEADLOCK FALSE
