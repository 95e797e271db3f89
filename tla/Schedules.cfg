SPECIFICATION FairSpec
CONSTANTS
    Schedules = {s1}
    Creators = {c1, c2}
    Workers = {w1, w2}
    Offset = 0
    MaxNow = 1
    MaxQueue = 2
    MaxFaults = 2
INVARIANTS
    TypeOK
    OnceRunsOnce
    ExecutedWasPublished
PROPERTIES
    PastDueSettles
CHECK_DEADLOCK FALSE
