SPECIFICATION Spec
CONSTANTS
    Proxies = {x1}
    Tasks = {t1, t2}
    Checkers = {k1, k2}
    MaxFail = 2
    MaxScrapes = 2
    MaxChecks = 2
    MaxFaults = 1
INVARIANTS
    PoolTypeOK
    StreakExact
    CheckingIsWatched
SYMMETRY MCSymmetry
CHECK_DEADLOCK FALSE
