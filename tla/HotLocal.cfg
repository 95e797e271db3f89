SPECIFICATION FairSpec
CONSTANTS
    Groups = {g1, g2}
    Creators = {c1}
    Callers = {p1, p2}
    Coordinator = Coordinator
    Interval = 2
    MaxRetries = 1
    Free = Free
    MaxNow = 3
INVARIANTS
    TypeOK
    LockMatchesBody
PROPERTIES
    RefinesContract
    CoordinatorPassEnds
