SPECIFICATION FairSpec
CONSTANTS
    Groups = {g1, g2}
    Creators = {c1}
    Callers = {p1}
    Coordinator = Coordinator
    Interval = 2
    MaxRetries = 1
    Free = Free
    MaxNow = 3
PROPERTIES
    CoordinatorRunsOnlyDue
