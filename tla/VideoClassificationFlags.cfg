SPECIFICATION FairSpec
CONSTANTS
    t1 = t1
    t2 = t2
    g1 = g1
    g2 = g2
    Tasks = {t1, t2}
    Groups = {g1}
    NoGroup = NoGroup
    Modes = {"historical", "daily", "hot_ingest", "hot_update"}
    Published = 0
    Views = {0, 1, 2}
    Thresholds <- MCLenient
    RecentAge = 1
    DayLength = 1
    MaxNow = 2
PROPERTIES
    FinalizeFlagsHot
CHECK_DEADLOCK FALSE
