SPECIFICATION Spec
CONSTANTS
    t1 = t1
    t2 = t2
    g1 = g1
    g2 = g2
    Tasks = {t1, t2}
    Groups = {g1, g2}
    NoGroup = NoGroup
    Modes = {"daily", "historical"}
    Published = 0
    Views = {0, 2}
    Thresholds <- MCThresholds
    RecentAge = 1
    DayLength = 2
    MaxNow = 2
INVARIANTS
    TypeOK
    ViralIffArchived
    HotFlagHasRecord
PROPERTIES
    PastDaysKept
    FinalizeSettles
SYMMETRY Symmetry
CHECK_DEADLOCK FALSE
