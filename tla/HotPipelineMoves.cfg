SPECIFICATION Spec
CONSTANTS
    g1 = g1
    g2 = g2
    c1 = c1
    c2 = c2
    s1 = s1
    Groups = {g1, g2}
    Creators = {c1}
    GroupOf <- MCAlone
    Newcomers = {}
    Schedules = {}
    ScheduleGroup <- MCNoSchedule
    Runs = {r1, r2}
    None = None
    Interval = 1
    MaxRetries = 1
    MaxNow = 2
    MaxCrashes = 0
PROPERTIES
    StampCoversScrapes
CHECK_DEADLOCK FALSE
