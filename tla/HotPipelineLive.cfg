SPECIFICATION FairSpec
CONSTANTS
    g1 = g1
    g2 = g2
    c1 = c1
    c2 = c2
    s1 = s1
    Groups = {g1}
    Creators = {c1, c2}
    GroupOf <- MCGroupOf
    Newcomers = {}
    Schedules = {}
    ScheduleGroup <- MCNoSchedule
    Runs = {r1, r2}
    None = None
    Interval = 1
    MaxRetries = 0
    MaxNow = 1
    MaxCrashes = 1
CHECK_DEADLOCK FALSE
PROPERTIES
    RunsResolve
