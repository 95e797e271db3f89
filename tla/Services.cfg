SPECIFICATION ServicesSpec
CONSTANTS
    a1 = a1
    a2 = a2
    v1 = v1
    v2 = v2
    g1 = g1
    k1 = k1
    Nodes = {v1, v2}
    Links <- MCLinks
    Hosts = {"h1"}
    Syncs = {a1, a2}
    HostOf <- MCHostOf
    MaxChanges = 3
    Groups = {g1}
    Collections = {k1}
    Creators = {1, 2, 3}
    Infos <- MCInfos
    Requests = {a1, a2}
    Limits = {1, 2}
    MaxBatch = 2
    Ids = {1, 2}
    Users = {"u1"}
    Clients = {a1, a2}
    Videos = {v1, v2}
    Dramas = {"d1", "d2"}
    Others = {}
    Txs = {a1, a2}
    Apis = {a1, a2}
    Keys = {"growth"}
    Values = {"low", "high"}
    Saves = {a1, a2}
    Day = 24
    Dawn = 8
    Dusk = 22
    Layouts <- MCLayouts
    Writers = {a1, a2}
    MaxSets = 5
    Members = {1, 2, 3}
    Listed = {v1, v2}
    Attempts = 2
    MaxRetries = 1
    MaxPosts = 3
    PageSize = 1
    MaxItems = 3
    Tries = 2
    StopAfter = 2
    MaxRounds = 3
    MaxSnaps = 4
    BatchSize = 2
    Purges = {a1, a2}
    Ttl = 6
    Period = 1
    Lag = 1
    Skew = 1
    Expected = 2
    MaxWorkers = 1
INVARIANTS
    ServicesTypeOK
    ServedIsFile
    CapacityHolds
    DuplicatesBounded
    PurgedIsGone
    StatsExact
    CacheIsTable
    NoGap
    SetsBounded
    SuccessIsSaved
    MarkedMeansTried
    ListComplete
    PagesBounded
    BestKept
    PurgeComplete
    RunningIsShown
    WorkersWereThere
SYMMETRY MCSymmetry
CHECK_DEADLOCK FALSE
