SPECIFICATION Spec
CONSTANTS
    t1 = t1  t2 = t2  t3 = t3
    i1 = i1  i2 = i2  i3 = i3
    r1 = r1  w1 = w1  w2 = w2
    Tasks = {t1, t2, t3}
    NoTask = NoTask
    TaskIDs = {i1, i2}
    IDOf <- SharedIDOf
    RegionOf <- MCRegionOf
    WorkerIDsOf <- OneWorker
    MaxTasks = 2
    MinWorkers = 1
    HealthMonitor = TRUE
    MaxResults = 1
    Workers = {w1}
    Regions = {r1}
    NotFoundRecognised = TRUE
    StoreFaults = TRUE
    RestartAllowed = TRUE
    TEEPairCalls = FALSE
INVARIANTS RunningIsExecuting PairLoad
CHECK_DEADLOCK FALSE
