SPECIFICATION RegFairSpec
CONSTANTS
    Workers = {w1, w2}
    Regions = {r1, r2}
    NotFoundRecognised = FALSE
    StoreFaults = FALSE
    RestartAllowed = FALSE
    TEEPairCalls = FALSE
PROPERTY RegionRegistered
CHECK_DEADLOCK FALSE
