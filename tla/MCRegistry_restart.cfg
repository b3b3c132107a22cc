SPECIFICATION RegSpec
CONSTANTS
    Workers = {w1, w2}
    Regions = {r1, r2}
    NotFoundRecognised = TRUE
    StoreFaults = FALSE
    RestartAllowed = TRUE
    TEEPairCalls = FALSE
INVARIANT ExistingRegionServed
CHECK_DEADLOCK FALSE
