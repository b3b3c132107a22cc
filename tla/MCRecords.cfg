SPECIFICATION MCSpec
CONSTANTS
    Workers = {w1, w2, w3}
    Regions = {r1, r2}
    NotFoundRecognised = TRUE
    StoreFaults = TRUE
    RestartAllowed = TRUE
    TEEPairCalls = TRUE
    Records = {1, 2}
    WRecords = {1, 2}
    NameOrder <- MCNameOrder
    OnDisk <- MCOnDisk
SYMMETRY Symmetry
INVARIANTS StoreBacksMemory OnePairPerRegion PairsRegistered RecordsServed
