SPECIFICATION MCSpec
CONSTANTS
    TEEPairs = {"p", "q"}
    Monitors = {m1, m2}
    BRegions = {"r", "s"}
    MaxProcessed = 1
    Calls = {c1, c2}
    Nodes = {"n"}
    RegionOf <- MCRegionOf
    Hashes = {"h1", "h2"}
    MaxSlots = 2
    CoordCapacity = 2
    Requests = {q1, q2}
    Results = {"h1", "h2"}
    ProofWindow = 1
    MaxClock = 3
    PairIDs = {"p", "q"}
    Statuses = {"active", "failed"}
    MaxTasks = 24
    Listed <- MCListed
    MaxListed = 3
    Instants = {0, 1, 2, 3}
    TimeWindow = 2
    Sizes = {0, 15, 16, 24, 25}
    MaxCodeSize = 24
    Digits = {"1"}
    Parts = {"r", "a"}
INVARIANTS
    SelectionJustified OutcomesJustified NodesBounded RetriesClose BooksAgree
    ChecksCompared
PROPERTIES CallEnds RetryExpires HalfCreatedStays
CHECK_DEADLOCK FALSE
