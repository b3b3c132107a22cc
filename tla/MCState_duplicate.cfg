SPECIFICATION MCSpec
CONSTANTS
    Addrs = {a1, a2, a3}
    MaxUint = 3
    MaxMinted = 6
    MaxCharged = 3
    Executors = {e1, e2}
    Regions = {"east"}
    IDs = {"x", "input:x", "enclave/e"}
    InputID <- MCInputID
    EnclaveIDs = {"enclave/e"}
    Codes = {"c1", "c2"}
    Times = {1}
    Txs <- MCTxs
    VRegions = {"east"}
    VIDs = {"x"}
    Enclaves = {"sgx", "sev"}
    Digests = {"d1", "d2"}
    MaxNow = 1
    MaxAge = 0
    MaxBatch = 2
    Batches <- MCBatches
    StoreRegions = {"east"}
    ConfigRegions = {"east", "west"}
    ConfigWriters = {"w1", "w2"}
    StoreValues = {1}
    QueueIDs = {"e1"}
    Listable = {"k1", "k2"}
    SKeys = {"k1", "k2"}
    SValues = {"v"}
    Ranges = {"r1"}
    RangeKey <- MCRangeKey
    Readers = {"c1", "c2"}
    OpLists <- MCOpLists
    MaxRoots = 1
    Pairs = {"p", "healthy"}
    RegionID = ""
    MaxFaults = 1
INVARIANT DuplicateIsTwo
CHECK_DEADLOCK FALSE
