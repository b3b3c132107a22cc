SPECIFICATION MCSpec
CONSTANTS
    Servers <- FiveServers
    IDOf <- FiveIDs
    RegionOf <- FiveRegions
    Mismatched = {"bad"}
    Regions = {"east", "west"}
    Calls = {"c1", "c2"}
    QuorumSize = 2
    MaxLatency = 1
    MaxServers = 3
    MaxTime = 2
INVARIANTS QuorumOfServers TimeWithinCall
PROPERTIES NetworkEnds
CHECK_DEADLOCK FALSE
