SPECIFICATION MCSpec
CONSTANTS
    XInputs <- MCXInputs
    XRegions <- MCXRegions
    XLimit = 2
    Callers = {"c1", "c2"}
    MaxKeys = 3
    Cap = 1
    Msgs = {1, 2, 3}
    Peer <- MCPeer
    Wants <- MCWants
    MaxLoops = 2
    Claims <- MCClaims
    Window = 2
    NodeNames = {"e", "w"}
    MaxInits = 2
    Areas = {"e", "w"}
    MaxDials = 9
    MaxRPCs = 2
    FaucetRequests = {"r1", "r2"}
    AddressOf <- MCAddressOf
    RemoteAddr <- MCRemoteAddr
    Burst = 1
    MaxRefills = 1
    MaxAttempts = 2
    Workers = {w1, w2}
    Regions = {r1, r2}
    NotFoundRecognised = TRUE
    StoreFaults = FALSE
    RestartAllowed = FALSE
    TEEPairCalls = FALSE
INVARIANTS
    IntentsJustified ChannelsLimited AdmissionJustified HandlesReleased HandlersFair
PROPERTIES ProcessEnds WorkerEnds StopsEnd FaucetEnds RegionRegistered
CHECK_DEADLOCK FALSE
