\* long cached prefixes against a full pool
CONSTANTS
    r1 = r1
    r2 = r2
    r3 = r3
    Request = {r1, r2, r3}
    NoReq = NoReq
    Text <- MCPrefixText
    InputLen <- MCPrefixInputLen
    ReqNew <- MCPrefixReqNew
    Priority <- MCPriority
    NumPages = 8
    PageSize = 2
    ChunkedPrefillSize = 2
    MaxRunning = 3
    Ratio = {0, 1}
    RetractSteps = 2
    Setups <- MCLoops
SPECIFICATION FairSpec
INVARIANTS NeverOutOfMemory OneChunkedReq
PROPERTY EveryRequestAnswered
