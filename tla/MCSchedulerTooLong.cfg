\* a prompt within a page of the pool size is accepted and never scheduled
CONSTANTS
    r1 = r1
    r2 = r2
    r3 = r3
    Request = {r1}
    NoReq = NoReq
    Text <- MCText
    InputLen <- MCLongInputLen
    ReqNew <- MCReqNew
    Priority <- MCPriority
    NumPages = 3
    PageSize = 8
    ChunkedPrefillSize = 8
    MaxRunning = 2
    Ratio = {0, 1}
    RetractSteps = 2
    Setups <- MCPlain
SPECIFICATION FairSpec
PROPERTY EveryRequestAnswered
