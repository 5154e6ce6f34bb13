\* every loop, feature and client message
CONSTANTS
    r1 = r1
    r2 = r2
    r3 = r3
    Request = {r1, r2, r3}
    NoReq = NoReq
    Text <- MCText
    InputLen <- MCInputLen
    ReqNew <- MCReqNew
    Priority <- MCPriority
    NumPages = 6
    PageSize = 2
    ChunkedPrefillSize = 4
    MaxRunning = 2
    Ratio = {0, 1}
    RetractSteps = 2
    Setups <- MCSetups
SPECIFICATION Spec
INVARIANTS TypeOK PagesAccounted SharedPrefixLive LocksExact TreeExact CommittedMatchesText ChunksCounted RowsCoverWrites RequestsKept AnsweredOnce
