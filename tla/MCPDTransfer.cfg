CONSTANTS
    r1 = r1
    r2 = r2
    Request = {r1, r2}
    PageSize = 2
    ChunkedPrefillSize = 2
    NumPages = 3
    ReservedDecodeTokens = 0
    PrefillBuffers = 2
    MaxEnsureRetries = 2
    MaxFaults = 1
    Configs <- MCConfigs
SPECIFICATION Spec
INVARIANTS TypeOK DecodesOwnKV BuffersExact RequestsKept PollsExpected InflightIsSent MoveGateUndisturbed
