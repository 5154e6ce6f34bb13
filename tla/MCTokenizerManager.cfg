CONSTANTS
    r1 = r1
    r2 = r2
    a = a
    b = b
    Request = {r1, r2}
    Adapter = {a, b}
    NoLora = NoLora
    Operator = Operator
    Nobody = Nobody
    Setups <- MCSetups
    MaxLoads = 3
CHECK_DEADLOCK FALSE
SPECIFICATION FairSpec
INVARIANTS TypeOK AdapterLoadedWhileUsed RegistryBacked OneWeightVersion PausedMeansIdle NoStateLeft
PROPERTY EverythingEnds
