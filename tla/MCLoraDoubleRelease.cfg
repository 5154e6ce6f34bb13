CONSTANTS
    r1 = r1
    r2 = r2
    a = a
    b = b
    Request = {r1, r2}
    Adapter = {a, b}
    NoLora = NoLora
    Operator = Operator
    Nobody = Nobody
    Setups <- MCErrors
    MaxLoads = 3
CHECK_DEADLOCK FALSE
SPECIFICATION Spec
INVARIANT AdapterLoadedWhileUsed
