SPECIFICATION Spec
CONSTANTS
    r1 = r1
    r2 = r2
    r3 = r3
    NoRequest = NoRequest
    SigningKey = SigningKey
    Request <- MCRequest
    Params = {"plain", "wide_float"}
    Clock = {1000}
INVARIANTS
    ChainVerifies
