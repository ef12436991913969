SPECIFICATION FairSpec
CONSTANTS
    r1 = r1
    r2 = r2
    r3 = r3
    NoRequest = NoRequest
    SigningKey = SigningKey
    Request <- MCRequest
    Params = {"neg_zero", "wide_int"}
    Clock = {1999, 2000}
INVARIANTS
    TypeOK
    NoIdClash
    ChainVerifies
    AckedIsReadBack
PROPERTIES
    TamperingIsReported
    ImplementsAppendLog
    EveryAppendReturns
