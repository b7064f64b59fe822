\* one thread controls streaming, another only enables and releases
CONSTANTS
    Clients = {c1, c2}
    Controllers = {c1}
    MaxLoops = 3
    MayFail = TRUE
    None = None
SPECIFICATION FairSpec
CHECK_DEADLOCK FALSE
INVARIANTS
    LoopUnderControl
PROPERTIES
    StopReturns
    ReleaseEndsStreaming
