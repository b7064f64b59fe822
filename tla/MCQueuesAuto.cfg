\* the QUEUE_AUTO executor alone, no node fails
CONSTANTS
    Params = {input, output}
    AutoThreads = {auto}
    DirectThreads = {}
    LeftOvers = {}
    Dequeuers = {d1, d2}
    MaxRefs = {1, 2}
    BatchSizes = {1, 2}
    MayFail = FALSE
    IsPipelining = TRUE
    MaxEnqueued = 3
    None = None
SPECIFICATION FairSpec
INVARIANTS
    NoRefReturnedInUse
    NoStrandedDequeuer
    OneSetPerExecution
PROPERTIES
    ReadySetsAreProcessed
