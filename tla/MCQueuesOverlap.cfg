\* the executor and a scheduled execution at once; nodes fail, alone and in waves
CONSTANTS
    Params = {input}
    AutoThreads = {auto}
    DirectThreads = {direct}
    LeftOvers = {wave}
    Dequeuers = {d1, d2}
    MaxRefs = {0, 1, 2}
    BatchSizes = {1, 2}
    MayFail = TRUE
    IsPipelining = TRUE
    MaxEnqueued = 3
    None = None
SPECIFICATION FairSpec
PROPERTIES
    ImplementsPipe
    BlockedDequeuerServed
