\* every call, in every mode, of a careful application
CONSTANTS
    Clients = {c1, c2}
    Workers = {w1, w2}
    Executor = executor
    Calls = {"verify", "configure", "schedule", "wait", "process", "addNode", "removeNode"}
    Modes = {"normal", "manual", "auto"}
    Careful = TRUE
    MayFail = TRUE
    Modulus = 8
    MaxExecutions = 4
SPECIFICATION FairSpec
INVARIANTS
    ActiveCountsExecutions
    NoLostCompletion
    OneScheduledExecution
    WaitSeesResults
    NodesInVerifiedOrder
    NeverStuckRunning
PROPERTIES
    WaitReturns
