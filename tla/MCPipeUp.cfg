\* the readers of a source in pipeup wait
CONSTANTS
    s = s
    p = p
    q = q
    r = r
    Order <- ForkOrder
    Preds <- ForkPreds
    Depth <- ForkDepth
    UserNodes = {s, p, q}
    Kinds = {"process", "frame", "auto"}
    MayFail = TRUE
    MaxCalls = 5
SPECIFICATION Spec
CHECK_DEADLOCK FALSE
INVARIANTS
    WarmUpIsExact
PROPERTIES
    RunsOnValidInputs
