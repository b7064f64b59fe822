SPECIFICATION Spec
CHECK_DEADLOCK FALSE
CONSTANTS
    sc = sc
    i = i
    p = p
    lp = lp
    a = a
    la = la
    b = b
    lb = lb
    d = d
    n = n
    u = u
    Objects = {sc, i, p, lp, a, la, b, lb}
    Levels <- MCLevels
    Freeing = {sc, p, a, b}
    Delays = {d}
    Slots <- MCSlots
    Nodes = {n, u}
    UserNodes = {u}
    Params = 1
    AutoLocal = {u}
    Most <- MCMost
    Anything = FALSE
    None = None
INVARIANTS
    CountsAreHolders
    ParametersAsSet
    InitialisedOnce
