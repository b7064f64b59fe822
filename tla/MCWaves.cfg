\* two graphs share the pool; nodes may fail
CONSTANTS
    a = a
    b = b
    c = c
    d = d
    Graphs = {g1, g2}
    Pool = {w1, w2}
    Nodes = {a, b, c, d}
    Deps <- DiamondDeps
    Waves <- Diamond
    Resolver = a
    Sharers = {c, d}
    MayFail = TRUE
    MaxRuns = 2
SPECIFICATION FairSpec
CHECK_DEADLOCK FALSE
INVARIANTS
    DependenciesFirst
    SuccessMeansComplete
    InlineSharersFollow
PROPERTIES
    ExecutionsReturn
    ImplementsDataflow
