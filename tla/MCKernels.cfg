\* two threads, one context after another; ids wrap around
CONSTANTS
    Threads = {t1, t2}
    Standard = {"add"}
    OnDemand = {"vendor"}
    TestModule = "test"
    MaxKernelId = 2
    Indices = {1, 2}
    MaxContexts = 2
    MaxMade = 1
    MaxIds = 3
    MaxHeld = 2
    Anything = FALSE
    None = None
SPECIFICATION Spec
SYMMETRY Symmetry
CHECK_DEADLOCK FALSE
INVARIANTS
    KernelsAreFound
    ParametersAsDeclared
