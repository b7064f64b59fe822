\* two reporting threads, two waiting clients, no symmetry: liveness is checked
CONSTANTS
    g1 = g1
    node = node
    param = param
    Emitters = {e1, e2}
    Waiters = {w1, w2}
    Graphs <- MCGraphs
    NodeTopics <- MCNodes
    ParamTopics <- MCParams
    GraphOf <- MCGraphOf
    Values <- MCValues
    MaxReports = 3
    MaxRegistrations = 2
SPECIFICATION FairSpec
INVARIANTS
    NoLostWakeup
    LateEventsBounded
PROPERTIES
    BlockedClientServed
    ImplementsChannel
