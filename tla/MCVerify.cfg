CONSTANTS
    Length = 3
    src = src
    a = a
    p = p
    r = r
    py = py
    l = l
    v = v
    u = u
    setting = setting
    None = None
    Kernels = {"not"}
    Graphs <- MCGraphs
    Objects <- MCObjects
    Parent <- MCParent
    Pyramid <- MCPyramid
    Pyramids = {py}
    Virtual <- MCVirtual
    Given <- MCGiven
SPECIFICATION VerifySpec
INVARIANTS
    DispatchFindsParameters
    VerifyDecides
    ScheduleRespectsData
    VirtualsFollowWriters
