SPECIFICATION ImageSpec
CHECK_DEADLOCK FALSE
CONSTANTS
    Origins = {"memory", "handle", "uniform"}
    Shapes <- MCShapes
    Padding = 1
    Rects <- MCRects
    Accesses = 2
    Images = 3
    Roots = 1
    Anything = FALSE
    None = None
INVARIANTS
    MapsAreKept
PROPERTIES
    AccessesAreExact
