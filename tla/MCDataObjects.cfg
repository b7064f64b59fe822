SPECIFICATION Spec
CHECK_DEADLOCK FALSE
CONSTANTS
    Worlds <- MCWorlds
    Values <- MCValues
    Operations = {"add", "subtract", "multiply", "divide", "modulus", "min", "max", "equal", "notequal", "less", "lesseq", "greater", "greatereq", "and", "or", "xor", "nand"}
    Policies = {"wrap", "saturate"}
    Roundings = {"nearest", "zero"}
    Scales <- MCScales
    Norms <- MCNorms
    Depths <- MCDepths
    Held = 2
    None = None
INVARIANTS
    ContentsAsWritten
PROPERTIES
    KernelsAreExact
