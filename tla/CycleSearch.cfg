SPECIFICATION Spec
CONSTANTS
    a = a
    b = b
    c = c
    ghost = ghost
    Nodes = {a, b, c, ghost}
    Graphs <- MCGraphs
CHECK_DEADLOCK FALSE
INVARIANTS
    IInv
    VerdictRight
