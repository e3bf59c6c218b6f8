CONSTANTS
    Id = {1, 2, 3, 4}
    Unknown = 0
    Decls <- MCDecls
    Edge <- MCEdge
    MaxEdges = 4
SPECIFICATION Spec
INVARIANT StagesSorted
CHECK_DEADLOCK FALSE
