CONSTANTS
    Id = {1, 2, 3, 4}
    Unknown = 0
    Decls <- MCDecls
    Edge <- MCEdge
    MaxEdges = 4
SPECIFICATION Spec
INVARIANTS
    OrderFollowsEdges
    CycleIffRefused
    StageIsLongestPath
    DeadIsWasted
    AcceptedIsSound
CHECK_DEADLOCK FALSE
