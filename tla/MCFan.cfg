SPECIFICATION FairSpec
CONSTANTS
    Node <- FanNode
    Edge <- FanEdge
    From <- FanFrom
    To <- FanTo
    Kind <- FanKind
    Streams <- FanStreams
    Cap <- FanCap
    MsgCap = 1
    Unbounded = {}
    Limited = {}
    MaxRead = 1
    MaxPull = 1
    Value = {1, 2, 3, 4, 5, 6}
    None = 0
CHECK_DEADLOCK FALSE
INVARIANT NothingStranded
