SPECIFICATION Spec
CONSTANTS
    Node <- MixNode
    Edge <- MixEdge
    From <- MixFrom
    To <- MixTo
    Kind <- MixKind
    Streams <- MixStreams
    Cap <- MixCap
    MsgCap = 1
    Unbounded = {}
    Limited = {}
    MaxRead = 1
    MaxPull = 1
    Value = {1, 2, 3, 4, 5, 6, 7}
    None = 0
INVARIANTS
    Ownership
CHECK_DEADLOCK FALSE
