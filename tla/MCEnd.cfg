SPECIFICATION FairSpec
CONSTANTS
    Node <- EndNode
    Edge <- EndEdge
    From <- EndFrom
    To <- EndTo
    Kind <- EndKind
    Streams <- EndStreams
    Cap <- EndCap
    MsgCap = 1
    Unbounded = {"src"}
    Limited = {"out"}
    MaxRead = 1
    MaxPull = 1
    Value = {1, 2, 3, 4, 5, 6}
    None = 0
CHECK_DEADLOCK FALSE
PROPERTY LimitEndsRun
