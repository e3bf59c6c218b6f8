SPECIFICATION FairSpec
CONSTANTS
    Node <- TwiceNode
    Edge <- TwiceEdge
    From <- TwiceFrom
    To <- TwiceTo
    Kind <- TwiceKind
    Streams <- TwiceStreams
    Cap <- TwiceCap
    MsgCap = 1
    Unbounded = {}
    Limited = {}
    MaxRead = 2
    MaxPull = 1
    Value = {1, 2, 3, 4, 5, 6, 7}
    None = 0
PROPERTIES
    Termination
CHECK_DEADLOCK FALSE
