SPECIFICATION Spec
CONSTANTS
    Node <- MCNode
    Edge <- MCEdge
    From <- MCFrom
    To <- MCTo
    Kind <- MCKind
    Streams <- MCStreams
    Cap <- MCCap
    MsgCap = 1
    Unbounded = {}
    Limited = {}
    MaxRead = 1
    MaxPull = 1
    Value = {1, 2, 3, 4, 5, 6}
    None = 0
INVARIANTS
    ReturnReleases
    NilMeansDelivered
    ErrorIsCause
PROPERTIES
    NoSendOnClosed
    KeepsContract
CHECK_DEADLOCK FALSE
