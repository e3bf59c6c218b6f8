CONSTANTS
    Output = {"a", "b"}
    Chan <- GateChan
    OutOf <- GateOutOf
    Feed <- GateFeed
    Target <- One
    MaxDur <- Two
    NoTs = NoTs
    None = None
SPECIFICATION FairSpec
INVARIANTS
    GatedStart
    OnePlace
    NilMeansWritten
PROPERTIES
    InOrder
    Termination
CHECK_DEADLOCK FALSE
