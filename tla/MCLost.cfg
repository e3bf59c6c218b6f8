CONSTANTS
    Output = {"a"}
    Chan <- RollChan
    OutOf <- RollOutOf
    Feed <- RollFeed
    Target <- Two
    MaxDur <- Three
    NoTs = NoTs
    None = None
SPECIFICATION Spec
INVARIANT NothingLost
CHECK_DEADLOCK FALSE
