CONSTANTS
    Items <- MCItems
    Cap = 1
    Delay = 1
    Natural = {1, 5}
    Lookback = 1
    MaxCuts = 2
    MaxFail = 1
SPECIFICATION FairSpec
INVARIANTS
    VideoInSegment
    NilMeansAllWritten
PROPERTIES
    NoWriteAfterAnnounce
    SinkReturns
CHECK_DEADLOCK FALSE
