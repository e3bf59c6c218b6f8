CONSTANTS
    Caller = {job}
    Job = job
    job = job
    Programs <- MCStop
    Helper = {ctrl}
    ctrl = ctrl
    BusCap = 2
    MaxRuns = 1
    MaxPosts = 1
    Sub = {}
    HistCap = 2
    MaxTicks = 1
SPECIFICATION FairSpec
INVARIANTS
    NullIsIdle
CHECK_DEADLOCK FALSE
