CONSTANTS
    Caller = {job}
    Job = job
    job = job
    Programs <- MCRun
    Helper = {ctrl}
    ctrl = ctrl
    BusCap = 2
    MaxRuns = 1
    MaxPosts = 1
    Sub = {}
    HistCap = 2
    MaxTicks = 1
SPECIFICATION FairSpec
INVARIANTS
    NoPanic
CHECK_DEADLOCK FALSE
