CONSTANTS
    Caller = {job}
    Job = job
    job = job
    Programs <- MCPrograms
    Helper = {ctrl}
    ctrl = ctrl
    BusCap = 2
    MaxRuns = 1
    MaxPosts = 1
    Sub = {s1}
    HistCap = 2
    MaxTicks = 1
SPECIFICATION MCSpec
INVARIANTS
    NullIsIdle
    StatusTells
    DoneIsLast
    NoGap
    EndIsTold
PROPERTIES
    Released
CHECK_DEADLOCK FALSE
