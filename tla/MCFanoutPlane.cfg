CONSTANTS
    Stage <- MCStage
    DependsOn <- MCDependsOn
    Width <- Two
    MaxAttempts = 2
    Worker = {w1, w2}
    Api = Api
    Rec = Rec
    None = None
    MaxTasks = 5
    MaxFails = 1
    MaxFaults = 0
SPECIFICATION FairSpec
INVARIANTS
    StagesInOrder
    NoDoubleRun
PROPERTY Settles
CHECK_DEADLOCK FALSE
