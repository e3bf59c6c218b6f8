CONSTANTS
    Stage <- MCStage
    DependsOn <- MCDependsOn
    Width <- Two
    MaxAttempts = 2
    Worker = {w1, w2}
    Api = Api
    Rec = Rec
    None = None
    MaxTasks = 4
    MaxFails = 0
    MaxFaults = 0
SPECIFICATION Spec
INVARIANT GatherSeesAll
CHECK_DEADLOCK FALSE
