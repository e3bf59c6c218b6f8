CONSTANTS
    Stage <- MCStage
    DependsOn <- MCDependsOn
    Width <- One
    MaxAttempts = 1
    Worker = {w1, w2}
    Api = Api
    Rec = Rec
    None = None
    MaxTasks = 4
    MaxFails = 1
    MaxFaults = 0
SPECIFICATION Spec
INVARIANT DeadLetterFails
CHECK_DEADLOCK FALSE
