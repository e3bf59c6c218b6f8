CONSTANTS
    Stage <- MCStage
    DependsOn <- MCDependsOn
    Width <- One
    MaxAttempts = 2
    Worker = {w1, w2}
    Api = Api
    Rec = Rec
    None = None
    MaxTasks = 4
    MaxFails = 1
    MaxFaults = 2
SPECIFICATION Spec
SYMMETRY Symmetry
INVARIANTS
    FailedHasCause
    NotForgotten
CHECK_DEADLOCK FALSE
