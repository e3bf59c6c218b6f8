CONSTANTS
    e1 = e1
    e2 = e2
    Enc <- MCEnc
    Hw = {}
    Hot = {e2}
    Start <- MCStart
    Preset0 <- MCPreset
    Top = 3
    Default = 2
    Floor = 1
    Cap = 6
    ThreadStep = 2
    AdjWindows = 2
    PresetWindows = 3
    HeadWindows = 2
    GroupStep = TRUE
    Delay = 1
    Loads <- MCLoads
    MaxThreads = 6
    Asked = {1}
    MaxOverrides = 1
SPECIFICATION MCSpec
INVARIANTS
    DropsAtSource
CHECK_DEADLOCK FALSE
