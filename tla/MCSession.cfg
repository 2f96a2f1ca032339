SPECIFICATION Spec
CONSTANTS
    QueueCap = 2
    DrainMax = 1
    HotRetries = 1
    MaxInputs = 3
    MaxTicks = 1
    MaxResizes = 1
    MaxOutputs = 1
    MaxDrops = 2
    MaxPauses = 1
    MaxEvents = 4
    Budget = 5
    Window = 3
    Threshold = 2
    Sizes = {1, 2}
    PassSends = 2
    EventBuffer = 2
    MaxBytes = 24
    Interval = 2
    LargeGap = 1
    Timeout = 3
    MaxStreak = 2
    MaxDelay = 4
    MaxClock = 16
    MaxLost = 2
INVARIANTS
    NoLostWakeup
    ScreenIsTracked
    BudgetCounts
    ProbesAreMatched
PROPERTIES
    InputReachesTheScreen
    PauseEnds
