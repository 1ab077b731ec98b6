CONSTANTS
    TickModulus = 12
    Caller = {c1}
    TimerThread = T
    Timer = {x, y}
    NoTimer = NoTimer
    Ticks = {0}
    Restart = {0, 2}
    MaxStall = 1
    MaxTokens = 1

SPECIFICATION LiveSpec

INVARIANTS
    RunningListed
    DueInOrder
    NotOverslept

PROPERTIES
    TimerThreadLooks
