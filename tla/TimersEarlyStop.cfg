CONSTANTS
    TickModulus = 10
    Caller = {c1}
    TimerThread = T
    Timer = {x}
    NoTimer = NoTimer
    Ticks = {2}
    Restart = {0}
    MaxStall = 1
    MaxTokens = 1

SPECIFICATION Spec

PROPERTIES
    RunsItsTicks
