CONSTANTS
    idle = idle
    b = b
    c = c
    sleep = sleep
    sem = sem
    None = None
    Thread = {idle, b, c}
    Idle = idle
    Semaphore = {sleep, sem}
    SemaphoreSleep = sleep
    UserSemaphore = {sem}
    InitialPriority <- MCPriority
    NewPriority = {}
    InitialCount <- MCInitialCount
    Ticks <- MCTicks
    MaxCount = 1
    QuietStart = TRUE
    TickModulus = 10

SPECIFICATION ClockLiveSpec

PROPERTIES
    SleepsExactly
    RoundRobin
    TimeoutsFire
