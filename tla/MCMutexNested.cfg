CONSTANTS
    idle = idle
    low = low
    mid = mid
    high = high
    sleep = sleep
    m1 = m1
    m2 = m2
    None = None
    Thread = {idle, low, mid, high}
    Idle = idle
    Semaphore = {sleep, m1, m2}
    SemaphoreSleep = sleep
    UserSemaphore = {}
    Mutex = {m1, m2}
    Inside <- MCInside
    InitialPriority <- MCPriority
    NewPriority = {}
    InitialCount <- MCInitialCount
    Ticks <- MCTicks
    MaxCount = 0
    MaxDepth = 2
    QuietStart = TRUE
    TickModulus = 2

SPECIFICATION MutexSpec

INVARIANTS
    OneHolder
    PriorityRestored
