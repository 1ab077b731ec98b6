CONSTANTS
    idle = idle
    a = a
    b = b
    c = c
    sleep = sleep
    sem = sem
    None = None
    Thread = {idle, a, b, c}
    Idle = idle
    Semaphore = {sleep, sem}
    SemaphoreSleep = sleep
    UserSemaphore = {sem}
    InitialPriority <- MCFixed
    NewPriority = {}
    InitialCount <- MCInitialCount
    Ticks <- MCTicks
    MaxCount = 1
    QuietStart = FALSE
    TickModulus = 4

SPECIFICATION Spec

SYMMETRY SymmetryFixed

INVARIANTS
    WaitersSorted
    HighestPriorityRuns

PROPERTIES
    OnlyFirstSwitchTears
