CONSTANTS
    idle = idle
    a = a
    b = b
    c = c
    sleep = sleep
    sem = sem
    None = None
    Thread = {idle, a, b, c}
    Idle = idle
    Semaphore = {sleep, sem}
    SemaphoreSleep = sleep
    UserSemaphore = {sem}
    InitialPriority <- MCEqual
    NewPriority = {1, 2}
    InitialCount <- MCInitialCount
    Ticks <- MCTicks
    MaxCount = 1
    QuietStart = TRUE
    TickModulus = 4

SPECIFICATION Spec

SYMMETRY SymmetryEqual

INVARIANTS
    TypeOK
    ThreadsPlaced
    TimeoutsPending
    CountMatchesWaiters
    AnotherThreadReady
    ReadySorted

PROPERTIES
    SwitchesToHighest
    ImplementsSemaphores
