-------------------------------- MODULE Kernel --------------------------------
(***************************************************************************)
(* The scheduler of src/src/rtos.c on its single CPU (OS_CPU_COUNT is 1):  *)
(* threads, counting semaphores, the tick interrupt and deferred           *)
(* rescheduling.                                                           *)
(*                                                                         *)
(* Every kernel call runs between OS_CriticalBegin and OS_CriticalEnd, so  *)
(* each one is a single action of the thread that runs.  The interrupt     *)
(* service routine is a sequence of actions (enter, one per handler and    *)
(* per iteration of the wake-up loop, exit) during which no thread moves.  *)
(***************************************************************************)
EXTENDS ThreadLists

CONSTANTS
    Thread,         \* control blocks, the idle thread's included
    Idle,           \* the thread rtos__init creates
    Semaphore,
    SemaphoreSleep, \* the semaphore rtos__thread_sleep pends on; never posted
    UserSemaphore,  \* the semaphores threads and drivers use directly
    None,           \* the NULL pointer
    InitialPriority,\* the priority a thread is created with
    NewPriority,    \* arguments of OS_ThreadPrioritySet
    InitialCount,   \* count argument of OS_SemaphoreCreate
    Ticks,          \* ticks arguments of OS_SemaphorePend
    MaxCount,       \* bound: no post above this count
    QuietStart      \* no interrupt comes within the first switch (lines 415-442)

WAIT_FOREVER == -1
NO_WAIT == 0

ASSUME KernelAssumption ==
    /\ Idle \in Thread
    /\ SemaphoreSleep \in Semaphore
    /\ UserSemaphore \subseteq Semaphore \ {SemaphoreSleep}
    /\ None \notin Thread \cup Semaphore
    /\ InitialPriority \in [Thread -> Nat]
    /\ NewPriority \subseteq Nat
    /\ InitialCount \in [Semaphore -> Nat]
    /\ InitialCount[SemaphoreSleep] = 0
    /\ Ticks \subseteq Int
    /\ MaxCount \in Nat
    /\ QuietStart \in BOOLEAN
    /\ ~QuietStart => NewPriority = {}

VARIABLES
    ThreadHead,           \* ready threads, not including the running one
    TimeoutHead,          \* pending threads with a timeout, earliest first
    ThreadCurrent,        \* the running thread, None before rtos__start
    ThreadTime,           \* ticks since reboot, modulo TickModulus
    ThreadSwapEnabled,    \* set by rtos__start
    switching,            \* how far the boot code is in the first switch
    threadNext,           \* the thread it switches to; its context is the boot code's
    InterruptInside,      \* inside rtos__interrupt_service_routine
    ThreadNeedReschedule, \* 0, 2 (reschedule later) or 3 (... round robin)
    status,               \* interrupt lines the service routine has yet to serve
    inTick,               \* inside the loop of OS_ThreadTick
    state,                \* of each thread; "none" before rtos__thread_create
    priority,
    ticksTimeout,
    semaphorePending,
    returnCode,           \* thread->returnCode: of the last pend that slept
    count,                \* of each semaphore
    threadHead            \* threads pending on each semaphore

schedVars == <<ThreadHead, ThreadCurrent, ThreadNeedReschedule, state>>
semVars == <<count, threadHead, semaphorePending, returnCode>>
timeVars == <<TimeoutHead, ThreadTime, ticksTimeout>>
isrVars == <<InterruptInside, status, inTick>>
bootVars == <<ThreadSwapEnabled, switching, threadNext>>
vars == <<schedVars, semVars, timeVars, isrVars, bootVars, priority>>

-------------------------------------------------------------------------------
\* The state rtos__init leaves: the idle thread is ready, its creation has
\* asked for a reschedule that waits for rtos__start.
Init ==
    /\ ThreadHead = <<Idle>>
    /\ TimeoutHead = <<>>
    /\ ThreadCurrent = None
    /\ ThreadTime = 0
    /\ ThreadSwapEnabled = FALSE
    /\ switching = "no"
    /\ threadNext = None
    /\ InterruptInside = FALSE
    /\ ThreadNeedReschedule = 2
    /\ status = {}
    /\ inTick = FALSE
    /\ state = [t \in Thread |-> IF t = Idle THEN "READY" ELSE "none"]
    /\ priority = InitialPriority
    /\ ticksTimeout = [t \in Thread |-> 0]
    /\ semaphorePending = [t \in Thread |-> None]
    /\ returnCode = [t \in Thread |-> 0]
    /\ count = InitialCount
    /\ threadHead = [s \in Semaphore |-> <<>>]

-------------------------------------------------------------------------------
(***************************************************************************)
(* OS_ThreadReschedule(roundRobin), called with the ready list, the states *)
(* and the priorities its caller has just written.                         *)
(***************************************************************************)

\* Swaps are off, or this runs in an interrupt: remember to do it later.
DeferReschedule(roundRobin, ready, st) ==
    /\ ThreadNeedReschedule' =
           IF roundRobin \/ ThreadNeedReschedule = 3 THEN 3 ELSE 2
    /\ ThreadHead' = ready
    /\ state' = st
    /\ UNCHANGED ThreadCurrent

\* Mutant: equals do not take turns.
MustSwap_NoTurns(roundRobin, next, st, prio) ==
    \/ ThreadCurrent = None
    \/ st[ThreadCurrent] = "PEND"
    \/ prio[ThreadCurrent] < prio[next]

\* Mutant: a running thread only gives way when it sleeps or its turn is over.
MustSwap_NoPreemption(roundRobin, next, st, prio) ==
    \/ ThreadCurrent = None
    \/ st[ThreadCurrent] = "PEND"
    \/ roundRobin /\ prio[ThreadCurrent] <= prio[next]

MustSwap(roundRobin, next, st, prio) ==
    \/ ThreadCurrent = None
    \/ st[ThreadCurrent] = "PEND"
    \/ prio[ThreadCurrent] < prio[next]
    \/ roundRobin /\ prio[ThreadCurrent] = prio[next]

\* Mutant: a thread that is still running is not put back into the ready list.
Swap_LosePreempted(next, ready, st, prio) ==
    /\ ThreadCurrent' = next
    /\ ThreadHead' = PriorityRemove(ready, next)
    /\ state' = [t \in Thread |->
                    IF t = next THEN "RUNNING"
                    ELSE IF t = ThreadCurrent /\ st[t] = "RUNNING" THEN "READY"
                    ELSE st[t]]

\* A thread that is still running goes back to the ready list; the first of
\* the list as it was runs.
Swap(next, ready, st, prio) ==
    LET preempted == ThreadCurrent # None /\ st[ThreadCurrent] = "RUNNING"
        list == IF preempted THEN PriorityInsert(ready, ThreadCurrent, prio) ELSE ready
    IN  /\ ThreadCurrent' = next
        /\ ThreadHead' = PriorityRemove(list, next)
        /\ state' = [t \in Thread |->
                        IF t = next THEN "RUNNING"
                        ELSE IF preempted /\ t = ThreadCurrent THEN "READY"
                        ELSE st[t]]

Reschedule(roundRobin, ready, st, prio) ==
    /\ ThreadNeedReschedule' = 0
    /\ IF ready # <<>> /\ MustSwap(roundRobin, Head(ready), st, prio)
       THEN Swap(Head(ready), ready, st, prio)
       ELSE /\ ThreadHead' = ready
            /\ state' = st
            /\ UNCHANGED ThreadCurrent

OS_ThreadReschedule(roundRobin, ready, st, prio) ==
    IF InterruptInside \/ ~ThreadSwapEnabled
    THEN DeferReschedule(roundRobin, ready, st)
    ELSE Reschedule(roundRobin, ready, st, prio)

-------------------------------------------------------------------------------
(***************************************************************************)
(* Kernel calls.  Running(t): t executes its own code, with interrupts on. *)
(***************************************************************************)

\* As long as the boot code has not jumped to the first thread, that thread's
\* context is the boot code's.
Running(t) ==
    /\ ThreadCurrent = t
    /\ ~InterruptInside
    /\ switching # "no" => t # threadNext

\* The end of rtos__thread_create: the new thread enters the ready list.  The
\* caller is a running thread, or the boot code before rtos__start.
rtos__thread_create(t) ==
    /\ \/ ThreadCurrent = None /\ ~ThreadSwapEnabled /\ ~InterruptInside
       \/ \E caller \in Thread \ {Idle} : Running(caller)
    /\ state[t] = "none"
    /\ OS_ThreadReschedule(FALSE, PriorityInsert(ThreadHead, t, priority),
                           [state EXCEPT ![t] = "READY"], priority)
    /\ UNCHANGED <<semVars, timeVars, isrVars, bootVars, priority>>

(***************************************************************************)
(* rtos__start reschedules with interrupts on: OS_SpinLock() is 0 on one   *)
(* CPU (rtos.h 56).  One that comes before line 415 starts the threads     *)
(* itself, and as nobody keeps the context of the boot code then, that is  *)
(* its end.  One that comes later finds a thread that is ThreadCurrent and *)
(* still READY.                                                            *)
(***************************************************************************)

StartEnable ==
    /\ ~ThreadSwapEnabled
    /\ ~InterruptInside
    /\ ThreadSwapEnabled' = TRUE
    /\ UNCHANGED <<schedVars, semVars, timeVars, isrVars, switching, threadNext, priority>>

BeforeFirstSwitch == ThreadSwapEnabled /\ ThreadCurrent = None /\ ~InterruptInside

\* Undisturbed, the first switch is one step.
FirstSwitch ==
    /\ QuietStart
    /\ BeforeFirstSwitch
    /\ Reschedule(TRUE, ThreadHead, state, priority)
    /\ UNCHANGED <<semVars, timeVars, isrVars, bootVars, priority>>

\* Lines 401-415: the head of the ready list becomes the current thread.
FirstPick ==
    /\ ~QuietStart
    /\ BeforeFirstSwitch
    /\ ThreadNeedReschedule' = 0
    /\ ThreadCurrent' = Head(ThreadHead)
    /\ threadNext' = ThreadCurrent'
    /\ switching' = "picked"
    /\ UNCHANGED <<semVars, timeVars, isrVars, ThreadHead, state, ThreadSwapEnabled, priority>>

BootAt(point) == switching = point /\ ThreadCurrent = threadNext /\ ~InterruptInside

\* Mutant: the thread stays in the ready list.
FirstUnlink_Forgets ==
    /\ BootAt("picked")
    /\ switching' = "unlinked"
    /\ UNCHANGED <<schedVars, semVars, timeVars, isrVars, ThreadSwapEnabled, threadNext, priority>>

\* Lines 437-439.  A thread an interrupt has unlinked meanwhile has no next, which
\* becomes the head of the list.
FirstUnlink ==
    /\ BootAt("picked")
    /\ ThreadHead' = IF threadNext \in ToSet(ThreadHead)
                     THEN PriorityRemove(ThreadHead, threadNext) ELSE <<>>
    /\ switching' = "unlinked"
    /\ UNCHANGED <<semVars, timeVars, isrVars, ThreadCurrent, ThreadNeedReschedule, state,
                   ThreadSwapEnabled, threadNext, priority>>

\* Lines 440-442: the jump to the thread.  If an interrupt has saved a context for
\* it, that is a frame of the boot code's stack which has been left; what the
\* machine does then is undefined and not followed.
FirstJump ==
    /\ BootAt("unlinked")
    /\ state[threadNext] = "READY"
    /\ state' = [state EXCEPT ![threadNext] = "RUNNING"]
    /\ switching' = "no"
    /\ UNCHANGED <<semVars, timeVars, isrVars, ThreadHead, ThreadCurrent, ThreadNeedReschedule,
                   ThreadSwapEnabled, threadNext, priority>>

rtos__start == StartEnable \/ FirstSwitch \/ FirstPick \/ FirstUnlink \/ FirstJump

\* Mutant: the new priority is stored and the ready list left as it is.
OS_ThreadPrioritySet_NoSort(t, p) ==
    /\ priority' = [priority EXCEPT ![t] = p]
    /\ UNCHANGED <<schedVars, semVars, timeVars, isrVars, bootVars>>

\* A thread of a given state is re-sorted only when it is in the ready list.
OS_ThreadPrioritySet(t, p) ==
    /\ priority' = [priority EXCEPT ![t] = p]
    /\ IF state[t] = "READY"
       THEN OS_ThreadReschedule(FALSE,
                PriorityInsert(PriorityRemove(ThreadHead, t), t, priority'), state, priority')
       ELSE UNCHANGED schedVars
    /\ UNCHANGED <<semVars, timeVars, isrVars, bootVars>>

\* The caller goes to sleep on s, for ever or until ThreadTime + ticks.
SleepOn(t, s, ticks) ==
    /\ count' = [count EXCEPT ![s] = @ - 1]
    /\ semaphorePending' = [semaphorePending EXCEPT ![t] = s]
    /\ ticksTimeout' = [ticksTimeout EXCEPT ![t] = (ThreadTime + ticks) % TickModulus]
    /\ threadHead' = [threadHead EXCEPT ![s] = PriorityInsert(@, t, priority)]
    /\ TimeoutHead' = IF ticks = WAIT_FOREVER
                      THEN TimeoutHead
                      ELSE TimeoutInsert(TimeoutHead, t, ticksTimeout')
    /\ OS_ThreadReschedule(FALSE, ThreadHead, [state EXCEPT ![t] = "PEND"], priority)
    /\ UNCHANGED <<isrVars, ThreadTime, returnCode, bootVars, priority>>

TakeToken(s) ==
    /\ count' = [count EXCEPT ![s] = @ - 1]
    /\ UNCHANGED <<schedVars, timeVars, isrVars, threadHead, semaphorePending,
                   returnCode, bootVars, priority>>

\* With ticks = NO_WAIT and no token the call returns -1 and changes nothing.
OS_SemaphorePend(t, s, ticks) ==
    \/ count[s] > 0 /\ TakeToken(s)
    \/ count[s] <= 0 /\ ticks # NO_WAIT /\ SleepOn(t, s, ticks)

rtos__thread_sleep(t, ticks) == OS_SemaphorePend(t, SemaphoreSleep, ticks)

\* Mutant: the timeout of the thread that is woken stays armed.
WakeFirst_KeepTimeout(s) ==
    LET t == Head(threadHead[s])
    IN  /\ threadHead' = [threadHead EXCEPT ![s] = PriorityRemove(@, t)]
        /\ semaphorePending' = [semaphorePending EXCEPT ![t] = None]
        /\ returnCode' = [returnCode EXCEPT ![t] = 0]
        /\ OS_ThreadReschedule(FALSE, PriorityInsert(ThreadHead, t, priority),
                               [state EXCEPT ![t] = "READY"], priority)
        /\ UNCHANGED timeVars

\* The first thread of the waiting list gets the token.
WakeFirst(s) ==
    LET t == Head(threadHead[s])
    IN  /\ TimeoutHead' = TimeoutRemove(TimeoutHead, t)
        /\ threadHead' = [threadHead EXCEPT ![s] = PriorityRemove(@, t)]
        /\ semaphorePending' = [semaphorePending EXCEPT ![t] = None]
        /\ returnCode' = [returnCode EXCEPT ![t] = 0]
        /\ OS_ThreadReschedule(FALSE, PriorityInsert(ThreadHead, t, priority),
                               [state EXCEPT ![t] = "READY"], priority)
        /\ UNCHANGED <<ThreadTime, ticksTimeout>>

\* Mutant: "++count < 0" for "++count <= 0", the last sleeper is not woken.
Post_LastSleeps(s) ==
    /\ count' = [count EXCEPT ![s] = @ + 1]
    /\ IF count[s] < -1
       THEN WakeFirst(s)
       ELSE UNCHANGED <<schedVars, timeVars, threadHead, semaphorePending, returnCode>>
    /\ UNCHANGED <<bootVars, priority>>

\* Called from a thread or, through DeviceHandler, from an interrupt.
Post(s) ==
    /\ count' = [count EXCEPT ![s] = @ + 1]
    /\ IF count[s] < 0
       THEN WakeFirst(s)
       ELSE UNCHANGED <<schedVars, timeVars, threadHead, semaphorePending, returnCode>>
    /\ UNCHANGED <<bootVars, priority>>

OS_SemaphorePost(s) == Post(s) /\ UNCHANGED isrVars

-------------------------------------------------------------------------------
(***************************************************************************)
(* Interrupts.  interrupt__init enables them before the first thread       *)
(* exists; they are off while the service routine runs.                    *)
(***************************************************************************)

\* A timer tick, a device interrupt, or both at once.
InterruptEnter(lines) ==
    /\ ~InterruptInside
    /\ InterruptInside' = TRUE
    /\ status' = lines
    /\ UNCHANGED <<schedVars, semVars, timeVars, inTick, bootVars, priority>>

Serve(line) ==
    /\ line \in status
    /\ ~inTick
    /\ status' = status \ {line}
    /\ UNCHANGED InterruptInside

\* A driver's handler may post a semaphore, or do nothing the kernel sees.
DeviceHandler ==
    /\ Serve("device")
    /\ \/ UNCHANGED <<schedVars, semVars, timeVars, bootVars, priority>>
       \/ \E s \in UserSemaphore : count[s] < MaxCount /\ Post(s)
    /\ UNCHANGED inTick

\* Mutant: the tick counter does not wrap.
OS_ThreadTick_NoWrap ==
    /\ Serve("tick")
    /\ ThreadTime' = ThreadTime + 1
    /\ inTick' = TRUE
    /\ UNCHANGED <<schedVars, semVars, TimeoutHead, ticksTimeout,
                   bootVars, priority>>

\* OS_InterruptTick: OS_ThreadTick up to its loop.
OS_ThreadTick ==
    /\ Serve("tick")
    /\ ThreadTime' = (ThreadTime + 1) % TickModulus
    /\ inTick' = TRUE
    /\ UNCHANGED <<schedVars, semVars, TimeoutHead, ticksTimeout,
                   bootVars, priority>>

\* Mutant: the comparison ignores the wrap of the counter.
Expired_Unsigned(t) == ThreadTime > ticksTimeout[t]

Expired(t) == SignedDiff(ThreadTime, ticksTimeout[t]) >= 0

\* Mutant: the thread that timed out stays in the list of its semaphore.
TickWake_StaysListed ==
    LET t == Head(TimeoutHead)
        s == semaphorePending[t]
    IN  /\ inTick
        /\ TimeoutHead # <<>>
        /\ Expired(t)
        /\ TimeoutHead' = TimeoutRemove(TimeoutHead, t)
        /\ count' = [count EXCEPT ![s] = @ + 1]
        /\ semaphorePending' = [semaphorePending EXCEPT ![t] = None]
        /\ returnCode' = [returnCode EXCEPT ![t] = -1]
        /\ ThreadHead' = PriorityInsert(ThreadHead, t, priority)
        /\ state' = [state EXCEPT ![t] = "READY"]
        /\ UNCHANGED <<threadHead, ThreadCurrent, ThreadNeedReschedule, ThreadTime,
                       ticksTimeout, isrVars, bootVars, priority>>

\* Mutant: a timeout does not give back what the sleeper took from the count.
TickWake_KeepCount ==
    LET t == Head(TimeoutHead)
        s == semaphorePending[t]
    IN  /\ inTick
        /\ TimeoutHead # <<>>
        /\ Expired(t)
        /\ TimeoutHead' = TimeoutRemove(TimeoutHead, t)
        /\ semaphorePending' = [semaphorePending EXCEPT ![t] = None]
        /\ returnCode' = [returnCode EXCEPT ![t] = -1]
        /\ threadHead' = [threadHead EXCEPT ![s] = PriorityRemove(@, t)]
        /\ ThreadHead' = PriorityInsert(ThreadHead, t, priority)
        /\ state' = [state EXCEPT ![t] = "READY"]
        /\ UNCHANGED <<count, ThreadCurrent, ThreadNeedReschedule, ThreadTime,
                       ticksTimeout, isrVars, bootVars, priority>>

\* One iteration of the loop: the first thread has timed out.
TickWake ==
    LET t == Head(TimeoutHead)
        s == semaphorePending[t]
    IN  /\ inTick
        /\ TimeoutHead # <<>>
        /\ Expired(t)
        /\ TimeoutHead' = TimeoutRemove(TimeoutHead, t)
        /\ count' = [count EXCEPT ![s] = @ + 1]
        /\ semaphorePending' = [semaphorePending EXCEPT ![t] = None]
        /\ returnCode' = [returnCode EXCEPT ![t] = -1]
        /\ threadHead' = [threadHead EXCEPT ![s] = PriorityRemove(@, t)]
        /\ ThreadHead' = PriorityInsert(ThreadHead, t, priority)
        /\ state' = [state EXCEPT ![t] = "READY"]
        /\ UNCHANGED <<ThreadCurrent, ThreadNeedReschedule, ThreadTime, ticksTimeout,
                       isrVars, bootVars, priority>>

\* The loop ends; the rotation among equals waits for the end of the interrupt.
TickDone ==
    /\ inTick
    /\ TimeoutHead # <<>> => ~Expired(Head(TimeoutHead))
    /\ inTick' = FALSE
    /\ OS_ThreadReschedule(TRUE, ThreadHead, state, priority)
    /\ UNCHANGED <<semVars, timeVars, InterruptInside, status, bootVars, priority>>

\* Mutant: the reschedule the handlers asked for is forgotten.
InterruptExit_NoReschedule ==
    /\ InterruptInside
    /\ status = {}
    /\ ~inTick
    /\ InterruptInside' = FALSE
    /\ UNCHANGED <<schedVars, semVars, timeVars, status, inTick, bootVars, priority>>

\* Every line is served: do the reschedule the handlers asked for.  Before
\* rtos__start it is deferred once more, which leaves the request as it is.
InterruptExit ==
    /\ InterruptInside
    /\ status = {}
    /\ ~inTick
    /\ InterruptInside' = FALSE
    /\ IF ThreadNeedReschedule = 0 \/ ~ThreadSwapEnabled
       THEN UNCHANGED schedVars
       ELSE Reschedule(ThreadNeedReschedule = 3, ThreadHead, state, priority)
    /\ UNCHANGED <<semVars, timeVars, status, inTick, bootVars, priority>>

rtos__interrupt_service_routine ==
    \/ \E lines \in {{"tick"}, {"device"}, {"tick", "device"}} : InterruptEnter(lines)
    \/ DeviceHandler
    \/ OS_ThreadTick
    \/ TickWake
    \/ TickDone
    \/ InterruptExit

-------------------------------------------------------------------------------
\* What a running thread may do; the idle thread only gets interrupted.
ThreadCall(t) ==
    /\ Running(t)
    /\ t # Idle
    /\ \/ \E s \in UserSemaphore, ticks \in Ticks : OS_SemaphorePend(t, s, ticks)
       \/ \E ticks \in Ticks : rtos__thread_sleep(t, ticks)
       \/ \E s \in UserSemaphore : count[s] < MaxCount /\ OS_SemaphorePost(s)
       \/ \E u \in Thread \ {Idle}, p \in NewPriority :
             state[u] # "none" /\ OS_ThreadPrioritySet(u, p)

Next ==
    \/ \E t \in Thread : rtos__thread_create(t)
    \/ rtos__start
    \/ \E t \in Thread : ThreadCall(t)
    \/ rtos__interrupt_service_routine

Spec == Init /\ [][Next]_vars

\* A raised interrupt line stays raised until it is served, so the tick gets
\* through whatever other interrupts arrive (SF); the boot code reaches
\* rtos__start between interrupts (SF); the service routine runs to its end.
\* Nothing is assumed about the threads.
Fairness ==
    /\ SF_vars(rtos__start)
    /\ SF_vars(\E lines \in {{"tick"}, {"tick", "device"}} : InterruptEnter(lines))
    /\ WF_vars(DeviceHandler \/ OS_ThreadTick \/ TickWake \/ TickDone \/ InterruptExit)

LiveSpec == Spec /\ Fairness

-------------------------------------------------------------------------------
ThreadState == {"none", "PEND", "READY", "RUNNING"}

\* The type invariant: every variable of the scheduler keeps its type.
TypeOK ==
    /\ ThreadHead \in Seq(Thread)
    /\ TimeoutHead \in Seq(Thread)
    /\ ThreadCurrent \in Thread \cup {None}
    /\ ThreadTime \in Tick
    /\ ThreadSwapEnabled \in BOOLEAN
    /\ switching \in {"no", "picked", "unlinked"}
    /\ threadNext \in Thread \cup {None}
    /\ InterruptInside \in BOOLEAN
    /\ ThreadNeedReschedule \in {0, 2, 3}
    /\ status \in SUBSET {"tick", "device"}
    /\ inTick \in BOOLEAN
    /\ state \in [Thread -> ThreadState]
    /\ priority \in [Thread -> Nat]
    /\ ticksTimeout \in [Thread -> Tick]
    /\ semaphorePending \in [Thread -> Semaphore \cup {None}]
    /\ returnCode \in [Thread -> {0, -1}]
    /\ count \in [Semaphore -> Int]
    /\ threadHead \in [Semaphore -> Seq(Thread)]

\* A list holds exactly the threads of a set, each once.
Lists(list, threads) == IsInjective(list) /\ ToSet(list) = threads

\* The running thread is in no list, a ready one in ThreadHead ...
RunnablePlaced ==
    /\ {t \in Thread : state[t] = "RUNNING"} = {ThreadCurrent} \ {None}
    /\ Lists(ThreadHead, {t \in Thread : state[t] = "READY"})

\* ... and a pending one in the list of the semaphore it records.
SleepersPlaced ==
    /\ \A s \in Semaphore : Lists(threadHead[s], {t \in Thread : semaphorePending[t] = s})
    /\ \A t \in Thread : state[t] = "PEND" <=> semaphorePending[t] # None

\* Within the first switch nobody runs, and the thread picked is still ready.
HalfSwitched ==
    /\ ThreadCurrent = threadNext
    /\ state[threadNext] = "READY"
    /\ \A t \in Thread : state[t] # "RUNNING"
    /\ Lists(ThreadHead, {t \in Thread : state[t] = "READY"}
                             \ (IF switching = "unlinked" THEN {threadNext} ELSE {}))

\* Every control block is where its state says it is and nowhere else.  The
\* unlink code reads next and prev without knowing which list they belong to, so
\* one block on two lists corrupts both.
ThreadsPlaced ==
    /\ IF switching = "no" THEN RunnablePlaced ELSE HalfSwitched
    /\ SleepersPlaced

\* "assert(threadNext->state == THREAD_READY)" (rtos.c:438) in the first switch.
NextIsReady == BootAt("picked") => state[threadNext] = "READY"

\* An interrupt within the first switch is the only thing that ever misplaces a
\* control block: one between rtos__init and line 415 does no harm, although it may
\* start the threads itself.
OnlyFirstSwitchTears ==
    [][ThreadsPlaced /\ ~ThreadsPlaced' => switching # "no" /\ InterruptInside]_vars

\* The timeout list holds only sleeping threads, each once: a thread that was
\* woken by a post can not be woken again by the tick.
TimeoutsPending ==
    /\ IsInjective(TimeoutHead)
    /\ \A t \in ToSet(TimeoutHead) : state[t] = "PEND"

\* A negative count is the number of sleepers, any other count means nobody
\* sleeps: timeouts and posts give back exactly what each sleeper took.
CountMatchesWaiters ==
    \A s \in Semaphore :
        Len(threadHead[s]) = IF count[s] < 0 THEN -count[s] ELSE 0

\* "assert(ThreadHead)" before a sleeping thread gives up the CPU (rtos.c:740):
\* there is always another thread to run.
AnotherThreadReady ==
    ThreadCurrent \notin {Idle, None} => ThreadHead # <<>>

SortedByPriority(list) ==
    \A i, j \in 1 .. Len(list) : i < j => priority[list[i]] >= priority[list[j]]

\* "ThreadHead: linked list of threads sorted by priority", whatever priorities
\* change; Reschedule looks at the first thread only.
ReadySorted == SortedByPriority(ThreadHead)

\* The waiting lists are sorted by priority too, so that a post wakes the most
\* urgent sleeper.
WaitersSorted == \A s \in Semaphore : SortedByPriority(threadHead[s])

NoneMoreUrgent(st, prio) ==
    \A t \in Thread : st[t] = "READY" => prio[t] <= prio[ThreadCurrent]

\* Fully pre-emptive: outside interrupts no ready thread is more urgent than the
\* one that runs, as long as the ready ones are all in ThreadHead.
HighestPriorityRuns ==
    ThreadCurrent # None /\ ~InterruptInside /\ RunnablePlaced => NoneMoreUrgent(state, priority)

\* Whatever priorities change: a switch never picks a thread while a more
\* urgent one is ready, and a thread woken or created outside an interrupt
\* preempts a less urgent caller at once.
SwitchesToHighest ==
    [][ /\ ThreadCurrent' # ThreadCurrent => NoneMoreUrgent(state, priority)'
        /\ \A t \in Thread :
              /\ state[t] \in {"PEND", "none"}
              /\ state'[t] = "READY"
              /\ ~InterruptInside /\ ThreadSwapEnabled
              => priority'[t] <= priority'[ThreadCurrent'] ]_vars

TopPriority(t) ==
    \A u \in Thread : state[u] \in {"READY", "RUNNING"} => priority[u] <= priority[t]

\* Ready threads of the top priority take turns: one that never sleeps can not
\* keep the CPU from its equals.
RoundRobin ==
    \A t \in Thread :
        state[t] = "READY" /\ TopPriority(t) ~> state[t] = "RUNNING" \/ ~TopPriority(t)

\* A sleeper with a timeout wakes up, posted or timed out.
TimeoutsFire ==
    \A t \in Thread : t \in ToSet(TimeoutHead) ~> t \notin ToSet(TimeoutHead)

-------------------------------------------------------------------------------
\* The counting semaphores this scheduler implements.
Abstract == INSTANCE CountingSemaphores WITH
    value <- [s \in Semaphore |-> IF count[s] > 0 THEN count[s] ELSE 0],
    waiting <- [s \in Semaphore |-> ToSet(threadHead[s])],
    result <- returnCode

\* Every kernel step is a step of the abstract semaphores: whatever list, order
\* and timeout bookkeeping does, a token is neither lost nor duplicated and a
\* sleeper is woken once, by a post or by its timeout.
ImplementsSemaphores == Abstract!Spec

=============================================================================
