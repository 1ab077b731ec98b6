-------------------------------- MODULE Timers --------------------------------
(***************************************************************************)
(* The software timers of src/src/rtos.c: the list TimerHead in order of   *)
(* due time, the timer thread that sleeps until the first one is due, and  *)
(* callers that start and stop timers around it.                           *)
(*                                                                         *)
(* SemaphoreLock is held from its pend to its post and nothing in between  *)
(* waits, so a region it guards is one action.  What the code reads        *)
(* outside the lock (ThreadTime, active, ticksRestart) is a step of its    *)
(* own, and any thread may run between two steps.  The callback or message *)
(* of a timer that is due changes nothing here and is no step.             *)
(***************************************************************************)
EXTENDS ThreadLists

CONSTANTS
    Caller,         \* threads that call OS_TimerStart and OS_TimerStop
    TimerThread,    \* the thread that runs OS_TimerThread
    Timer,          \* the timers OS_TimerCreate has made
    NoTimer,        \* the NULL pointer
    Ticks,          \* ticks arguments of OS_TimerStart
    Restart,        \* ticksRestart arguments of OS_TimerStart; 0: only once
    MaxStall,       \* bound: ticks that pass between a call's start and its end
    MaxTokens       \* bound: posts of SemaphoreTimer nobody has taken

WAIT_FOREVER == -1

Thread == Caller \cup {TimerThread}

ASSUME TimersAssumption ==
    /\ TimerThread \notin Caller
    /\ NoTimer \notin Timer
    /\ Ticks \subseteq Nat
    /\ Restart \subseteq Nat
    /\ MaxStall \in Nat
    /\ MaxTokens \in Nat

VARIABLES
    ThreadTime,     \* ticks since reboot, modulo TickModulus
    TimerHead,      \* the running timers, the first one due first
    active, ticksRestart,   \* of each timer
    ticksTimeout,   \* of each timer; the code reads it only while the timer is
                    \* listed, so it is 0 here otherwise
    tokens,         \* count of SemaphoreTimer while the timer thread is awake
    wakeAt,         \* when the sleeping timer thread times out, or WAIT_FOREVER
    timeNow, ticksToSleep, expired, \* locals of OS_TimerThread; reset when they are dead
    pc,             \* where each thread is
    call,           \* arguments and locals of each thread's call: a timer, the
                    \* ticks (the due time once it is computed) and the restart
    stall           \* ticks since each thread's call began; only the bound reads it

timerVars == <<TimerHead, active, ticksTimeout, ticksRestart>>
loopVars == <<wakeAt, timeNow, ticksToSleep, expired>>
vars == <<ThreadTime, timerVars, tokens, loopVars, pc, call, stall>>

NoCall == [timer |-> NoTimer, ticks |-> 0, restart |-> 0]

\* The timers are made, the timer thread has started and read the time.
Init ==
    /\ ThreadTime = 0
    /\ TimerHead = <<>>
    /\ active = [t \in Timer |-> FALSE]
    /\ ticksTimeout = [t \in Timer |-> 0]
    /\ ticksRestart = [t \in Timer |-> 0]
    /\ tokens = 0
    /\ wakeAt = WAIT_FOREVER
    /\ timeNow = 0
    /\ ticksToSleep = 0
    /\ expired = NoTimer
    /\ pc = [w \in Thread |-> IF w = TimerThread THEN "howlong" ELSE "run"]
    /\ call = [w \in Thread |-> NoCall]
    /\ stall = [w \in Thread |-> 0]

-------------------------------------------------------------------------------
Step(w, from, to) == pc[w] = from /\ pc' = [pc EXCEPT ![w] = to]

\* A step that sets the arguments of a call of OS_TimerStart or OS_TimerStop, and
\* one that returns from it.
Arguments(w, from, to, t, n, r) ==
    /\ Step(w, from, to)
    /\ call' = [call EXCEPT ![w] = [timer |-> t, ticks |-> n, restart |-> r]]

Back(w) == IF w = TimerThread THEN "pick" ELSE "run"

Return(w, from) ==
    /\ Step(w, from, Back(w))
    /\ call' = [call EXCEPT ![w] = NoCall]
    /\ stall' = IF w = TimerThread THEN stall ELSE [stall EXCEPT ![w] = 0]

\* "ticks += OS_ThreadTime()" on unsigned words.
Due(n) == (n + ThreadTime) % TickModulus

ReadTime(w) ==
    /\ Arguments(w, "start", "check", call[w].timer, Due(call[w].ticks), call[w].restart)
    /\ UNCHANGED <<ThreadTime, timerVars, tokens, loopVars, stall>>

\* OS_TimerStart looks at active before it takes the lock.
CheckActive(w) ==
    /\ Step(w, "check", IF active[call[w].timer] THEN "stopfirst" ELSE "insert")
    /\ UNCHANGED <<ThreadTime, timerVars, tokens, loopVars, call, stall>>

\* The region of OS_TimerStop: unlink the timer if it runs.
StopRegion(t) ==
    /\ active' = [active EXCEPT ![t] = FALSE]
    /\ TimerHead' = IF active[t] THEN TimeoutRemove(TimerHead, t) ELSE TimerHead
    /\ ticksTimeout' = [ticksTimeout EXCEPT ![t] = 0]
    /\ UNCHANGED ticksRestart

OS_TimerStop(w) ==
    /\ \/ Return(w, "stop")
       \/ Step(w, "stopfirst", "insert") /\ UNCHANGED <<call, stall>>
    /\ StopRegion(call[w].timer)
    /\ UNCHANGED <<ThreadTime, tokens, loopVars>>

\* Link a timer that is not running in order of due time.
InsertRegion(t, due, r) ==
    /\ active' = [active EXCEPT ![t] = TRUE]
    /\ ticksTimeout' = [ticksTimeout EXCEPT ![t] = due]
    /\ ticksRestart' = [ticksRestart EXCEPT ![t] = r]
    /\ TimerHead' = TimeoutInsert(TimerHead, t, ticksTimeout')

\* Mutant: the call does not wake the timer thread.
StartInactive_NoWake(w) ==
    /\ pc[w] = "insert"
    /\ InsertRegion(call[w].timer, call[w].ticks, call[w].restart)
    /\ Return(w, "insert")

\* The rest of OS_TimerStart if the timer is not running: a new first timer makes
\* the call wake the timer thread.
StartInactive(w) ==
    /\ pc[w] = "insert"
    /\ InsertRegion(call[w].timer, call[w].ticks, call[w].restart)
    /\ IF Head(TimerHead') = call[w].timer
       THEN Step(w, "insert", "post") /\ UNCHANGED <<call, stall>>
       ELSE Return(w, "insert")

\* Mutant: the timer is linked without a second look at active.
StartRegion_NoRecheck(w) ==
    /\ StartInactive(w)
    /\ UNCHANGED <<ThreadTime, tokens, loopVars>>

\* The region of OS_TimerStart.  If somebody has started the timer meanwhile, the
\* call returns.
StartRegion(w) ==
    /\ pc[w] = "insert"
    /\ \/ active[call[w].timer] /\ Return(w, "insert") /\ UNCHANGED timerVars
       \/ ~active[call[w].timer] /\ StartInactive(w)
    /\ UNCHANGED <<ThreadTime, tokens, loopVars>>

WakeTimerThread(w) ==
    /\ w # TimerThread
    /\ pc[TimerThread] = "asleep"
    /\ pc[w] = "post"
    /\ pc' = [pc EXCEPT ![w] = "run", ![TimerThread] = "now"]
    /\ call' = [call EXCEPT ![w] = NoCall]
    /\ stall' = [stall EXCEPT ![w] = 0]
    /\ wakeAt' = WAIT_FOREVER
    /\ UNCHANGED tokens

\* Mutant: a timer thread that is awake is not told.
PostTimer_OnlyAsleep(w) ==
    /\ \/ WakeTimerThread(w)
       \/ /\ pc[TimerThread] # "asleep"
          /\ Return(w, "post")
          /\ UNCHANGED <<tokens, wakeAt>>
    /\ UNCHANGED <<ThreadTime, timerVars, timeNow, ticksToSleep, expired>>

\* OS_SemaphorePost(SemaphoreTimer): wake the timer thread, or leave a token.
PostTimer(w) ==
    /\ \/ WakeTimerThread(w)
       \/ /\ pc[TimerThread] # "asleep"
          /\ Return(w, "post")
          /\ tokens' = tokens + 1
          /\ UNCHANGED wakeAt
    /\ UNCHANGED <<ThreadTime, timerVars, timeNow, ticksToSleep, expired>>

OS_TimerStart(w) == ReadTime(w) \/ CheckActive(w) \/ StartRegion(w) \/ PostTimer(w)

Call(w) == OS_TimerStart(w) \/ OS_TimerStop(w)

\* A caller starts or stops a timer.  MaxTokens bounds the posts in flight.
CallTimer(c) ==
    /\ \E t \in Timer :
          \/ \E n \in Ticks, r \in Restart :
                tokens < MaxTokens /\ Arguments(c, "run", "start", t, n, r)
          \/ Arguments(c, "run", "stop", t, 0, 0)
    /\ UNCHANGED <<ThreadTime, timerVars, tokens, loopVars, stall>>

-------------------------------------------------------------------------------
\* OS_TimerThread.  How long to sleep: until the first timer is due, counted from
\* the time this thread has read last.
HowLong ==
    /\ Step(TimerThread, "howlong", "pend")
    /\ ticksToSleep' = IF TimerHead = <<>>
                       THEN WAIT_FOREVER
                       ELSE SignedDiff(ticksTimeout[Head(TimerHead)], timeNow)
    /\ timeNow' = 0
    /\ UNCHANGED <<ThreadTime, timerVars, tokens, wakeAt, expired, call, stall>>

\* OS_SemaphorePend(SemaphoreTimer, ticks): a token, or no ticks to wait, or sleep.
PendTimer ==
    /\ \/ /\ tokens > 0 \/ ticksToSleep = 0
          /\ Step(TimerThread, "pend", "now")
          /\ tokens' = IF tokens > 0 THEN tokens - 1 ELSE tokens
          /\ UNCHANGED wakeAt
       \/ /\ tokens = 0 /\ ticksToSleep # 0
          /\ Step(TimerThread, "pend", "asleep")
          /\ wakeAt' = IF ticksToSleep = WAIT_FOREVER THEN WAIT_FOREVER ELSE Due(ticksToSleep)
          /\ UNCHANGED tokens
    /\ ticksToSleep' = 0
    /\ stall' = [stall EXCEPT ![TimerThread] = 0]
    /\ UNCHANGED <<ThreadTime, timerVars, timeNow, expired, call>>

ReadNow ==
    /\ Step(TimerThread, "now", "pick")
    /\ timeNow' = ThreadTime
    /\ UNCHANGED <<ThreadTime, timerVars, tokens, wakeAt, ticksToSleep, expired, call, stall>>

IsExpired == TimerHead # <<>> /\ SignedDiff(timeNow, ticksTimeout[Head(TimerHead)]) >= 0

\* The first timer if it is due; else the loop is over.
PickExpired ==
    /\ \/ /\ IsExpired
          /\ expired' = Head(TimerHead)
          /\ Step(TimerThread, "pick", "handle")
       \/ /\ ~IsExpired
          /\ expired' = NoTimer
          /\ Step(TimerThread, "pick", "howlong")
    /\ UNCHANGED <<ThreadTime, timerVars, tokens, wakeAt, timeNow, ticksToSleep, call, stall>>

\* The lock is free again: ticksRestart is read and the timer started or stopped
\* as any caller would.
RestartOrStop ==
    /\ pc[TimerThread] = "handle"
    /\ LET r == ticksRestart[expired]
       IN  IF r # 0
           THEN Arguments(TimerThread, "handle", "start", expired, r, r)
           ELSE Arguments(TimerThread, "handle", "stop", expired, 0, 0)
    /\ expired' = NoTimer
    /\ UNCHANGED <<ThreadTime, timerVars, tokens, wakeAt, timeNow, ticksToSleep, stall>>

OS_TimerThread == HowLong \/ PendTimer \/ ReadNow \/ PickExpired \/ RestartOrStop

-------------------------------------------------------------------------------
InCall(w) == pc[w] \notin {"run", "asleep"}

\* Bound: a call, and a turn of the timer thread, takes at most MaxStall ticks,
\* and the timer thread keeps up with the posts.
InTime ==
    /\ \A w \in Thread : InCall(w) => stall[w] < MaxStall
    /\ tokens <= MaxTokens

\* The timer thread's sleep is over at this time.
SleepOver(time) ==
    /\ pc[TimerThread] = "asleep"
    /\ wakeAt # WAIT_FOREVER
    /\ SignedDiff(time, wakeAt) >= 0

\* The tick interrupt: time goes on, and the timer thread's sleep may be over.
OS_ThreadTick ==
    /\ InTime
    /\ ThreadTime' = (ThreadTime + 1) % TickModulus
    /\ stall' = [w \in Thread |-> IF InCall(w) THEN stall[w] + 1 ELSE 0]
    /\ \/ /\ SleepOver(ThreadTime')
          /\ Step(TimerThread, "asleep", "now")
          /\ wakeAt' = WAIT_FOREVER
       \/ ~SleepOver(ThreadTime') /\ UNCHANGED <<pc, wakeAt>>
    /\ UNCHANGED <<timerVars, tokens, timeNow, ticksToSleep, expired, call>>

Next ==
    \/ \E c \in Caller : CallTimer(c)
    \/ \E w \in Thread : Call(w)
    \/ OS_TimerThread
    \/ OS_ThreadTick

Spec == Init /\ [][Next]_vars

\* Ticks come, and a thread inside a call, the timer thread with its high priority
\* above all, gets to run.
Fairness ==
    /\ WF_vars(OS_ThreadTick)
    /\ WF_vars(OS_TimerThread)
    /\ \A w \in Thread : WF_vars(Call(w))

LiveSpec == Spec /\ Fairness

-------------------------------------------------------------------------------
\* The type invariant of the timers, the timer thread and the calls.
TypeOK ==
    /\ ThreadTime \in Tick
    /\ TimerHead \in Seq(Timer)
    /\ active \in [Timer -> BOOLEAN]
    /\ ticksTimeout \in [Timer -> Tick]
    /\ ticksRestart \in [Timer -> Nat]
    /\ tokens \in Nat
    /\ wakeAt \in Tick \cup {WAIT_FOREVER}
    /\ timeNow \in Tick
    /\ ticksToSleep \in Int
    /\ expired \in Timer \cup {NoTimer}
    /\ pc \in [Thread -> {"run", "start", "check", "stopfirst", "insert", "post", "stop",
                          "howlong", "pend", "asleep", "now", "pick", "handle"}]
    /\ call \in [Thread -> [timer : Timer \cup {NoTimer}, ticks : Nat, restart : Nat]]
    /\ stall \in [Thread -> 0 .. MaxStall]

\* The list holds every running timer once and no other, although starts and
\* stops of the same timer overlap: the second look at active in OS_TimerStart.
RunningListed ==
    /\ IsInjective(TimerHead)
    /\ ToSet(TimerHead) = {t \in Timer : active[t]}

\* Due times are in order along the list, in wrapping time and although callers
\* read the time long before they insert: looking at the first timer is enough.
DueInOrder ==
    \A i, j \in DOMAIN TimerHead : i < j =>
        SignedDiff(ticksTimeout[TimerHead[i]], ticksTimeout[TimerHead[j]]) <= 0

\* While the timer thread sleeps, either somebody is about to wake it or it wakes
\* for the first timer, late by no more than its own stall between reading the
\* time and going to sleep.
NotOverslept ==
    pc[TimerThread] = "asleep" /\ TimerHead # <<>> =>
        \/ \E w \in Thread : pc[w] = "post"
        \/ /\ wakeAt # WAIT_FOREVER
           /\ SignedDiff(wakeAt, ticksTimeout[Head(TimerHead)]) <= MaxStall

\* While timers run, the timer thread looks at the list again and again.
TimerThreadLooks == TimerHead # <<>> ~> TimerHead = <<>> \/ pc[TimerThread] = "pick"

\* The comment above OS_TimerStart: "In ~10 msec ticks send a message".  The timer
\* thread takes no timer out of the list before the ticks it was started with.
RunsItsTicks ==
    [][\A t \in Timer :
          pc[TimerThread] = "stop" /\ pc'[TimerThread] = "pick" /\ active[t] /\ ~active'[t]
          => SignedDiff(ThreadTime, ticksTimeout[t]) >= 0]_vars

=============================================================================
