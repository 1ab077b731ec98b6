----------------------------- MODULE KernelClock -----------------------------
(***************************************************************************)
(* The scheduler with a stopwatch beside it: for every sleeper, the ticks  *)
(* it still has to sleep, counted down to zero without wrapping.  The      *)
(* stopwatch only observes; it says when a sleep should end, whatever the  *)
(* wrapping arithmetic of ThreadTime makes of it.                          *)
(***************************************************************************)
EXTENDS Kernel

VARIABLE remaining      \* ticks left to sleep; meaningful for threads in TimeoutHead

clockVars == <<vars, remaining>>

ClockInit == Init /\ remaining = [t \in Thread |-> 0]

\* A call that puts t to sleep starts its stopwatch.
ClockPend(t) ==
    /\ Running(t)
    /\ t # Idle
    /\ \E s \in UserSemaphore \cup {SemaphoreSleep}, ticks \in Ticks :
          /\ OS_SemaphorePend(t, s, ticks)
          /\ remaining' = IF t \in ToSet(TimeoutHead')
                          THEN [remaining EXCEPT ![t] = ticks]
                          ELSE remaining

\* A tick runs the stopwatch of every sleeper; every other step leaves them.
ClockTick ==
    /\ OS_ThreadTick
    /\ remaining' = [t \in Thread |->
           IF t \in ToSet(TimeoutHead) /\ remaining[t] > 0
           THEN remaining[t] - 1
           ELSE remaining[t]]

ClockOther ==
    /\ \/ \E t \in Thread : rtos__thread_create(t)
       \/ rtos__start
       \/ \E t \in Thread \ {Idle}, s \in UserSemaphore :
             /\ Running(t)
             /\ count[s] < MaxCount
             /\ OS_SemaphorePost(s)
       \/ \E lines \in {{"tick"}, {"device"}, {"tick", "device"}} : InterruptEnter(lines)
       \/ DeviceHandler
       \/ TickWake
       \/ TickDone
       \/ InterruptExit
    /\ remaining' = [t \in Thread |->
           IF t \in ToSet(TimeoutHead') THEN remaining[t] ELSE 0]

ClockNext == (\E t \in Thread : ClockPend(t)) \/ ClockTick \/ ClockOther

ClockSpec == ClockInit /\ [][ClockNext]_clockVars

\* The stopwatch is in nobody's way, so the scheduler's fairness is enough.
ClockLiveSpec == ClockSpec /\ Fairness

\* A sleep of n ticks ends with its n-th tick: none that the tick ends has ticks
\* left, and none that is due is left when the tick handler is done.  A wait
\* whose ticks are already negative ends with the next tick.
SleepsExactly ==
    [][ /\ TickWake => remaining[Head(TimeoutHead)] <= 0
        /\ TickDone => \A t \in ToSet(TimeoutHead) : remaining[t] > 0 ]_clockVars

=============================================================================
