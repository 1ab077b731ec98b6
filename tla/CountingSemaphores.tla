------------------------- MODULE CountingSemaphores -------------------------
(***************************************************************************)
(* What rtos.c promises of its semaphores, without the scheduler: a value  *)
(* that is never negative, a set of sleepers, and a result for every       *)
(* sleeper.  Which sleeper a post wakes is left open.                      *)
(***************************************************************************)
EXTENDS Integers

CONSTANTS Thread, Semaphore, InitialCount

VARIABLES
    value,      \* tokens of each semaphore
    waiting,    \* threads asleep on each semaphore
    result      \* 0 if a thread's last sleep ended with a token, -1 if it timed out

vars == <<value, waiting, result>>

Init ==
    /\ value = InitialCount
    /\ waiting = [s \in Semaphore |-> {}]
    /\ result = [t \in Thread |-> 0]

Take(s) ==
    /\ value[s] > 0
    /\ value' = [value EXCEPT ![s] = @ - 1]
    /\ UNCHANGED <<waiting, result>>

Sleep(t, s) ==
    /\ value[s] = 0
    /\ \A r \in Semaphore : t \notin waiting[r]
    /\ waiting' = [waiting EXCEPT ![s] = @ \cup {t}]
    /\ UNCHANGED <<value, result>>

Put(s) ==
    /\ waiting[s] = {}
    /\ value' = [value EXCEPT ![s] = @ + 1]
    /\ UNCHANGED <<waiting, result>>

Wake(t, s, rc) ==
    /\ t \in waiting[s]
    /\ waiting' = [waiting EXCEPT ![s] = @ \ {t}]
    /\ result' = [result EXCEPT ![t] = rc]
    /\ UNCHANGED value

Next ==
    \E s \in Semaphore :
        \/ Take(s)
        \/ Put(s)
        \/ \E t \in Thread : Sleep(t, s) \/ Wake(t, s, 0) \/ Wake(t, s, -1)

Spec == Init /\ [][Next]_vars

=============================================================================
