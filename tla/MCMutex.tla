------------------------------- MODULE MCMutex -------------------------------
(***************************************************************************)
(* Instances of Mutex for TLC: three threads of three priorities, one or   *)
(* two mutexes.                                                            *)
(***************************************************************************)
EXTENDS Mutex

CONSTANTS idle, low, mid, high, sleep, m1, m2

MCPriority == [t \in Thread |->
    CASE t = idle -> 0 [] t = low -> 1 [] t = mid -> 2 [] t = high -> 3]
MCInitialCount == [s \in Semaphore |-> IF s = sleep THEN 0 ELSE 1]
MCTicks == {1}
MCInside == {<<m1, m2>>}

=============================================================================
