---------------------------- MODULE MCKernelClock ----------------------------
(***************************************************************************)
(* Instance of KernelClock for TLC: sleeps of one and two ticks, and one   *)
(* that is already over when it starts, on a counter that wraps at ten.    *)
(***************************************************************************)
EXTENDS KernelClock

CONSTANTS idle, b, c, sleep, sem

MCPriority == [t \in Thread |-> IF t = idle THEN 0 ELSE 1]
MCInitialCount == (sleep :> 0) @@ (sem :> 0)
MCTicks == {-2, 1, 2}

=============================================================================
