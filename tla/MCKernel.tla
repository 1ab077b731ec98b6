------------------------------ MODULE MCKernel ------------------------------
(***************************************************************************)
(* Instances of Kernel for TLC.                                            *)
(***************************************************************************)
EXTENDS Kernel, TLC

CONSTANTS idle, a, b, c, sleep, sem

\* With fixed priorities a is more urgent than the other threads, which are equals.
MCFixed == [t \in Thread |-> IF t = idle THEN 0 ELSE IF t = a THEN 2 ELSE 1]
MCEqual == [t \in Thread |-> IF t = idle THEN 0 ELSE 1]
MCInitialCount == (sleep :> 0) @@ (sem :> 1)
MCTicks == {-1, 0, 1}

SymmetryFixed == Permutations({b, c})
SymmetryEqual == Permutations({a, b, c})

=============================================================================
