---------------------------- MODULE MCThreadMemory ----------------------------
(***************************************************************************)
(* Instance of ThreadMemory for TLC: up to four threads of two sizes on a  *)
(* heap of eight units and an alternate one of three.                      *)
(***************************************************************************)
EXTENDS ThreadMemory, TLC

CONSTANTS t1, t2, t3, t4

MCUnits == [h \in HeapId |-> IF h = "Heap" THEN 8 ELSE 3]
MCAlternate == [h \in HeapId |-> IF h = "Heap" THEN "Alt" ELSE None]
MCSymmetry == Permutations(Thread)

=============================================================================
