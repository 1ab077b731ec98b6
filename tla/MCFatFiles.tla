------------------------------ MODULE MCFatFiles ------------------------------
(***************************************************************************)
(* Small volumes for FatFiles: three clusters of two sectors of two bytes; *)
(* with eight nibbles in a sector of the table an entry of 12 bits lies    *)
(* across two sectors.                                                     *)
(***************************************************************************)
EXTENDS FatFiles, TLC

CONSTANTS f1, f2

\* f1 is written and sought in every way, f2 grows next to it.
MCData == (f1 :> {[i \in 1 .. n |-> 1 + (i % 3)] : n \in {1, 4}}) @@ (f2 :> {<<4, 5, 6, 4, 5>>})
MCAmount == (f1 :> {0, 5}) @@ (f2 :> {})

=============================================================================
