---------------------------- MODULE MCFatDirectory ----------------------------
(***************************************************************************)
(* Names for FatDirectory, which holds three characters in front of the    *)
(* dot, one behind it, four in a piece of a long name and tails in the     *)
(* digits 0 and 1.  The two long names have the same alias, A~1, which is  *)
(* also an 8.3 name, in capitals and in small letters; one of them begins  *)
(* with a space and needs two pieces.  ~10 is the tail after A~1, and when *)
(* ~11 is taken too there is no other.                                     *)
(***************************************************************************)
EXTENDS FatDirectory, TLC

CONSTANTS f1, f2, f3

a == 97
A == 65
one == Zero + 1

MCWord == {<<a, a, a, a>>, <<Space, A, A, A, A>>,
           <<A, Tilde, one>>, <<a, Tilde, one>>, <<Tilde, one, Zero>>}

\* A long name whose alias has the checksum of an 8.3 name.
MCColliding == {<<a, a, a, a>>, <<A, A + 5, A + 25, Dot, A + 25>>}

Symmetry == Permutations(Id)

===============================================================================
