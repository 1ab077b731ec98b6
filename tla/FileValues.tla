------------------------------ MODULE FileValues ------------------------------
(***************************************************************************)
(* What a user of the file calls sees: results, and the state of a file.   *)
(***************************************************************************)
EXTENDS Integers, Sequences

Done(n) == [ok |-> TRUE, count |-> n, bytes |-> <<>>]
Failed == [ok |-> FALSE, count |-> 0, bytes |-> <<>>]
Got(bytes) == [ok |-> TRUE, count |-> Len(bytes), bytes |-> bytes]

Present(bytes) == [is |-> "present", bytes |-> bytes]
Absent == [is |-> "absent", bytes |-> <<>>]
Lost == [is |-> "lost", bytes |-> <<>>]

=============================================================================
