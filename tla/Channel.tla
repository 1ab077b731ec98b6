------------------------------- MODULE Channel -------------------------------
(***************************************************************************)
(* What a message queue of rtos.c promises: a bounded first-in first-out   *)
(* channel, each receiver of which is handed the oldest message.  Who      *)
(* sends is left open.                                                     *)
(***************************************************************************)
EXTENDS Naturals, Sequences

CONSTANTS Thread, Message, Empty, Capacity

VARIABLES
    queue,
    message     \* the message each thread received last

vars == <<queue, message>>

Init ==
    /\ queue = <<>>
    /\ message = [t \in Thread |-> Empty]

Send(m) ==
    /\ Len(queue) < Capacity
    /\ queue' = Append(queue, m)
    /\ UNCHANGED message

Receive(t) ==
    /\ queue # <<>>
    /\ queue' = Tail(queue)
    /\ message' = [message EXCEPT ![t] = Head(queue)]

Next == (\E m \in Message : Send(m)) \/ (\E t \in Thread : Receive(t))

Spec == Init /\ [][Next]_vars

=============================================================================
