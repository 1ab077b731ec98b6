----------------------------- MODULE ThreadLists -----------------------------
(***************************************************************************)
(* The two kinds of intrusive lists rtos.c threads its control blocks      *)
(* through: lists by priority (the ready list ThreadHead and the waiting   *)
(* list of every semaphore) and the list by timeout (TimeoutHead).  A list *)
(* is a sequence of threads, the head first; next/prev pointers are its    *)
(* order.                                                                  *)
(***************************************************************************)
EXTENDS Integers, SequencesExt

CONSTANT TickModulus        \* 2^32 in the code: os_uint32 ThreadTime wraps

\* A tick counter has a sign bit, so half the modulus is a whole number.
ASSUME TickModulusAssumption ==
    /\ TickModulus \in Nat
    /\ TickModulus >= 2
    /\ TickModulus % 2 = 0

Tick == 0 .. TickModulus - 1

\* "int diff = a - b" on two unsigned counters: the difference modulo 2^32,
\* read as a signed number.
SignedDiff(a, b) ==
    LET d == (a - b) % TickModulus
    IN  IF 2 * d < TickModulus THEN d ELSE d - TickModulus

\* Link a new node in front of position i of a list, at its end if i is 0: what
\* both insertion loops do where they stop.
LinkBefore(list, i, thread) ==
    IF i = 0 THEN Append(list, thread) ELSE InsertAt(list, i, thread)

\* Mutant: the list is not sorted, first come first served.
PriorityInsert_Append(list, thread, priority) == Append(list, thread)

\* OS_ThreadPriorityInsert: behind every node of the same or a higher priority.
PriorityInsert(list, thread, priority) ==
    LinkBefore(list,
               SelectInSeq(list, LAMBDA node : priority[node] < priority[thread]),
               thread)

\* Mutant: due times are compared without regard to the wrap of the counter.
TimeoutInsert_Unsigned(list, thread, ticksTimeout) ==
    LinkBefore(list,
               SelectInSeq(list, LAMBDA node : ticksTimeout[thread] <= ticksTimeout[node]),
               thread)

\* OS_ThreadTimeoutInsert: in front of the first node due at the same tick or
\* later, in wrapping time.
TimeoutInsert(list, thread, ticksTimeout) ==
    LinkBefore(list,
               SelectInSeq(list, LAMBDA node :
                   SignedDiff(ticksTimeout[thread], ticksTimeout[node]) <= 0),
               thread)

\* OS_ThreadPriorityRemove: unlink a node.  Only called on a member of the list.
PriorityRemove(list, thread) == RemoveFirst(list, thread)

\* OS_ThreadTimeoutRemove: unlink a node, or return at once if the thread is "not
\* in list".
TimeoutRemove(list, thread) == RemoveFirst(list, thread)

=============================================================================
