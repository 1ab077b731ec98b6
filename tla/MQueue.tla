------------------------------- MODULE MQueue -------------------------------
(***************************************************************************)
(* A message queue of src/src/rtos.c: a ring of message slots guarded by   *)
(* critical sections, and a semaphore that counts messages.  The two are   *)
(* not updated together: a sender fills its slot, leaves the critical      *)
(* section and then posts; a receiver gets the token and then enters the   *)
(* critical section to empty a slot.  Any thread may run in between.       *)
(*                                                                         *)
(* The semaphore is the abstract one (module CountingSemaphores), which    *)
(* the scheduler implements; threads are free to run at any time, which    *)
(* covers every order the scheduler can choose.                            *)
(***************************************************************************)
EXTENDS Integers, Sequences, FiniteSets

CONSTANTS
    Thread,         \* callers of OS_MQueueSend and OS_MQueueGet
    Message,
    Empty,          \* the content of a slot that was never written
    Capacity        \* messageCount argument of OS_MQueueCreate

ASSUME MQueueAssumption ==
    /\ IsFiniteSet(Thread)     \* each has a control block
    /\ Empty \notin Message
    /\ Capacity \in Nat \ {0}

Slot == 0 .. Capacity - 1

VARIABLES
    buffer, used, read, write,  \* the ring
    value, waiting, result,     \* the semaphore
    pc,                         \* where each thread is in its call
    message                     \* the message each thread received last

ringVars == <<buffer, used, read, write>>
semVars == <<value, waiting, result>>
vars == <<ringVars, semVars, pc, message>>

\* The queue has one semaphore, called 0 here.
S == INSTANCE CountingSemaphores WITH Semaphore <- {0}, InitialCount <- [s \in {0} |-> 0]

\* OS_MQueueCreate.
Init ==
    /\ buffer = [i \in Slot |-> Empty]
    /\ used = 0
    /\ read = 0
    /\ write = 0
    /\ S!Init
    /\ pc = [t \in Thread |-> "run"]
    /\ message = [t \in Thread |-> Empty]

-------------------------------------------------------------------------------
Step(t, from, to) == pc[t] = from /\ pc' = [pc EXCEPT ![t] = to]

\* "if (++index >= count) index = 0"
Advance(index) == IF index + 1 >= Capacity THEN 0 ELSE index + 1

\* The critical section of OS_MQueueSend.  A full queue is left as it was and
\* the call returns -1: no step.
SendCopy(t, m) ==
    /\ Step(t, "run", "post")
    /\ used + 1 <= Capacity
    /\ used' = used + 1
    /\ buffer' = [buffer EXCEPT ![write] = m]
    /\ write' = Advance(write)
    /\ UNCHANGED <<semVars, read, message>>

\* Mutant: the message is queued and nobody is told.
SendPost_Forgotten(t) ==
    /\ Step(t, "post", "run")
    /\ UNCHANGED <<ringVars, semVars, message>>

\* Wake up a receiving thread, or leave a token for the next one.
SendPost(t) ==
    /\ Step(t, "post", "run")
    /\ S!Put(0) \/ \E u \in Thread : S!Wake(u, 0, 0)
    /\ UNCHANGED <<ringVars, message>>

OS_MQueueSend(t) == (\E m \in Message : SendCopy(t, m)) \/ SendPost(t)

\* OS_SemaphorePend in OS_MQueueGet: take the token, or sleep.  A call that does
\* not wait changes nothing when there is no token.
GetPend(t) ==
    /\ \/ Step(t, "run", "copy") /\ S!Take(0)
       \/ Step(t, "run", "forever") /\ S!Sleep(t, 0)
       \/ Step(t, "run", "timed") /\ S!Sleep(t, 0)
    /\ UNCHANGED <<ringVars, message>>

\* The tick ends a sleep that has a timeout.
TimeOut(t) ==
    /\ pc[t] = "timed"
    /\ S!Wake(t, 0, -1)
    /\ UNCHANGED <<ringVars, pc, message>>

Awake(t) == t \notin waiting[0]

\* OS_SemaphorePend returns -1: so does OS_MQueueGet.
GetFails(t) ==
    /\ Awake(t) /\ result[t] = -1
    /\ Step(t, "timed", "run")
    /\ UNCHANGED <<ringVars, semVars, message>>

\* t is in OS_MQueueGet with a token, from a sleep or without one.
HasToken(t) ==
    \/ Step(t, "copy", "run")
    \/ Awake(t) /\ result[t] = 0 /\ (Step(t, "timed", "run") \/ Step(t, "forever", "run"))

\* Mutant: the slot is not given back.
GetCopy_KeepUsed(t) ==
    /\ HasToken(t)
    /\ message' = [message EXCEPT ![t] = buffer[read]]
    /\ read' = Advance(read)
    /\ UNCHANGED <<semVars, buffer, write, used>>

\* Mutant: the read index stays.
GetCopy_KeepRead(t) ==
    /\ HasToken(t)
    /\ used' = used - 1
    /\ message' = [message EXCEPT ![t] = buffer[read]]
    /\ UNCHANGED <<semVars, buffer, write, read>>

\* The critical section of OS_MQueueGet, entered with a token.
GetCopy(t) ==
    /\ HasToken(t)
    /\ used' = used - 1
    /\ message' = [message EXCEPT ![t] = buffer[read]]
    /\ read' = Advance(read)
    /\ UNCHANGED <<semVars, buffer, write>>

OS_MQueueGet(t) == GetPend(t) \/ GetFails(t) \/ GetCopy(t)

Next == \E t \in Thread : OS_MQueueSend(t) \/ OS_MQueueGet(t) \/ TimeOut(t)

Spec == Init /\ [][Next]_vars

\* A thread that is inside a call and awake gets to run and finishes the call.
Fairness == \A t \in Thread : WF_vars(SendPost(t)) /\ WF_vars(GetCopy(t) \/ GetFails(t))

LiveSpec == Spec /\ Fairness

-------------------------------------------------------------------------------
\* The type invariant of the ring, the semaphore and the calls.
TypeOK ==
    /\ buffer \in [Slot -> Message \cup {Empty}]
    /\ used \in 0 .. Capacity
    /\ read \in Slot
    /\ write \in Slot
    /\ value \in [{0} -> Nat]
    /\ waiting \in [{0} -> SUBSET Thread]
    /\ result \in [Thread -> {0, -1}]
    /\ pc \in [Thread -> {"run", "post", "copy", "timed", "forever"}]
    /\ message \in [Thread -> Message \cup {Empty}]

\* Receivers that have a token and have yet to empty a slot.
Receiving ==
    {t \in Thread : \/ pc[t] = "copy"
                    \/ pc[t] \in {"timed", "forever"} /\ Awake(t) /\ result[t] = 0}

Posting == {t \in Thread : pc[t] = "post"}

\* Messages and tokens agree up to the calls in progress, so a receiver that got
\* a token always finds a message.
TokensMatchMessages ==
    /\ TypeOK
    /\ used = value[0] + Cardinality(Receiving) + Cardinality(Posting)

\* The messages in the ring, oldest first.
Queued == [i \in 1 .. used |-> buffer[(read + i - 1) % Capacity]]

\* The ring is a bounded first-in first-out channel: every message that was
\* accepted is received once, in order, and a receiver is handed the oldest, whatever
\* calls overlap.
Ch == INSTANCE Channel WITH queue <- Queued
ImplementsChannel == Ch!Spec

\* A message does not sit in the ring beside sleeping receivers: somebody takes
\* the oldest message, or everybody has stopped waiting.
MessageReachesReceiver ==
    \A i \in Slot :
        read = i /\ used > 0 /\ waiting[0] # {} ~> read # i \/ waiting[0] = {}

=============================================================================
