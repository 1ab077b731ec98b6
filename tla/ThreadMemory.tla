----------------------------- MODULE ThreadMemory -----------------------------
(***************************************************************************)
(* The memory of threads in src/src/rtos.c: rtos__thread_create takes a    *)
(* block from the heap, OS_ThreadExit leaves its own block, on whose stack *)
(* it still runs, to the next thread that exits or is created.  Threads    *)
(* are interleaved at every point where the code can be interrupted.       *)
(***************************************************************************)
EXTENDS Heap

CONSTANTS
    Thread,
    FirstHeap,      \* HeapArray[0]
    Size            \* units of the control blocks and stacks, header included

ASSUME ThreadMemoryAssumption ==
    /\ None \notin Thread
    /\ FirstHeap \in HeapId
    /\ Size \subseteq Nat \ {0}

VARIABLES
    pc, then,       \* of each thread; then: what follows the release of a dead block
    want, heap,     \* of a creation: units, and the heap tried
    block,          \* of each thread, <<heap, address>>
    SemaphoreRelease,   \* the thread that holds it, or None
    NeedToFree

vars == <<node, available, count, pc, then, want, heap, block, SemaphoreRelease, NeedToFree>>

\* One thread, which never exits, runs on a block of its own.
Init ==
    /\ OS_HeapCreate
    /\ \E t \in Thread : pc = [u \in Thread |-> IF u = t THEN "live" ELSE "none"]
    /\ then = [t \in Thread |-> "exit"]
    /\ want = [t \in Thread |-> 0]
    /\ heap = [t \in Thread |-> FirstHeap]
    /\ block = [t \in Thread |-> None]
    /\ SemaphoreRelease = None
    /\ NeedToFree = None

Goto(t, p) == pc' = [pc EXCEPT ![t] = p]

Call(t, next) ==
    /\ pc[t] = "live"
    /\ Goto(t, "pend")
    /\ then' = [then EXCEPT ![t] = next]
    /\ UNCHANGED <<heapVars, block, SemaphoreRelease, NeedToFree>>

\* Bound: the thread names that are left.
Creating == {t \in Thread : pc[t] \notin {"none", "live", "dead"} /\ then[t] = "alloc"}

CallCreate(t) ==
    /\ Cardinality({u \in Thread : pc[u] = "none"}) > Cardinality(Creating)
    /\ Call(t, "alloc")
    /\ \E n \in Size : want' = [want EXCEPT ![t] = n]
    /\ heap' = [heap EXCEPT ![t] = FirstHeap]

CallExit(t) == block[t] # None /\ Call(t, "exit") /\ UNCHANGED <<want, heap>>

PendRelease(t) ==
    /\ pc[t] = "pend" /\ SemaphoreRelease = None
    /\ SemaphoreRelease' = t
    /\ Goto(t, "free")
    /\ UNCHANGED <<heapVars, then, want, heap, block, NeedToFree>>

\* The dead thread's name may be used for a new one.
FreeDead(t) ==
    /\ pc[t] = "free"
    /\ IF NeedToFree = None
       THEN UNCHANGED <<heapVars, block>> /\ Goto(t, "clear")
       ELSE LET dead == {u \in Thread : block[u] = NeedToFree}
            IN  /\ rtos__heap_free(NeedToFree)
                /\ pc' = [u \in Thread |-> IF u = t THEN "clear"
                                           ELSE IF u \in dead THEN "none" ELSE pc[u]]
                /\ block' = [u \in Thread |-> IF u \in dead THEN None ELSE block[u]]
    /\ UNCHANGED <<then, want, heap, SemaphoreRelease, NeedToFree>>

\* Mutant: the block is freed and stays the one to free.
ClearAndPost_Keep(t) ==
    /\ pc[t] = "clear"
    /\ SemaphoreRelease' = None
    /\ Goto(t, then[t])
    /\ UNCHANGED <<heapVars, then, want, heap, block, NeedToFree>>

ClearAndPost(t) ==
    /\ pc[t] = "clear"
    /\ NeedToFree' = None
    /\ SemaphoreRelease' = None
    /\ Goto(t, then[t])
    /\ UNCHANGED <<heapVars, then, want, heap, block>>

\* The arguments of a call that is over.
Returns(t) ==
    /\ want' = [want EXCEPT ![t] = 0]
    /\ then' = [then EXCEPT ![t] = "exit"]
    /\ UNCHANGED <<SemaphoreRelease, NeedToFree>>

\* The new thread is ready as soon as it is in its list.
Created(t, b) ==
    \E u \in Thread :
        /\ pc[u] = "none"
        /\ pc' = [pc EXCEPT ![t] = "live", ![u] = "live"]
        /\ block' = [block EXCEPT ![u] = b]
        /\ heap' = [heap EXCEPT ![t] = FirstHeap]
        /\ Returns(t)

\* No room: the next heap, or NULL.
NotCreated(t) ==
    LET next == Alternate[heap[t]]
    IN  /\ Goto(t, IF next = None THEN "live" ELSE "alloc")
        /\ heap' = [heap EXCEPT ![t] = IF next = None THEN FirstHeap ELSE next]
        /\ IF next = None THEN Returns(t)
           ELSE UNCHANGED <<then, want, SemaphoreRelease, NeedToFree>>
        /\ UNCHANGED <<heapVars, block>>

rtos__heap_alloc(t) ==
    LET h == heap[t]
        walk == Walk(h)
        i == FirstFit(h, walk, want[t])
    IN  /\ pc[t] = "alloc"
        /\ IF i = 0 THEN NotCreated(t)
           ELSE Take(h, walk, i, want[t]) /\ Created(t, <<h, Address(h, walk, i, want[t])>>)

\* In a critical section that ends with another thread running.
ExitCheck(t) ==
    /\ pc[t] = "exit"
    /\ IF NeedToFree # None
       THEN Goto(t, "pend") /\ UNCHANGED NeedToFree
       ELSE Goto(t, "dead") /\ NeedToFree' = block[t]
    /\ UNCHANGED <<heapVars, then, want, heap, block, SemaphoreRelease>>

Step(t) ==
    \/ PendRelease(t) \/ FreeDead(t) \/ ClearAndPost(t)
    \/ rtos__heap_alloc(t) \/ ExitCheck(t)

Next == \E t \in Thread : CallCreate(t) \/ CallExit(t) \/ Step(t)

Spec == Init /\ [][Next]_vars

-------------------------------------------------------------------------------
\* Every block that is out is the memory of one thread, alive or dead, and what
\* NeedToFree keeps, before it is freed, belonged to a thread that is dead: nothing is
\* freed under a thread that runs on it, and nothing twice.  Whether a dead thread's
\* block is ever freed is the question of DeadWaitToBeFreed.
BlocksOwned ==
    LET owners == {t \in Thread : block[t] # None}
        freed == \E t \in Thread : pc[t] = "clear"
    IN  /\ TakenBlocks = {block[t] : t \in owners}
        /\ \A t, u \in owners : t # u => block[t] # block[u]
        /\ NeedToFree # None /\ ~freed =>
              \E t \in owners : pc[t] = "dead" /\ block[t] = NeedToFree

\* "Free the memory for closed but not yet freed threads": the block of a dead thread
\* is the one that NeedToFree keeps for the next thread that exits or is created.
DeadWaitToBeFreed == \A t \in Thread : pc[t] = "dead" => NeedToFree = block[t]

\* A creation goes on to the next heap or fails only when the heap it has searched
\* has no room for its block, however its free units came together.
ServesWhatFits ==
    [][\A t \in Thread :
          /\ pc[t] = "alloc" /\ TakenBlocks' = TakenBlocks
          /\ pc'[t] # "alloc" \/ heap'[t] # heap[t]
          => ~HasRoom(heap[t], want[t])]_vars

=============================================================================
