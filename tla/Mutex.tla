-------------------------------- MODULE Mutex --------------------------------
(***************************************************************************)
(* The mutexes of src/src/rtos.c on top of the scheduler: recursive, with  *)
(* priority inheritance.  A mutex is the semaphore it creates (count 1)    *)
(* plus an owner, a nesting depth and the priority to go back to.          *)
(*                                                                         *)
(* OS_MutexPend and OS_MutexPost call the scheduler twice inside one       *)
(* critical section, and either call may switch threads; so each is a      *)
(* sequence of actions of its thread, kept in pc.  Interrupts are off      *)
(* while the thread that runs is inside such a call.                       *)
(***************************************************************************)
EXTENDS Kernel

CONSTANTS
    Mutex,      \* a subset of Semaphore: each mutex is named as its semaphore
    Inside,     \* pairs <<m, n>>: programs lock and unlock n only inside m
    MaxDepth    \* bound on the nesting depth of one mutex

ASSUME MutexAssumption ==
    /\ Mutex \subseteq Semaphore \ {SemaphoreSleep}
    /\ Mutex \cap UserSemaphore = {}
    /\ \A m \in Mutex : InitialCount[m] = 1
    /\ Inside \subseteq Mutex \X Mutex
    /\ MaxDepth \in Nat \ {0}

VARIABLES
    owner,              \* mutex->thread
    depth,              \* mutex->count
    priorityRestore,    \* mutex->priorityRestore
    pc,                 \* where each thread is: "run" or inside a mutex call
    arg,                \* the mutex of that call
    restore             \* OS_MutexPost's local priorityRestore

mutexVars == <<owner, depth, priorityRestore>>
callVars == <<pc, arg, restore>>
allVars == <<vars, mutexVars, callVars>>

MutexInit ==
    /\ Init
    /\ owner = [m \in Mutex |-> None]
    /\ depth = [m \in Mutex |-> 0]
    /\ priorityRestore = [m \in Mutex |-> 0]
    /\ pc = [t \in Thread |-> "run"]
    /\ arg = [t \in Thread |-> None]
    /\ restore = [t \in Thread |-> 0]

-------------------------------------------------------------------------------
At(t, label) == Running(t) /\ t # Idle /\ pc[t] = label

Goto(t, label) == pc' = [pc EXCEPT ![t] = label]

\* The discipline of the calling program, if Inside gives one: while t owns n it
\* neither locks nor unlocks a mutex n is nested in.
Nested(t, m) == \A n \in Mutex : <<m, n>> \in Inside => owner[n] # t

\* The owner pends again: no critical section, no scheduling.
PendAgain(t, m) ==
    /\ At(t, "run")
    /\ owner[m] = t
    /\ depth[m] < MaxDepth
    /\ depth' = [depth EXCEPT ![m] = @ + 1]
    /\ UNCHANGED <<vars, callVars, owner, priorityRestore>>

\* Mutant: no priority inheritance.
PendBoost_None(t, m) ==
    /\ At(t, "run")
    /\ owner[m] # t
    /\ Nested(t, m)
    /\ Goto(t, "pend")
    /\ arg' = [arg EXCEPT ![t] = m]
    /\ UNCHANGED <<vars, mutexVars, restore>>

\* Priority inheritance: an owner of a lower priority gets the caller's.
PendBoost(t, m) ==
    /\ At(t, "run")
    /\ owner[m] # t
    /\ Nested(t, m)
    /\ IF owner[m] # None /\ priority[owner[m]] < priority[t]
       THEN OS_ThreadPrioritySet(owner[m], priority[t])
       ELSE UNCHANGED vars
    /\ Goto(t, "pend")
    /\ arg' = [arg EXCEPT ![t] = m]
    /\ UNCHANGED <<mutexVars, restore>>

PendSemaphore(t) ==
    /\ At(t, "pend")
    /\ OS_SemaphorePend(t, arg[t], WAIT_FOREVER)
    /\ Goto(t, "own")
    /\ UNCHANGED <<mutexVars, arg, restore>>

\* Back from OS_SemaphorePend with the token.
PendOwn(t) ==
    /\ At(t, "own")
    /\ owner' = [owner EXCEPT ![arg[t]] = t]
    /\ depth' = [depth EXCEPT ![arg[t]] = 1]
    /\ priorityRestore' = [priorityRestore EXCEPT ![arg[t]] = priority[t]]
    /\ Goto(t, "run")
    /\ arg' = [arg EXCEPT ![t] = None]
    /\ UNCHANGED <<vars, restore>>

OS_MutexPend(t) ==
    \/ \E m \in Mutex : PendAgain(t, m) \/ PendBoost(t, m)
    \/ PendSemaphore(t)
    \/ PendOwn(t)

\* A post that matches an inner pend only counts down.
PostInner(t, m) ==
    /\ At(t, "run")
    /\ owner[m] = t
    /\ depth[m] > 1
    /\ depth' = [depth EXCEPT ![m] = @ - 1]
    /\ UNCHANGED <<vars, callVars, owner, priorityRestore>>

\* Mutant: the poster stays the recorded owner.
PostSemaphore_KeepOwner(t, m) ==
    /\ At(t, "run")
    /\ owner[m] = t
    /\ depth[m] = 1
    /\ Nested(t, m)
    /\ depth' = [depth EXCEPT ![m] = 0]
    /\ restore' = [restore EXCEPT ![t] = priorityRestore[m]]
    /\ OS_SemaphorePost(m)
    /\ Goto(t, "restore")
    /\ UNCHANGED <<owner, priorityRestore, arg>>

\* The outermost post gives the token away ...
PostSemaphore(t, m) ==
    /\ At(t, "run")
    /\ owner[m] = t
    /\ depth[m] = 1
    /\ Nested(t, m)
    /\ depth' = [depth EXCEPT ![m] = 0]
    /\ owner' = [owner EXCEPT ![m] = None]
    /\ restore' = [restore EXCEPT ![t] = priorityRestore[m]]
    /\ OS_SemaphorePost(m)
    /\ Goto(t, "restore")
    /\ UNCHANGED <<priorityRestore, arg>>

\* Mutant: the priorities are compared the wrong way round.
PostRestore_Swapped(t) ==
    /\ At(t, "restore")
    /\ IF priority[t] < restore[t]
       THEN OS_ThreadPrioritySet(t, restore[t])
       ELSE UNCHANGED vars
    /\ Goto(t, "run")
    /\ restore' = [restore EXCEPT ![t] = 0]
    /\ UNCHANGED <<mutexVars, arg>>

\* ... and, when the thread runs again, takes back the inherited priority.
PostRestore(t) ==
    /\ At(t, "restore")
    /\ IF restore[t] < priority[t]
       THEN OS_ThreadPrioritySet(t, restore[t])
       ELSE UNCHANGED vars
    /\ Goto(t, "run")
    /\ restore' = [restore EXCEPT ![t] = 0]
    /\ UNCHANGED <<mutexVars, arg>>

OS_MutexPost(t) ==
    \/ \E m \in Mutex : PostInner(t, m) \/ PostSemaphore(t, m)
    \/ PostRestore(t)

\* No interrupt inside a mutex call: the critical section keeps them off.
InterruptBetweenCalls(step) ==
    /\ ThreadCurrent # None => pc[ThreadCurrent] = "run"
    /\ step
    /\ UNCHANGED <<mutexVars, callVars>>

\* The kernel's own steps: boot, sleep, interrupts between two critical sections.
KernelStep ==
    \/ /\ \/ \E t \in Thread : ThreadCurrent = None /\ rtos__thread_create(t)
          \/ rtos__start
          \/ \E t \in Thread, ticks \in Ticks : At(t, "run") /\ rtos__thread_sleep(t, ticks)
       /\ UNCHANGED <<mutexVars, callVars>>
    \/ InterruptBetweenCalls(rtos__interrupt_service_routine)

MutexNext ==
    \/ \E t \in Thread : OS_MutexPend(t) \/ OS_MutexPost(t)
    \/ KernelStep

MutexSpec == MutexInit /\ [][MutexNext]_allVars

-------------------------------------------------------------------------------
\* The type invariant of the mutexes and of the calls in progress.
MutexTypeOK ==
    /\ TypeOK
    /\ owner \in [Mutex -> Thread \cup {None}]
    /\ depth \in [Mutex -> 0 .. MaxDepth]
    /\ priorityRestore \in [Mutex -> Nat]
    /\ pc \in [Thread -> {"run", "pend", "own", "restore"}]
    /\ arg \in [Thread -> Mutex \cup {None}]
    /\ restore \in [Thread -> Nat]

\* The threads that were handed the token of m and have yet to record it.
Granted(m) == {t \in Thread : pc[t] = "own" /\ arg[t] = m /\ state[t] # "PEND"}

\* Mutual exclusion, the window between post and ownership included: a mutex is
\* free, granted to one thread, or owned by one thread, and never two of these.
OneHolder ==
    \A m \in Mutex :
        /\ owner[m] # None => depth[m] > 0 /\ count[m] <= 0 /\ Granted(m) = {}
        /\ owner[m] = None =>
               \/ count[m] = 1 /\ Granted(m) = {}
               \/ count[m] <= 0 /\ \E t \in Thread : Granted(m) = {t}

\* A thread that holds no mutex and is in no mutex call has the priority it was
\* created with: inherited priority is given back.
PriorityRestored ==
    \A t \in Thread :
        pc[t] = "run" /\ (\A m \in Mutex : owner[m] # t) => priority[t] = InitialPriority[t]

\* While there is one mutex, an owner that somebody starts to wait for runs at
\* least at the waiter's priority, and keeps it until it posts: no thread in
\* between delays the post.  (With a second mutex it fails: a caller that has
\* boosted the owner may be switched away before it waits, and the owner may post,
\* drop its priority and pend again in between.)
BoostedWhileOwned ==
    [][\A m \in Mutex, t \in Thread :
          owner[m] # None =>
             /\ state[t] = "RUNNING" /\ semaphorePending'[t] = m
                   => priority'[owner[m]] >= priority'[t]
             /\ owner'[m] = owner[m] => priority'[owner[m]] >= priority[owner[m]] ]_allVars

\* A thread that goes back to its own priority is not rescheduled, so it can run
\* beside a more urgent one.  While there is one mutex that is as far as it goes:
\* the thread has let go of the mutex, finds it taken by one that is not less
\* urgent, and gives way when it next pends.
StepsBackContended ==
    ThreadCurrent # None /\ ~InterruptInside /\ ~NoneMoreUrgent(state, priority) =>
        \A m \in Mutex :
            /\ count[m] <= 0
            /\ owner[m] # ThreadCurrent
            /\ owner[m] # None => priority[owner[m]] >= priority[ThreadCurrent]

\* "Priority inheritance to prevent priority inversion": no owner, once its
\* pend has returned, is less urgent than a thread waiting for the mutex.
NoInversion ==
    \A m \in Mutex, t \in Thread :
        owner[m] # None /\ semaphorePending[t] = m => priority[t] <= priority[owner[m]]

\* "Priority inheritance to prevent priority inversion": posting a mutex does not leave
\* a thread less urgent than a waiter of another mutex it still owns.
NestedKeepsBoost ==
    [][\A m \in Mutex, t, u \in Thread :
          owner'[m] = t /\ priority'[t] < priority[t] /\ semaphorePending[u] = m
             => priority[u] <= priority'[t] ]_allVars

=============================================================================
