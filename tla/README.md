# Verification of OS-3o3

OS-3o3 ("32gears") is a small public domain operating system for i386, amd64
and the Raspberry Pi 400.  Three parts carry its logic: a preemptive real-time
kernel in one file, `src/src/rtos.c`; a FAT file system, `src/src/fat.c`; and the
host programs that build the system and its disk image, `src/tools/`.  This
directory holds TLA+ models of them, the TLC configurations that check the
models, and TLAPS proofs.  Paths below are relative to the directory above this
one; line numbers are those of the source files.

## The system

| Component | State it keeps | Operations | Talks to |
|---|---|---|---|
| Scheduler (`rtos.c` 287-635) | `ThreadHead` (ready, by priority), `TimeoutHead` (by due time), `ThreadCurrent`, `ThreadSwapEnabled`, `ThreadNeedReschedule`, per thread `state`, `priority`, `ticksTimeout`, `semaphorePending`, `returnCode` | create, exit, sleep, set priority, reschedule, start | everything below calls `OS_ThreadReschedule` |
| Tick and interrupt service routine (647-672, 1144-1175, 1273-1284) | `ThreadTime`, `InterruptInside`, registered handlers | serve each raised line, wake sleepers that are due, reschedule at the end | scheduler, semaphores, handlers |
| Semaphores (677-770) | `count`, `threadHead` (waiting, by priority) | create, delete, pend (with timeout), post | scheduler, tick |
| Mutexes (775-843) | owner, depth, priority to restore, a semaphore | pend, post | semaphores, `OS_ThreadPrioritySet` |
| Message queues (848-928) | a ring of slots, `used`, `read`, `write`, a semaphore | send, get (with timeout) | semaphores |
| Jobs (936-973) | one queue and one thread, created on first use | `OS_Job` | message queues |
| Timers (978-1140) | `TimerHead` (by due time), per timer `active`, `ticksTimeout`, `ticksRestart` | create, delete, start, stop, the timer thread | two semaphores, callbacks, queues |
| Heap (151-279) and thread memory (478-577) | a circular free list per heap, `NeedToFree` | create, alloc, free, alternate; thread create and exit | `SemaphoreRelease` |
| Interrupt flag (`i386/interrupt.c`, `rpi400/interrupt.c`, `io32.S`) | the CPU's flag and `inter_enable` | enable, interrupt entry and return | every critical section |
| FAT (`fat.c`) | two tables on disk, one cached sector, FSInfo, directory slots, file handles | create, open, read, write, seek, rename, delete, directories, attributes | the block device |
| Buffers and words (`buf.c`, `utils.c`, `klib.c`) | a growing byte buffer | append bytes, numbers, UTF-8/16; compare and add words | C allocator |
| Build program (`tools/build.c`) | a stack of JSON objects, the tasks | parse the task file, run tasks after those they depend on | processes |
| Disk image (`tools/parted.c`, `mkdosfs.c`, `cp.c`, `mkvhd.cmd`) | the image file, the layout of the volume | partition table, FAT volume, copying files onto it through `fat.c` | each other, through the image |
| Drivers and start-up, drawing | device registers, bitmaps | set-up sequences | hardware |

One CPU runs (`OS_CPU_COUNT` is 1), so the kernel's concurrency is preemption:
an interrupt may come between any two instructions outside a critical section,
its handlers may wake threads, and its end may switch to another thread.  The
file system is sequential; what is hard there is the disk, which a stopped
machine leaves between two writes, and fields shared by everybody who comes
after.  The host tools are sequential too; they are hard at their input and at
the limits of their arithmetic.

* Kernel lists are intrusive: a block linked twice corrupts two lists.  A
  sleeper can be woken by a post, by the tick, or nearly by both.  A post inside
  an interrupt must be remembered.  Due times wrap at 2^32.  Mutexes and queues
  hand over in two halves with a thread switch in between.
* A thread that exits still runs on the block it would free.
* An entry of 12 bits lies across two sectors; one sector of the table is
  cached; clusters are marked, chained and entered in separate writes.
* A long name is a run of slots that must stay together, and its alias must be
  unique and have the checksum the run has.
* The parser meets files that are cut off; tasks depend on one another.
* The programs that make a volume and the driver that mounts it each compute
  its layout.

`PROJECT.json` lists each hazard with its line and the properties aimed at it,
or the reason why there is none.

## Modules

| Module | Models | Lines of the source |
|---|---|---|
| `ThreadLists` | the list by priority and the list by timeout, as operators on sequences | `rtos.c` 287-383 |
| `Kernel` | scheduler, semaphores, tick, interrupt service routine, start-up | `rtos.c` 391-770, 1144-1175, 1273-1404 |
| `CountingSemaphores` | abstract: what semaphores promise | - |
| `KernelClock` | `Kernel` and a stopwatch per sleeper that never wraps | - |
| `Mutex` | mutexes on top of `Kernel` | `rtos.c` 775-843 |
| `MQueue` | message queues over `CountingSemaphores` | `rtos.c` 848-928 |
| `Channel` | abstract: what a queue promises | - |
| `Timers` | the timer list, start, stop and the timer thread | `rtos.c` 978-1140 |
| `Heap` | the free list: first fit, splitting, joining | `rtos.c` 151-266 |
| `ThreadMemory` | creation and exit of threads on `Heap` | `rtos.c` 449-577 |
| `FatTable` | table entries, cache, finding, marking, chaining and freeing clusters | `fat.c` 247-274, 1663-1731, 1944-2308, 2528-2641 |
| `FatFiles` | the file calls over `FatTable`, with a stop between any two writes | `fat.c` 276-1387 |
| `Files`, `FileValues` | abstract: what files promise | - |
| `FatNames` | long names, 8.3 aliases, numeric tails, checksum | `fat.c` 2642-3237 |
| `FatDirectory` | the directory calls over `FatNames` | `fat.c` 276-728, 1388-1932, 2311-2503, 2642-3504 |
| `Directory` | abstract: what a directory promises | - |
| `TaskFile` | the JSON scanner and the gathering of tasks | `build.c` 60-747, 936-1121 |
| `Build` | dependencies and commands | `build.c` 1161-1362 |
| `Parted`, `Mkdosfs` | command lines, partition table, layout of the volume | `parted.c` 232-1133, `mkdosfs.c` 566-1697 |
| `DiskImage` | what the two programs write and what `fatInit` finds | `mkdosfs.c` 915-2094, `cp.c` 88-117, `fat.c` 90-215 |
| `HostTools` | `Build` with the image as one of its commands | `mkvhd.cmd` |
| `Utils`, `Buf` | pure functions on words, numbers and code points | `utils.c`, `buf.c` |
| `*_proofs` | theorems and their proofs | - |
| `MC*` | values of the constants for TLC | - |

**Kernel.**  The variables have the names of the C variables and fields; the
lists are sequences of threads, so a thread in a list is a control block whose
links are in use.  A kernel call of the running thread is one action, because
the code brackets it with `OS_CriticalBegin` and `OS_CriticalEnd`: everything
from the count to the switch inside `OS_ThreadReschedule` happens in it.  The
operators `Reschedule`, `Swap`, `SleepOn`, `WakeFirst` take the lists and states
their caller has just written, and set the next ones.  `k__setjmp` and
`k__longjmp` are the change of `ThreadCurrent`; `thread->returnCode`, which a
call reads when it runs again, is a variable.  The interrupt service routine is
not one action: entry, each handler, each iteration of the loop in
`OS_ThreadTick`, and exit are steps, and the states between them are checked.
A handler may post a semaphore.  The idle thread only gets interrupted.

Interrupts arrive during start-up, too: `interrupt__init` enables them before any
thread exists, and `OS_SpinLock()`, with which `rtos__start` seems to mask them, is 0
on one CPU (`rtos.h` 56).  So `rtos__start` is several actions, `StartEnable`
(`ThreadSwapEnabled`), `FirstPick` (to line 415), `FirstUnlink` (to 439) and
`FirstJump`, with interrupts between them; `switching` says how far the boot code
is and `threadNext` which thread it switches to.  An interrupt before `FirstPick` may
start the threads itself, and the boot code is never resumed.  One after `FirstPick`
finds a thread that is current, ready and listed.  Its reschedule may save the boot
code's context as that thread's; `FirstJump` is not followed where the machine would
then jump into a stack frame that has been left.  The three assignments of an unlink
are one step.  With the constant `QuietStart` TRUE no interrupt falls between
`FirstPick` and `FirstJump`, and `FirstSwitch` is all three; the ones before and
after come as ever.  The run `kernel_start` has `QuietStart` FALSE, all others TRUE: what a thread unlinked
twice does to the lists later has no meaning in the code.

**Mutex.**  `OS_MutexPend` and `OS_MutexPost` call the scheduler twice inside one
critical section, and each call may switch threads, so each is a sequence of
actions: `PendBoost`, `PendSemaphore`, `PendOwn`; `PostSemaphore`,
`PostRestore`.  Other threads run between them.  Interrupts do not come while
the *running* thread is inside a call.  The constant `Inside` says which mutexes
a program nests in which; it then releases them last in, first out.

**MQueue.**  A call is two actions: the critical section on the ring and the
semaphore operation.  The semaphore is the abstract one; the run `kernel` shows
that the scheduler implements it, and its threads may run in any order, which
contains every order the scheduler allows.

**Timers.**  What `SemaphoreLock` guards is one action (`StopRegion`,
`StartRegion`, `PickExpired`, `HowLong`); what the code reads outside it
(`OS_ThreadTime`, `active` at line 1084, `ticksRestart` at 1013) is a step of its
own.  The timer thread calls `OS_TimerStart` and `OS_TimerStop` through the same
actions as the callers.  `tokens` is the count of `SemaphoreTimer`, `wakeAt` the
timeout of the pend on it; only the timer thread pends on it, so a state of that
thread replaces the waiting list.  The list operations are those of
`ThreadLists`: `OS_TimerStart` has the same loop as `OS_ThreadTimeoutInsert`.

**Heap and ThreadMemory.**  `node` is the circular list through the free blocks,
a function from a block's address to its units and successor, `available` the
node where the next search starts.  A search and a release are one action each
(they run under the heap's semaphore); `SemaphoreRelease`, `NeedToFree` and the
steps of creation and exit between them are interleaved.  Units are the size of
a block header.  All a thread does between calls is left out.

**FatTable and FatFiles.**  A sector of the table is a function from nibbles to
values, so that entries of 12, 16 and 28 bits are packed as on disk.  A call is
an operator on a record `m` that is threaded through the routines in the order
of the code: `m.img` grows by one disk with every sector written, `m.cached` is
dropped or filled, `m.panic` is the end of the program in `PosMonitor`.  An
action applies the whole call; `stops` lets the machine stop with any of the
call's disks, and the file of that call is then `damaged`.  `held`, the contents
a reader of the disk would find, is what the refinement maps to the abstract
`Files`.  `Careful` keeps callers from the stale handles listed below, and from a read
of an empty file.  `fatCreatFile` leaves `currentCluster` of the caller's `FATFILE` as
it is; `Leftover` are the clusters it may hold.

**FatNames and FatDirectory.**  Names are sequences of character codes; alias
generation, tail increments, the 8 bit checksum and the comparison without case
are computed, not chosen.  The widths (8.3 characters, 13 in a piece, digits 0 to
9) are constants.  A directory is a sequence of slots; a fixed root has a limit,
another grows by clusters.  `Directory` knows files by name only.

**TaskFile and Build.**  The text is a sequence of tokens.  `json__get` is one
action per character class and state, with the positions the code keeps, one too
early or one too far included.  `calls` is the C stack of `bld__depends`.

**DiskImage.**  The image is the log of what was written where; a sector holds
what was last written to it.  The arithmetic of the layout is that of the code,
in sectors.  Options come as a command line and are parsed, wrong ones included.
`JobAssumption` of `HostTools` says which jobs there are: numbers of the partition
table within 2^28 (`write741` cuts at 32 bits), FAT32 volumes of 32 sectors to 2^28, all
others of 33 or more.  Below that the unsigned subtractions at lines 1360 and 1361 of
`mkdosfs.c` wrap and the program goes on with what they give; `--blocks 10 -s 2` is
laid out as FAT16 with 32632 clusters on 20 sectors.  A boot file whose jump leaves room
for a part of the fields, which `mkdosfs.c` 1806-1843 then fills, counts as foreign: the
image is not mounted.

**Utils and Buf** are functions without state, on numbers up to 2^32, beyond
TLC's integers; they are proved.

Abstracted: thread names, stacks, process and heap ids, `cpuLock` (always -1 on
one CPU), message contents (model values), debug output, registering and masking
of interrupt lines; dates, last-access recording and paths of several parts;
serial numbers, boot code and messages of the host tools.

## What is checked

| Run | Instance | Shows |
|---|---|---|
| `kernel` | idle and three threads, `OS_ThreadPrioritySet` at any time with two priorities, one semaphore of one token, waits for ever / without waiting / for one tick, counter modulo 4 | lists, states, counts and timeouts agree, the assertion at line 740 holds, the ready list is sorted, switches pick the most urgent, and the whole implements `CountingSemaphores` |
| `kernel_start` | the same with fixed priorities, one thread above two equals, and interrupts between the steps of the first switch | only an interrupt within the first switch ever misplaces a thread (`OnlyFirstSwitchTears`); waiting lists are sorted; the most urgent ready thread runs (`HighestPriorityRuns`, while the ready threads are all in their list) |
| `kernel_clock` | idle and two equals, sleeps of one and two ticks and one that is over when it starts, counter modulo 10, with fairness | sleeps last exactly as long as asked across wraps; sleeps end; equals take turns |
| `mutex` | idle and three priorities, one mutex, depth 2 | inheritance given before the wait and kept until the post; whoever goes back to its own priority runs beside a more urgent thread only while the mutex is out of its reach |
| `mutex_nested` | two mutexes, one possibly inside the other | one holder, also between post and ownership; a thread without mutexes has its own priority |
| `mqueue` | three threads, two messages, two slots, with fairness | bounded FIFO channel, tokens and messages agree, no message stays beside sleeping receivers |
| `timers` | one caller and the timer thread, two timers, due at once and once or every two ticks, counter modulo 12, with fairness | the list holds the running timers once and in order; the timer thread never sleeps past the first timer unless a post is on its way, and looks again and again |
| `timer_restarted` | one caller, one timer | *violated*: the timer thread stops a start it has not seen (`RunsItsTicks`) |
| `thread_memory` | up to four threads of two sizes, a heap of eight units and an alternate of three | free list and blocks partition the heap (`HeapSound`); no block is freed under a living thread or twice (`BlocksOwned`); a creation fails only when nothing fits (`ServesWhatFits`) |
| `fat` | three clusters of two sectors of two bytes, FAT12, 16 and 32, two files, one stop | chains are disjoint and as long as the size needs (`ChainsSound`), nothing is lost while no call is cut short (`NothingLost`), the cache is coherent, reads return what was written and other files survive a stop (`ImplementsFiles`) |
| `fat_directory` | five words around one alias, a fixed root of five slots and a directory of clusters of three | aliases are unique, no piece of a long name is left behind, and names work as `Directory` promises |
| `host_tools` | task files whole, in two layouts, cut off at and damaged in every token; some 4800 jobs around every limit of the layout | tasks arrive as written (`TasksAsWritten`) and run in order (`RunsInOrder`); areas and tables fit (`LayoutFits`), a new volume mounts empty where it was laid out (`FreshVolumeMounts`), partitions are in order, table and footer survive (`PartitionsKept`) |

Every property of a passing run has a mutant, a plausible slip in the code
written next to the definition it replaces, that makes TLC report it.

**Bounds.**  The state spaces are exhausted.  *Kernel:* two equals and one more
urgent thread are the least for preemption, queues behind equals and round robin
at once; where priorities change all threads start as equals and reach every
combination, so they are symmetric (`SymmetryEqual`; with fixed ones the two equals are); one token of `MaxCount` gives both signs of `count`.  `TickModulus`
stands for 2^32: comparisons by sign are right while due times are less than half
the modulus apart, so it exceeds twice the span of the sleeps.  The code relies
on the same: a sleep of 2^31 ticks or more ends at once.  *Timers:* a call or a
turn of the timer thread takes at most `MaxStall` ticks, `MaxTokens` limits the
posts nobody has taken; one tick within a call is enough for a due time that has
passed when the timer is linked, and timers due at once make the timer thread sleep
for 0, which does not wait, and for -1, which `OS_SemaphorePend` takes for "for ever": a
post always follows it.  The modulus, 12, exceeds twice the longest time and three
stalls, as `SpansFit` asks.  *Heap:* eight
units hold three blocks with gaps on either side, and four threads make every
order of release.  *FAT:* with eight nibbles in a sector the third entry of 12
bits crosses a sector; three clusters are enough for a file of two next to a file
of one, a full disk, and a chain in falling order; a size of six is a file that
ends inside a sector, at one, and at a cluster.  *Directory:* the words share the
alias A~1 in capitals, in small letters and as a tail, so that ~10, ~11 and
exhaustion occur; a run of two pieces and an entry crosses the cluster of three.
*Host tools:* sizes are taken around every threshold in the code (floppies, 12/16
bits, alignment at 4 MB, 16/32 bits, cluster sizes), every width and cluster size
with each.

**Fairness.**  `Kernel`: the tick line, once raised, stays raised until it is
served, so it gets in between other interrupts (strong fairness); the boot code
reaches `rtos__start` between interrupts (strong); the service routine, which
nothing interrupts, runs to its end (weak).  Threads get no fairness: one may
compute for ever.  `MQueue`: a thread that is awake inside a call finishes it,
which holds when more urgent threads sleep from time to time.  `Timers`: ticks
come, the timer thread (priority 250, line 1042) and callers inside a call run.
The file system and the tools are checked for safety only.

**Deadlock** is checked except where the system may stop: in `mqueue` all threads
may sleep with nobody left to send, in `thread_memory` the blocks of all names may
be lost, a stopped or full disk ends `fat` and `fat_directory`, and `host_tools`
ends with the build.

## Where code and comments, or code and expectation, differ

TLC shows each of these when the property is added to the configuration named:

| Property | Configuration | The code | Expected |
|---|---|---|---|
| `RunsItsTicks` | `TimersEarlyStop.cfg` (run `timer_restarted`) | `rtos.c` 1010-1016 | "In ~10 msec ticks send a message (or callback)" (1074) |
| `NextIsReady` | `MCKernelStart.cfg` | 1399: the first switch with interrupts on | "Must be called with interrupts disabled" (390), the assertion at 438 |
| `WaitersSorted` | `MCKernel.cfg` | 628: only ready threads are sorted again | "sorted by priority ... a list of threads waiting on a semaphore" (282-285) |
| `NoInversion` | `MCMutex.cfg` | 816-818, 836: no owner between post and pend | "Priority inheritance to prevent priority inversion" (812) |
| `NestedKeepsBoost` | `MCMutexNested.cfg` | 839: one priority per mutex | the same |
| `DeadWaitToBeFreed` | `MCThreadMemory.cfg` | 492, 562, 573: `NeedToFree` outside the lock | "Free the memory for closed but not yet freed threads" (559) |
| `ReadsEndInside` | `MCFatFiles.cfg`, `Careful` FALSE | `fat.c` 781-783, 850 | "don't go past EOF" (849) |
| `ImplementsDirectory` | `MCFatDirectory.cfg`, `Word <- MCColliding` | 1863: `lfn_len` stays | "Checks, if there is LFN associated" (1872) |
| `TasksAsWritten` | `MCHostTools.cfg`, `Document <- MCDense` | `build.c` 345: two characters behind a bracket | "gets the next memmber after child in obj" (323) |
| `TypeByClusters` | `MCHostTools.cfg` | `fat.c` 170: all sectors, not the clusters' | "Max. clusters ... those numbers are confirmed" (161-165) |
| `PartitionsApart` | `MCHostTools.cfg` | `parted.c` 475, 1129: an end, and a count | "overlapping partitions" (477) |

*Kernel.*  `timer_restarted`: `OS_TimerThread` decides under the lock that a timer
is due and acts on it after releasing the lock (1010-1016), so a start in between
is stopped, or replaced by the old period, and a stop is undone for a periodic
timer.  `NextIsReady`: a tick after line 415 finds the thread picked current, ready and
listed; its reschedule unlinks it and marks it running, and the boot code asserts
that it is ready, or unlinks it again.  `WaitersSorted`: a sleeper whose priority
changes stays where it is, so the next post may wake a less urgent one.
`NoInversion`: between `mutex->thread = NULL` (836) and `mutex->thread = thread` (818)
nobody can be boosted.  `NestedKeepsBoost`: the priority a post goes back to (839)
forgets other mutexes.  The thread that lowers itself (840) keeps the CPU until the
next tick or call.  `DeadWaitToBeFreed`: a thread in creation or exit that saw
`NeedToFree` empty (490, 560) clears it (492, 562) after another thread has set it
(573); that block is never freed, which `BlocksOwned` allows.

*Files* (kept out of the run by `Careful` and by the callers' discipline; with
`Careful` FALSE TLC refutes `ImplementsFiles` too).  A read at the end of a file that
fills its clusters reads the last one again: its sector in the cluster is 0 there, and
a full cluster is an exception in the test of the end.  A read of a new file that is
still empty goes to the cluster the caller's `FATFILE` held before.  A read to an end
at a sector's boundary followed by a write, a write in place that ends there, and a
seek past the end of such a file followed by a write each go to the wrong sector.
With one sector per cluster a seek to a cluster's boundary is wrong.  A stop between
chaining and marking leaves a chain into a free cluster; a file cut short is not
opened or deleted again in the run.  On a full disk `PosMonitor` ends the program.

*Names.*  The length of a long name read so far is not reset at an entry that does
not match an 8.3 search (`fat.c` 1863): with two files of equal checksum one behind
the other, deleting the 8.3 file deletes the long-named file's entry and leaves its
own, with its clusters freed.  The words of `MCWord` do not collide; "aaaa" and "AFZ.Z"
(`MCColliding`) do at the widths of the run.  A fixed root that is full to its last
slot has no end marker, and a search then reports the entry of an earlier search
(`FillRoot` TRUE refutes `OpensWhatIsThere`); a rename that fails there gives the file
another alias.  `findFreeSpaceForLFN` may chain a cluster it does not need.  Names of
dots only, or with leading dots or spaces and fewer than six characters behind them,
make `generate83Name` read behind the name and are left out.  `fatSetFileAttributes`
writes what it is given: a directory loses its directory bit.

*Build.*  The parser keeps the end of an object one character early and skips one
character behind numbers and literals: `[1]` without a space, or a comma right
behind a number, loses what follows; the run has a space there.  Objects nested
exactly `json__MAX_DEPTH` deep make the visitor loop.  A string for `dependsOn` and
labels nobody has are ignored.  Only a task that depends directly on itself is
refused; a longer cycle recurses until the stack is used up, which `StackLimit`
stands for.  `main` ignores what `bld__make` returns (1359), so the program's exit status is
success whatever happened.

*Image.*  Volumes of 8174 to 8199 blocks with no width asked for, of 4087 to 4113
with 12 bits and one sector per cluster, and of 524280 or 524288 with 16 bits, are
laid out with one width and mounted with another (`Misread`).  With `--blocks` the
size of an existing file is compared with nothing; without, its odd last sector is
counted twice.  The first root sector is written from memory that was never set
(`mkdosfs.c` 1629); of a FAT32 root directory only the first sector is wiped (1696), so
what its cluster held before is read as entries.  The partition table stores the end
where readers expect a count: `mkvhd.cmd` 8 gives one that is a count, the check for
overlaps takes it for a sector, and two partitions, 20000 from 32 and 95673 from
20000, pass it and overlap.

*Pure functions*, each stated as a theorem: words with different signs are unordered
(`MixedSignsUnordered`), the 64 bit sum loses the carry (`CarryLost`), UTF-8 is not
read where `char` is signed (`SignedCharMisreads`), negative numbers print as their
sign and zero as nothing (`DigitsOnlyAboveZero`).  `buf__utf16tocp` has no `return`
behind a surrogate pair.

## What is proved

`Scheduler_proofs` proves of `Kernel`, for any set of threads and semaphores, any
priorities, counts, timeouts and counter width:

* `TypeCorrect`: `Spec => []TypeOK`;
* `BlocksPlaced`: `Spec => []ThreadsPlaced`;
* `TimeoutsOnlyPending`: `Spec => []TimeoutsPending`;
* `CountsMatch`: `Spec => []CountMatchesWaiters`;
* `AssertThreadHead`: `Spec => []AnotherThreadReady`.

Each of them, and every theorem about `Kernel`, `KernelClock` and `Mutex` below, has the
condition `QuietStart`: no interrupt between the choice of the first thread and the jump
to it.  Without it they are false (`NextIsReady` above); with it, interrupts before and
after the first switch are all covered, those that start the threads themselves
included.  The assumptions are `KernelAssumption` and `TickModulusAssumption`, which say
that the constants have their types, that the idle thread is a thread, and that
the sleep semaphore starts at 0 and is not used directly.

The argument: `IInv` joins the five properties and `Undisturbed` (the first switch is
never half done) with two facts without which they are not inductive.  The idle thread makes no call, so it is ready or running
(`IdleAwake`): that is why the ready list is not empty when a thread goes to
sleep, and why a switch there always finds a successor.  And swaps are enabled
once a thread runs (`SwapsOn`): otherwise a sleeper's reschedule would be
deferred and it would run on.  `OS_ThreadReschedulePlaces` shows once, for all
callers, that rescheduling keeps blocks in place, from what the caller hands it
(`Handed`); `SleeperWoken` shows once, for post and tick, that a sleeper leaves
its lists and gives back its share of the count.  The lists come first: what
insertion and removal do to a list's set, length and distinctness, and that
insertion by priority keeps a list sorted.

It goes on to what the lists are good for:

* `ThreadHeadSorted`: `Spec => []ReadySorted`, whatever priorities are asked for;
* `SwitchesRight`: `Spec => SwitchesToHighest`;
* `MostUrgentRuns` and `MostUrgentWoken`: `[]HighestPriorityRuns` and
  `[]WaitersSorted`, if `NewPriority = {}`;
* `SchedulerRefines`: `Spec => ImplementsSemaphores`, so `Kernel` implements
  `CountingSemaphores`;
* `SleepsLastAsAsked`: `TicksFit => (ClockSpec => SleepsExactly)` of `KernelClock`.

`ReadyInv` adds to `IInv` that the list is sorted and that the tick's loop and the
handlers run inside an interrupt only, for that is what defers their reschedules.
`UrgentInv` adds the two properties that hold while no thread changes its priority.
The condition is not for the prover's sake: `OS_ThreadPrioritySet` moves neither a
sleeper in the lists of semaphores nor, in a critical section or inside
`OS_MutexPost` (line 840), the running thread, so without it both are false.
`ReschedulingUrgent` and `ReschedulingSwitches` treat the reschedule once for all its
callers.  The refinement takes `IInv` alone: who is granted a token, posted to or
timed out is decided by the count and the lists, whose agreement `IInv` states.

`TicksFit` asks that the ticks threads sleep for, those that are over when they start
included, be less than half the counter's range apart.  It is needed: with -2, 1 and 2 on
a counter modulo 8, TLC finds a sleeper linked in at the wrong place and woken too
late, modulo 10 it does not.  `ClockInv` adds to `IInv` that the timeout list is sorted by
the ticks left until each due time, as the wrapping counter has them (`TicksLeft`), and
that these agree with the stopwatch (`StopwatchAgrees`).  Every tick takes one from all
of them (`TickPasses`), and an insertion compares two of them right because they are
close (`DifferenceLeft`); so the handler, which looks at the first thread only, ends
the sleeps that are over and no other (`ExpiredWhenOver`, `FewestLeft`).

It also proves of `Mutex`, for any threads, mutexes and depths of at least one

* `MutexTyped`: `MutexSpec => []MutexTypeOK`, which no run repeats;
* `MutualExclusion`: `MutexSpec => []OneHolder`;
* `PrioritiesGivenBack`: `OneOrder => (MutexSpec => []PriorityRestored)`;
* `OwnerStaysBoosted`: `OneMutex => (MutexSpec => BoostedWhileOwned)`;
* `StepsBackLast`: `OneMutex => (MutexSpec => []StepsBackContended)`.

`MutexInv` joins `IInv`, which every mutex step keeps because its effect on the
scheduler is a step of `Kernel` (`KernelEffect`), with `TokenPlaced`: the only
token of a mutex is in its count, with its owner, or granted to one thread whose
pend has not come back yet; and with `SleepersCall` and `CallersNested`: a thread
that sleeps for a mutex is inside its pend.  Without these the window between
the post and the assignment of the owner (lines 816-818) would let two threads
own one mutex.  `RestoreInv` adds what each thread remembers: as long as mutexes
are taken in one order and released in the other, the priority kept in the
outermost one is the thread's own.  `OneOrder` is that condition; without it the
property fails at line 817.

The last two are about the thread that lowers itself in line 840 and is not
rescheduled.  `OneMutex` says that there is one mutex; with a second one
`BoostedWhileOwned` fails, because a caller that is not the most urgent thread
may be switched away by its own boost, and what it knows of the owner is old when it
goes to sleep.  `BoostInv` shows why this cannot happen with one: a thread that
still has to lower itself was boosted by one that waits behind it in the ready list
or at the mutex (`BoosterWaits`, `BoostFromWaiter`), so when it goes on beside a more
urgent thread the mutex is taken by an owner it has nothing to give (`OwnerAbove`,
`MostUrgentOrLow`), and a call runs from its boost to its sleep without a switch
(`CallersRun`, `CallerBelow`).  It needs the order of the ready list and not only its
priorities: `InsertKeepsOrder` and `RemoveKeepsOrder` say that an insertion or a
removal leaves the order of the other threads as it is.

`MQueue_proofs` proves `TokensMatch` (`Spec => []TokensMatchMessages`) and
`RingRefinesChannel` (`Spec => ImplementsChannel`) for any messages, sizes and
finite set of threads; the threads are counted, so they are finite, as in the code.
`QueueInv` says that each semaphore's tokens and the calls that hold one add up, and
that the ring's two indices are as far apart as it has messages (`RingPlaced`).
Together they make sure that a sender between its two semaphores writes a free slot.

`Timers_proofs` proves, for any timers, callers and bounds, `TimersTyped`
(`Spec => []TypeOK`) and `TimersListedOnce` (`Spec => []RunningListed`), from
`TimersAssumption` and `TickModulusAssumption`.  Its invariant adds that a call
that is about to use a timer and a due time has them.  The step that matters is
`StartRegion`: the insertion lemma needs a timer that is not in the list, which
only the second look at `active` (line 1087) gives.

* `TimersInDueOrder`: `SpansFit => (Spec => []DueInOrder)`;
* `TimersNotOverslept`: `SpansFit => (Spec => []NotOverslept)`.

`SpansFit` says that the longest time a timer is started for, with three stalls of a
call, is less than half the counter.  The code compares due times by the sign
of a wrapping difference, so it relies on this too; with 32 bits it leaves 2^31
ticks.  The argument, `DueInv`: no call keeps a due time longer than `MaxStall`
ticks before it links the timer, so every due time in the list lies within one span of
the counter; there the signed difference is the true one (`SignedDiffIs`), the order
by it is total, and insertion keeps the list sorted.  The thread's sleep is a
difference computed from the first timer of a list that may have changed since.  So
the invariant relates the sleep not to the list but to what happened to it: while
the list starts with the timer the thread looked at, the thread wakes when it is
due; if an earlier one has been linked in front, the post that announces it is in
the count or in the hands of the call.

The lists of both are one argument: `LinkedSorted` and `RemovedSorted` hold for any
order that is total on the list; `PriorityInsertSorted` (`Scheduler_proofs`),
`TimeoutInsertSorted` (`Timers_proofs`) and their counterparts for removal are
instances.  The two modules extend different systems, so each has the lemmas it needs.

`ThreadMemory_proofs` proves for any heaps, any sizes of requests and any threads

* `HeapStaysSound`: `Spec => []HeapSound`;
* `EveryBlockOwned`: `Spec => []BlocksOwned`;
* `ServedIfItFits`: `Spec => ServesWhatFits`;

from `HeapAssumption` and `ThreadMemoryAssumption`, which say that heaps have a
positive size, that requests do, and that the marks for "in use" and "none" are no
sizes, threads or addresses.  `HeapInv` says of each heap that its blocks tile it,
that the free ones are linked in one circle in order of address (`Circle`), that no
two free ones touch, and that the list starts at a free one.  The code walks this
circle in loops that end only where they began, so everything rests on the walk: two
nodes have different successors, so by counting the walk must come back
(`WalkComesBack`), and in address order it cannot come back before it has met every
free node (`WalkMeetsAll`).  `rtos__heap_free` joins the block with its upper and then
with its lower neighbour; between the two (`HalfLinked`) the free node below does not
point to the block yet, and may touch it.  `BlocksOwned` rests on the release semaphore: one
thread at a time is between naming its block in `NeedToFree` and its last switch.  It
says that no block is freed twice or under a thread that runs on it, and not that
every block is freed: one may be lost (`DeadWaitToBeFreed` above).

`HostTools_proofs` proves `CommandsInOrder` (`HostSpec => []RunsInOrder`) for any task
file, damaged ones included: when a command starts, all dependencies of its task have
run, no task runs twice, and `bld__make` returns success exactly if the goal's command
succeeded.  `BuildInv` says that the parser leaves a sequence of tasks (`TaskSeq`),
that calls of `bld__depends` are nested (`CallsNested`: each is for the first task its
caller still has to see to, and what the caller is done with has run), and that a task
is marked done when it has run or is running.  The code ends the loop over the
dependencies when the first command fails and main looks at one result only; so it
matters that the goal comes last (`GoalLast`): it cannot start inside a call for
itself, since all the calls down to there would have run.  That is shown by induction
along the chain of calls.

It also proves, for every image that can be asked for,

* `VolumesFit`: `HostSpec => []LayoutFits`;
* `NewVolumesMount`: `HostSpec => []FreshVolumeMounts`;
* `TablesKept`: `HostSpec => []PartitionsKept`;

from `JobAssumption`: numbers on the command lines are numbers, those of partitions fit
their fields, and no number of `establish_bpb` wraps.  That takes volumes of at most
2^28 sectors, a `long` of 64 bits, FAT32 volumes of at least their 32 reserved sectors
and others of at least their boot sector and the 32 of a root directory; below that
lines 1360 and 1361 of `mkdosfs.c` subtract to a number near 2^32, and the program
goes on with it.  `TablesKept` says that the table has the partitions asked for in
order, each from where the one before ends or later, with cylinders, heads and sectors
that name their ends, and that a volume made inside one leaves table and footer alone.
The arithmetic is `EstimateEnough`: a table made for the estimated number of clusters
has an entry for every cluster that is left beside two such tables, which the code
relies on for FAT12, FAT16 and FAT32 alike.  From there `LayoutIsSound` has all areas
in place for any settings, and `EstablishSound` for the first cluster size that fits.
`VolumeInv` relates the layout to the log of writes: outside the volume a sector holds
what `parted` wrote (`OnlyVolume`), inside it the areas hold what has been done so far
(`AreasHold`), and every boot sector there is describes the volume, so `fatInit` reads
what `mkdosfs` computed.  The command lines are folds; `FoldExists` and `FoldEnds` say
what the fold over a sequence keeps, and with them options of any number and order
leave a request of the right type (`RequestTyped`, `PartsTyped`).

The proof corrected two statements.  `LayoutFits` held a job to the size it asks for
also when the partitioned image it makes first is smaller, which `mkdosfs` does not
compare (`SizeFollows` now says when it must fit), and it said nothing of which sizes
the code's arithmetic can take.

Its last part proves the pure functions of `Utils` and `Buf` for all words and code
points: where comparison and addition are right and where not, that a buffer never
writes behind what is allocated, and that what is written in UTF-8 (every 32 bit
number, six forms, one lemma each) and UTF-16 (without surrogates) is read back with
an unsigned `char`.  The argument of each form is the same: the number is the sum of
its groups of six bits, each of which comes back from behind its mark.  No
assumption is made but the one in the theorem; `CHAR_MIN` is -128 or 0.

`FatFiles_proofs` proves `CacheStaysCoherent` (`Spec => []CacheCoherent`) for volumes of
every size and type, any files and data, callers careful or not, and a machine that
stops after any write, from `TableAssumption` and `FileAssumption`.  The calls are
operators, so the invariant is one on the record that is threaded through them
(`Whole`): the cached sector is that of the last image.  Every routine keeps it, because
each of its writes drops the cache and each of its reads fills it from the image it
leaves; loops by induction over their rounds (`NukeSteps`, `ReadSteps`, `ZeroSteps`,
`WriteSteps`, `SeekSteps`).

`FatChains_proofs` goes on to the chains, from the same assumptions and
`VolumeAssumption`, for careful callers (`Careful`) and clusters of more than one sector:

* `ChainsStaySound`: `Spec => []ChainsSound`;
* `ClustersAreNotLost`: `Spec => []NothingLost`.

Neither condition is for the prover's sake: with `Careful` FALSE, or with one sector per
cluster, TLC finds `ChainsSound` violated.  A write through a stale
handle stays in the last cluster while the size goes beyond it, and with one sector per
cluster a seek to a cluster's boundary leaves the handle one cluster behind.
`VolumeAssumption` says that the table has an entry for every cluster and that no
cluster has the number of an end mark; it leaves out 12 bit volumes of more
than 4080 clusters, for `fatEndCluster` takes 0xff0 for an end (`fat.c` 260).

The invariant, `ChainInv`, has three parts.  The cached sector is that of the
disk, since each chain is read through it.  On the disk (`DiskOK`), the chain of every
file that no stop cut short is a path in the table (`IsPath`: links one behind the
other, no cluster twice, an end mark last) which starts at the directory entry and
fits the size; two paths share nothing; and while no call was cut short, the free
entries are those on no path, and FSInfo counts them.  And the handles
(`HandlesOK`): `fatWriteFile` and `fatReadFile` trust the cluster, the sector and the next
cluster a handle remembers, so the chains stay sound only if those are right.  A handle
of a file with a size is at its position (`PlacedHandle`), or a sector off after a
call that ended at a boundary (`StaleHandle`); one of an empty file has no first and no
next cluster, whatever current one the `FATFILE` held before
(`EmptyHandle`).  TLC checked the invariant before it was proved.

Each call is shown to keep the invariant from inside.  Its context is the set of
clusters of the other files; `Safe` says that each disk the call leaves behind, and a stop
may leave any of them, has these and the other entries as they were.  Entries of 12,
16 and 32 bits are read back as written, and beside each other (`EntryValue`,
`EntryClosed`).  `Chained` and `Nuked` are the two steps that change a
path: one more cluster, which is free and so on no path, and none.  The loops
of a seek, a read and a write go along the path: `SeekInsideIs`, `ReadOnIs`, `ExtendIs`
and `WriteDataIs` say where each arrives, also when the volume is full.
The loops are recursive functions with a number of rounds; `ReadOnIs` shows that a read
ends before they are used up.

`FatDirectory_proofs` proves `PiecesAccounted` (`Spec => []NoOrphans`) for any names,
widths, sizes and attributes, in a fixed root or a directory that grows, from
`DirectoryAssumption` (sizes are sizes, names are not empty).  `Sound` says that the
slots are of a kind, that end markers come last, and that a piece lies in a run of as
many pieces as its long name takes, numbered down to 1, all with the checksum of the
short entry right behind (`Owned`).  What is to be shown of each call is that no
run is cut: `FreeSpace` that the slots `findFreeSpaceForLFN` finds or adds are free
and in a row, `PutSound` and `DeleteSound` that a name goes in whole and out whole.
The last is not obvious, because `deleteLFNs` counts slots from where a run starts
and does not look at whose run it is: `FoundRun` shows that this is always a whole run
and the entry behind it, if not always the entry that was looked for (line 1863).  A
rename deletes before it knows of room for the new name; `RestoredSound` covers the way
back.

The same module proves `ShortNamesStayUnique`
(`Spec /\ []ReadsOwnPieces => []ShortNamesUnique`).  `ReadsOwnPieces` says that an entry
whose checksum is that of the piece read last has this piece right in front of it.  It
cannot be left out: where line 1863 makes `fatPosition` take another entry's pieces
for its own, a rename deletes that other entry and leaves the old one beside the new
one, two entries of one file (with "aaaa", "AFZ.Z" and "A", TLC finds this in four
states; in `MCFatDirectory` no state violates `ReadsOwnPieces`).  Under it an entry that
is looked for is the one deleted (`EntryDeleted`), and what remains is that an alias is
new.  `createLFNs` passes over the entries and counts the tail on at each one that has
the name, so a tail may meet an entry it has already passed.
`AliasFresh` counts: the code's tails are ordered by their number of digits and then by
character (`After`, `NextTail`), every pass that does not end it has come behind one more
entry (`OneBehind`), and there are no more entries than slots, which is the number of
passes `checkNumericTail` has.  `GeneratedTailed` shows that `generate83Name` starts
with a tail, for which `NamesAssumption` asks for two characters of space.

Induction comes from the order of the naturals being well founded
(`SetInduction`, `LeastOne`), stated for sets because the theorems of the library
that take a predicate cannot be used.

Only model-checked: that files keep their data (`ImplementsFiles`), that the directory implements `Directory` (a rename that fails
would need the alias to be found again, which the numeric tails and a full root do not
grant for every size), and that task files are read as they were written (`TasksAsWritten`
relates a text to what its author meant by it, which is data of the run).  The digits
`buf__addint` prints for a positive number are within reach but not proved.  Liveness and ENABLED are out of its reach.

## Not modelled

* The interrupt flag of the ports: `Kernel` takes a critical section as one step.
  What `interrupt__enable` and the assembler do around it is at the level of single
  instructions; the hazards name the places.
* Deleting semaphores, mutexes, queues and timers that somebody waits for: what the
  waiters then read is freed memory.
* Jobs: a queue (modelled) and a thread that calls what it receives.
* Of `fat.c`: dates and times, last-access recording, paths through several
  directories, the cluster of a new directory, several handles for one file, a stop
  inside a directory update.
* Of `build.c`: arguments for one platform only and working directories.  Of the
  image: write errors of the host, and copying the files, which is `fat.c` again.
* Device set-up, boot assembly, drawing, the kernel's C library and the folder
  wrapper: their effect is in the hardware or on the host, and they keep no state
  whose consistency could be stated here.
