# Verification of the KolibriOS gccgo SDK runtime

This directory holds TLA+ models of the concurrent core of the repository: the
Go runtime that `platform/abi/` and the KolibriOS files of `stdlib/` give to
programs that gccgo compiles for KolibriOS.  The runtime is not libgo's: its
scheduler, its channels, its semaphores and its collector are written for this
port, in `platform/abi/runtime_gccgo.c` and the headers next to it.  So are the
timers, the signals and the child processes of the standard library, in its
`*_kolibrios.go` files.  They are what the models are about.  TLC checks each
model on a small instance; TLAPS proves the safety properties of all of them for
every instance, and that semaphores, notification lists and channels implement
their abstract specifications.

Contents: [inventory](#inventory), [modules](#modules),
[runs](#runs), [bounds](#bounds), [fairness](#fairness), [proofs](#proofs),
[disagreements with the code](#disagreements-with-the-code),
[what is not modelled](#what-is-not-modelled), [plan](#plan),
[how to run](#how-to-run).

## Inventory

Line numbers without a file are those of `platform/abi/runtime_gccgo.c`.

### The runtime

| Component | State | Operations | What makes it correct |
|---|---|---|---|
| goroutine scheduler (2300-3470, `runtime_panic.h`) | run queue, `runtime_allg`, `runtime_allm`, `runtime_deadg`, `runtime_sleepers` and its count, per-thread registers `curg`, `nextg`, `deadg`, `enqg`, `park_g`; per goroutine `status`, `parking`, `lockedm` | go, yield, park, ready, sleep, exit, lock to a thread, `runtime_schedule`, deadlock scan, thread start and exit | a goroutine is in one place; a wakeup is neither lost nor given twice; a locked goroutine stays on its thread; the deadlock error is raised only for a deadlock; what is queued runs |
| stopping the world (2500-2610, 6080-6110, 7440-7660, `runtime_memstats.h`) | `runtime_world_stopping`, `runtime_world_stopper_tid`, `runtime_world_waiting`, `runtime_m_count`, five spin locks | poll, stop, start; lock with a poll; allocate, collect, read statistics, start and exit a thread | one stopper at a time; a stop succeeds; when it has, nobody else runs |
| sync semaphores (`runtime_sync.h` 1-112) | per bucket a lock and a queue of wait records; the semaphore words | `runtime_Semacquire*`, `runtime_Semrelease` | no release is lost; no token is taken twice; a wait record dies with its call |
| notification lists (`runtime_sync.h` 113-188) | two wrapping ticket counters, a list of wait records | Add, Wait, NotifyOne, NotifyAll | a signal lets the oldest ticket go, a broadcast everybody; who was let go returns |
| channels and select (3474-4340) | ring, indices, `closed`, two queues of wait records, a lock per channel; `select_done`, `select_recvok` per goroutine | send, receive, non-blocking forms, close, select | each call takes effect at one moment, through one case; nobody waits for what is there |
| collected heap and finalizers (900-1500, 6300-7890, `runtime_finalizer.h`) | chunks, allocation bits, central list, tail, empty list, per-thread caches; records of finalizers, their queue, the worker's flags | allocate, link, collect, free, `SetFinalizer`, worker | what can be reached is kept; a slot is in one place; finalizers run for garbage only, users before used |
| memory pool, persistent memory, large objects | pool lists, page index | allocate, free, refill | no address is handed out twice |
| maps (8884-10920) | buckets, directory, iterators | lookup, assign, delete, grow, iterate | an iterator yields each entry that stays exactly once |
| defer, panic, unwinding (7992-8200, `runtime_panic.h`, `go-unwind.c`) | per goroutine chains of defers and panics | defer, panic, recover, Goexit | every deferred call runs once, in reverse order; recover ends the right panic |
| coroutines (3280-3347, `coro_kolibrios.go`) | the partner of a coroutine, its state | create, switch, exit | control is in one of the two at a time |
| timers (`stdlib/time/timer_kolibrios.go`, `sleep.go`, `tick.go`) | `when`, `period`, `active`, a generation number and a mutex per timer; a channel with room for one; a goroutine per arming | start, stop, reset, fire | a stopped timer is silent; each arming fires once or is cancelled once; a ticker keeps its phase |
| signals (`stdlib/os/signal/*.go`) | the table of channels and its counters, the list of channels being stopped, masks of enabled and ignored signals, a dispatch mutex, a wake channel of capacity 1, the console's mode | Notify, Stop, Reset, Ignore, poll, deliver | what was taken is delivered; after Stop nothing comes; an enabled poller is not left asleep; table, counters and console agree |
| child processes (`stdlib/os/process_*_kolibrios.go`, `platform/kos/process_control.go`, 2408-2450, 3102-3217, 6162-6225) | an area of memory that parent and child share, `runtime_allm`, flags of the `Process` | start a thread, publish it, exit; Wait, Kill, Release | once Wait is over nothing of the child runs; a Kill that succeeded is reported; a child is waited for to the end |
| local sockets, process streams (`stdlib/os/pipe_local_kolibrios.go`, `process_streams_kolibrios.go`) | reference-counted descriptors of kernel socket pairs, copying goroutines | clone, read, write and close with polling | the last close frees the descriptor, nobody uses it afterwards |
| thread records (`platform/kos/thread.go`) | a slice of start records without a lock | append before a start, cut after a failure | a failed start removes its own record |
| context switch, types and interfaces, strings, console, DLLs, system calls, libgo bridge | little or none | sequential | conversions are right |

Around the runtime are the network package, SQLite with its file layer, the
user interface, the build tools, the applications and the vendored standard
library.  `PROJECT.json` lists them all.

### How they interact

    Go code --- channels, select --------+
            --- sync.Mutex, Cond, ... ---+-- semaphores, notification lists
            --- time.Sleep               |
                                         v
       runtime_gopark, runtime_ready (handshake on g->parking)
                                         |
                                         v
       runtime_schedule, run queue, idle threads  <-- started, exiting threads
                                         |
       spin locks: each waits for a stopped world to start
                                         |
       collector: stops the world, marks, sweeps, queues finalizers;
       runtime_schedule starts the goroutine that calls them

    timers, signals, process streams: goroutines of their own that sleep, poll
       and send on channels, under sync.Mutex
    parent process --- shared memory, TerminateByIdentifier ---> threads of the
       child, which publish themselves when they enter runtime_allm

Channels, semaphores and notification lists share one pattern: under a lock of
their own they queue a record that lives on the caller's stack, announce the
park, release the lock and switch.  Whoever takes the record out of the queue
calls `runtime_ready`.  `Sched` models that handshake step by step, with the
object reduced to the set `waitq`; the other modules take the handshake as one
step and model the object.

### What is hard about it

- Threads: with `GOMAXPROCS` above 1, or with locked threads, goroutines run in
  parallel, and much of the runtime reads fields of other threads and goroutines
  without a lock (`runtime_find_idle_m`, the deadlock scan, `select_done`).
- Parking: a goroutine is woken while it is still on its way to sleep.
- Stopping the world is cooperative: every lock and every scheduling loop polls.
- Wait records live on stacks and must be gone when their call returns.
- Counters wrap (`runtime_sleepers_count`, the tickets), capacities are 0 or 1.
- An allocation is two critical sections, and a collection may come in between.
- A parent terminates threads of its child wherever they are, with locks held.
- Timers, signals and Wait are told off late: a goroutine that was started,
  or an event that was taken, meets a state that has moved on.

There is no persistence and no unreliable network in these components, so
recovery after a crash and message loss do not occur; the faults there are, a
thread that ends or is terminated at any step, are in `Process`.  The hazards are
listed one by one, each at its line and with the properties that cover it, in
`PROJECT.json`.

## Modules

| Module | What it is |
|---|---|
| `Sched` | the scheduler |
| `SchedInv` | its inductive invariant, in six layers |
| `SchedProofs`, `LossProofs` | the proofs about it: layers 1 to 4; layers 5 and 6 |
| `StopWorld` | stopping the world |
| `AbsSema`, `Sema` | what semaphores promise, the semaphores |
| `LockProofs` | proofs about `Sema` and `StopWorld` |
| `AbsNotify`, `NotifyList`, `WakeProofs` | what notification lists promise, the lists, proofs (with those of `Timer`) |
| `AbsChan`, `Chan`, `ChanProofs` | what channels and select promise, channels, proofs |
| `Heap`, `HeapProofs` | collected heap and finalizers, proofs |
| `Timer` | a timer, a ticker or an AfterFunc |
| `Signals` | package `os/signal` and its poller |
| `Process`, `OsProofs` | the threads of a child process and its parent's calls; proofs of it and of `Signals` |
| `QueueLemmas` | lemmas on sequences used as queues |
| `MCSched`, `MCStop`, `MCSema`, `MCNotify`, `MCChan`, `MCHeap`, `MCTimer`, `MCSignals`, `MCProcess` | instances for TLC: model values, symmetry, the sets of calls |

`PROJECT.json` maps each definition to the lines it translates.  The common
conventions: one action is one access that another thread can observe or one
critical section of a lock; what a thread does to its own state is folded into
the neighbouring step; `pc` (or `at`) is where a thread is in the C function;
an action that ends a call sets it back to "idle", "app" or "run".  Definitions
that begin with `\* Mutant:` are faulty variants that show a property can fail;
nothing else uses them.

### Sched

The variables are the fields of `struct runtime_m` (`reg`, one register per
field and per local of `runtime_schedule`), the fields of a goroutine
(`status`, `parking`, `lockedm`), the lists, and the frames of `runtime_ready`
(`tgt`, `seen`) and `runtime_runq_enqueue` (`cand`).  The value of `pc` is the
next shared access:

| Actions | Code |
|---|---|
| `ReadyLoad`, `ReadyCancel`, `ReadyMark`, `ReadyPend`, `ReadyParked` | `runtime_ready`: load of `parking`, the two compare-and-swaps, the late status write, the enqueue of a fully parked goroutine |
| `EnqueueFind`, `EnqueueHand`, `EnqueuePush` | `runtime_runq_enqueue`: idle thread found, compare-and-swap of its `nextg`, run queue |
| `SchedReap` ... `SchedRun`, `FreeDead`, `Dequeue`, `DequeueNone` | one pass of the loop of `runtime_schedule` |
| `PollDue`, `PollDrop`, `PollDone` | `runtime_poll_sleepers` |
| `ScanBegin`, `ScanRead`, `ScanEnd` | the deadlock scan of the main thread, one goroutine at a time |
| `Go`, `StartLocked`, `SpawnThread`, `SpawnFail`, `SpawnWorker` | `__go_go`, `runtime_kolibri_start_locked`, `runtime_kolibri_set_threads` |
| `Gosched`, `ParkRegister`, `ParkSwitch`, `Sleep`, `Wake`, `Goexit`, `MainReturn`, `ExitThread`, `LockOSThread`, `UnlockOSThread` | what a goroutine may do |
| `MPublish`, `MFirst` | `runtime_m_start` |

Memory is sequentially consistent: the code's accesses are `__atomic` built-ins
or plain aligned words on x86, whose stores the model orders as the code writes
them.  `SchedTake` stands for the exchange of `nextg` and for clearing `park_g` after it
(3387-3390): between the two no other thread can tell them apart.  The register keeps
the goroutine for the next step, where the code has a local, and `Idle` counts a thread
at that step among the idle ones.

### StopWorld

The specification is `WorldSpec`, from `WorldInit` and `WorldNext`.  `at` is where a
thread is in `runtime_poll_world_stop` (check, enter, wait,
leave), `runtime_lock_mutex` (try, held) or `runtime_stop_world` (stop, count,
compare, stopped); `goal` is why.  `Link`, `Register`, `Spawn`, `Create` and
`Exit` are the births and deaths of threads, `Begin` with `Alone` is the
single-thread path of the collector, `Again` is the second collection of
`runtime_force_gc`.  Three kinds of locks are taken by threads that allocate and by
the collector with the world stopped: the pool's, that of a size class
(`central->lock`; one class stands for all, since a thread has the lock of one class
at a time) and that of the fixalloc of page entries.  `NeedChunk` is the allocation that
takes `runtime_persistent_alloc`'s lock inside one of them, for a chunk of the pool,
what is known of the chunk of a class, or a block of entries (`Growing`).  `Index` is
the entry of a large object, under the collector's lock.  `Sweep`, `SweepOn` and
`Swept` are the collector's own use of the three (`Sweeping`).  `doubts` is a history variable: it remembers for each
stopper whether a waiter had yet to leave when the world was stopped ("leaving"),
a thread was starting or was created since ("starting"), another thread stopped
the world at the same time ("rival"), or the call went without the lock while a
thread was starting ("alone").

### Sema and AbsSema

A bucket with a few addresses; `queue` is the list of wait records, `ticket`
and `waiter` the fields of a record and the local of the release.  The abstract
specification has a counter of tokens per address and the set of pending
requests.  The refinement mapping lets an acquire be granted at the moment a
release hands it the token, which is before it wakes.

### NotifyList and AbsNotify

The counters are numbers modulo `2 * Half`, compared by signed difference as the
code does.  The abstract specification is a line of goroutines and the calls of
Signal and Broadcast in progress.  A call takes effect once between its beginning
and its end; it passes without effect (`Pass`) only if everybody who was in line when it
began has been let go by others, which is what the unlocked test of the code
comes to.  In line are those from `Add` on whose ticket has not been passed, linked or
not.  `ahead` is a history variable, who is in line since before each call.

### Chan and AbsChan

All calls are lists of cases: a plain call has one case and its records are not
marked `is_select`.  `Lock` takes the next lock, `TrySend`, `TryRecv`,
`TryNext` and `Decline` are the first pass, `Park` the second, `ResumePlain`,
`ResumeSelect` and `Clean` what follows the wakeup; `WakeTest` and `WakeSet` are
the read and the write of another goroutine's `select_done`.  With `Parallel =
FALSE` goroutines interleave only where they park, as on one thread.  `AbsChan`
is a set of bounded queues on which every call takes effect in one step; `Chan`
implements it with the moment of effect at the buffer access or at the match.

### Heap

A slot is free (in the central's list, in the tail of its current chunk, in an
empty chunk or in a thread's cache), taken (`out`) or linked (`bits`).
`TakeLocal`, `TakeRefill` with `Fill`, and `TakeCentral` are the ways to a slot,
`LowMemory` and `Threshold` the collections an allocation makes before `Link`.
`Collect` is one collection: mark, queue finalizers, sweep, reclaim chunks.
`Mark` and `Reach` are written as least fixed points, not as recursions, so that
the module can be proved about.  `hurt` is a history variable, explained
[below](#disagreements-with-the-code).

### Timer

Every arming (`startTimer`, `resetTimer`, `modTimer`) starts a goroutine
`runTimer`; `runner[g]` is where the goroutine of generation `g` is, `deadline[g]`
what it sleeps to.  A call reads the clock (`Reset`), arms under the mutex
(`Arm`) and starts the goroutine (`Go`), and other calls and the goroutines of
earlier generations come in between.  `Check`, `Late` and `Fire` are the critical
sections of `runTimer`; the clock ticks whenever it likes, so that a goroutine may
wake any number of periods late.  `arms`, `fired`, `cancelled`, `quiet`, `taken`
and `start` are history variables of the properties.

### Signals

`handlers.Mutex` (`lock`) is held over several steps, since the poller reads the
masks without it; `nativeSignals.Mutex` is folded into single steps, and
`nativeSignalDispatch` is `Dispatching`, the places of the poller between `Begin`
and `EndRound`.  `Stop` takes the channel out of the table, `Drop` lowers the
counters one signal at a time, `List`, `Barrier` and `Forget` are its way through
the list of channels being stopped.  The constant `First` says which signal a
goroutine names first: Notify, Reset and Ignore take the signals in the caller's order,
Stop takes them by their numbers.  A channel has room for one signal: it is in
`full` or not.  Which signal lies there is left out, since nobody who sends looks at
it: an interrupt for a channel that holds another signal is dropped by `process`, and
`TakenDelivered` asks for a signal in the channel, whichever it is.  Of the console's size
only `resized` matters, that it is not the one the poller measured last.  `owed` holds
the channels that wanted an interrupt when the poller took it.

### Process

The child's threads go from "new" (created, unknown to all lists) over the two lists
of `runtime_m_start` and the shared area to "run"; one that was terminated is a
"zombie" until the kernel frees its slot.  `held` says who has the two locks a
starting thread takes, `runtime_sched_lock` in `runtime_allg_add` and `runtime_m_lock` in
`runtime_allm_add`; running threads take them too (`Queue`, `Count`, `Uncount`,
`Leave`, `ExitLock`).  `stopper` is who has stopped the world (`Collect`): a lock that is asked for
meanwhile is waited for (`Halted`).  Creating a thread may fail (`CreateFails`).  `stop` is word 0 of the shared area, `word` the
workers in it.  `Kill*` and `Wait*` are the loops of the parent, slot by slot;
`Fault` ends a thread outside the runtime's view; `Exit` to `ExitSelf` are
`runtime_exit_process`, which passes the list once (`sweep`).  Termination may strike a
thread with a lock held or the world stopped.

## Runs

| Run | Checks | Instance | Distinct states |
|---|---|---|---|
| `SchedOne` | `NoLostGoroutine`, `NoFalseDeadlock`, `QueuedRuns`, `SleeperRuns` | 1 thread, 3 goroutines | 22 000 |
| `SchedTwo` | `SingleOwner`, `ParkHandshake`, `LockedStaysHome`, `LostOnlyThere` | 2 threads, 2 goroutines | 201 000 |
| `StopTheWorld` | `OneStopper`, `SettledStop`, `CollectionFinishes` | 2 running threads, 1 that may start | 675 000 |
| `SemaBucket` | `NoLostRelease`, `StackRecords`, `Promise` | 3 goroutines, 1 caller without one, 2 addresses | 518 000 |
| `NotifyLine` | `StackRecords`, `Promise` | 3 goroutines, 8 tickets | 39 000 |
| `ChanPlain` | `NobodyWaitsInVain`, `SendsDelivered`, `Atomic` | 3 goroutines, 1 channel, capacity 0, 1 or 2 | 481 000 |
| `ChanSelect` | `RecordsOfCalls`, `CallsDecide`, `Promise` | 2 goroutines, 2 channels, capacity 0 or 1 | 149 000 |
| `HeapGC` | `LiveKept`, `OnePlace`, `FinalizersWanted`, `FinalizedInOrder`, `GarbageGone` | 2 threads, 3 slots in 2 chunks | 176 000 |
| `Timer` | `Accounted`, `DrainReady`, `InPhase`, `StopHolds`, `Fires` | 2 users, 3 armings or stops, clock to 4 | 414 000 |
| `Signals` | `InStep`, `TakenDelivered`, `StopSilent`, `PendingTaken` | 2 goroutines, 2 channels, 3 calls | 422 000 |
| `ChildProcess` | `NoneRuns`, `KillTold`, `StartingExits`, `Reaped` | main thread and 2 workers, one Wait or Release, any number of Kills | 501 000 |

The type invariants are part of the inductive invariants and proved with them.

The properties are stated in words above their definitions.  The ones that
carry most:

- `ParkHandshake`: whoever may still be woken is announced, committed or fully
  parked, and the parking word says which.  From it follows that a wakeup makes
  neither a second copy of a goroutine nor none.
- `LostOnlyThere`: a goroutine that a thread holds, that is queued or that somebody
  may wake stays so until it ends, except at five steps that undo what another
  thread has done.  Without any one of the five, or of the three ways to end,
  `SchedTwo` violates it: each of them happens.
- `NoLostRelease`: while somebody is queued for an address, every token there
  is matched by a call that will notice it.
- `Promise` and `Atomic`: the component implements its abstract specification.
  `Promise` includes the abstract fairness.
- `CallsDecide`: the locks of selects that name channels in opposite orders do
  not hold each other up.
- `LiveKept`, `GarbageGone`, `FinalizedInOrder`: the collector keeps what can be
  reached, two collections leave nothing else, and no finalizer is queued for
  an object that something needs.
- `Accounted`: what Stop and Reset return adds up with what was fired, over any
  interleaving of calls and goroutines of several armings.
- `TakenDelivered`, `StopSilent`: between them they say what Stop's list and
  barrier are for.
- `NoneRuns`, `StartingExits`: the handshake of a worker that publishes itself
  and then looks at the word to stop, with a parent that writes the word and then
  looks for workers.

One run is expected to fail (`VMatchedOnce`: 3 goroutines on several threads, 2
channels); see [below](#disagreements-with-the-code).

### Bounds

- `SchedOne` has the smallest run queue in which order matters, and a goroutine
  each to run, to sleep and to wait.  `SchedTwo` has one waker and one parker,
  the parties of the handshake, with a thread to start and to exit.  Goroutines
  are freed and reused, so two of them stand for any number over time.
- `StopTheWorld`: one of two running threads waits for a lock whose holder waits
  for the world, and a third thread starts meanwhile.  More threads only repeat
  the roles.  The constant `Asks` bounds what a thread asks for by itself: the main
  thread for everything, the workers for a part of it each (all of them collect,
  read statistics and poll).  The properties were checked without that bound too,
  over 1.1 million states.
- `MaxTokens = 2` in `SemaBucket` lets a barging caller meet a handed-off token;
  two addresses are the least for a collision.
- `Half = 4` gives 8 tickets to 3 goroutines: the counters wrap while the bound
  the code relies on (nobody lags `Half` tickets, `InWindow`) is respected.  With
  a fourth goroutine, one that is still in a notifier's chain can see the counters
  pass its ticket and come back to it; the refinement was checked with four
  (without fairness, 1.4 million states), and its proof is for any number.
- `ChanPlain`: capacity 0 has no buffer, 1 is full with one value, 2 wraps.
  `ChanSelect` has every crossing of two selects; that a third goroutine breaks
  `MatchedOnce` is the finding of `VMatchedOnce`.
- `HeapGC`: one chunk with two slots (partly used chunks, tails) and one with a
  single slot (chunks that become empty); `LocalCap = 1` and `EmptyKeep = 1` so
  that caches fill and chunks are kept and given back; `MaxObjects` and
  `MaxRecords` are 2, so that an object with a finalizer can refer to another.
- `Timer`: `MaxGen = 3` is an arming and two more calls that move the generation
  on, so that the goroutine of the first meets a timer that was stopped and armed
  again.  The period of the ticker is 2 and the clock runs to 4, so that a tick can
  be missed; `MaxInt = 6` is within reach of clock and delay, so that the clamp
  happens.  The proofs are for all values.
- `Signals`: `MaxCalls = 3` is a Notify, a Stop and a third call that meets it.
  One goroutine names SIGINT first and the other SIGWINCH.
  Two Stops of one channel need a fourth and a fifth call; the safety properties have
  been checked with 5 calls too (14 million states).
- `ChildProcess`: two workers, of which one starts while the other holds a lock, has
  stopped the world or is being terminated; a worker can start the other.

Symmetry is used where no liveness is checked and the model values are
interchangeable (goroutines of `ChanPlain` and `VMatchedOnce`, slots of chunks
of equal size in `HeapGC`).

Deadlock checking is off where the system may really stop: all callers may wait
for one another (`SemaBucket`, `NotifyLine`, channel runs), all threads may have
exited or be stuck behind a lock of the allocator (`StopTheWorld`), calls are used up or
the child is gone (`Signals`, `ChildProcess`), clock and armings have reached
their bounds (`Timer`), or the model ends (`failed` in `Chan`, `hurt` in `Heap`).
`Sched` marks the end of the process with the action `Ended`, and its runs check
for deadlock.

### Fairness

- `Sched`: weak fairness of each thread's steps: KolibriOS schedules threads
  preemptively.  Strong fairness of leaving the thread (`Gosched` or `Goexit`):
  goroutines are scheduled cooperatively, so a goroutine that never gives up its
  thread starves the others, and the liveness properties are about programs
  without one.  Strong fairness of `PollDue`: deadlines pass, and polls are
  repeated.
- `StopWorld`: weak fairness of each thread's next call or step.  This says that
  running Go code comes to a poll, a lock or an allocation at some time; the
  code polls nowhere else, so it is an assumption on programs.
- `Sema`, `NotifyList`: weak fairness of the steps of a call in progress, and
  none on beginning a call.  It rests on `QueuedRuns`: the scheduler runs every
  runnable goroutine.
- `Chan`: strong fairness of the steps of a call in progress.  The steps include
  taking a spin lock, which other goroutines take and release meanwhile; a
  spinning thread is assumed to get it in the end.
- `Timer`: weak fairness of the clock, of starting the goroutine, and of each
  goroutine's steps, which only take a mutex for a moment.
- `Signals`: weak fairness of the poller and of the steps of a call in progress;
  none on beginning a call, pressing Ctrl-C or receiving.
- `Process`: weak fairness of the loops of the parent, of what a thread of the
  child does without being asked (starting, giving back a lock, exiting, being removed),
  and none on `Queue`, `Collect`, `Collected`, `Spawn`, `Leave`, `Fault`, `Exit` and the
  parent's calls.  A thread that waits
  for a lock somebody was terminated with waits for ever, fairness or not.

## Proofs

TLAPS checks about 29 000 obligations.  What is proved holds for every value
of the constants that satisfies the named assumptions (`SchedAssumption`,
`StopWorldAssumption`, `SemaAssumption`, `NotifyAssumption`, `ChanAssumption`,
`HeapAssumption`, `TimerAssumption`, `SignalsAssumption`, `ProcessAssumption`),
which only say that sets are finite and disjoint where they have to be, that
chunks share no slot, that there are no more goroutines than half the tickets,
that a select has no close among its cases and any other call has one case, and
that a ticker's period is positive.  Two groups of results have a hypothesis more,
because without it they are false: `M = {M0}` (a single thread) for
`NothingLost` and `DeadlocksAreReal` of the scheduler, and `OneThreadOrPlain`
(several threads, or selects, but not both) for the channels, with `SendsDelivered`
for plain calls; the counterexamples are
[below](#disagreements-with-the-code).

| Theorem | Statement |
|---|---|
| `SchedProofs!SchedInvariant` | `Spec => []IndInv` |
| `SchedProofs!TypeInvariant` | `Spec => []TypeOK`; with it, `runtime_sleepers_count` never drops below zero |
| `SchedProofs!OneOwner` | `Spec => []SingleOwner` |
| `SchedProofs!Handshake` | `Spec => []ParkHandshake` |
| `SchedProofs!LockedHome` | `Spec => []LockedStaysHome` |
| `SchedProofs!SleeperCount` | `Spec => []SleepersCounted` (of `SchedInv`, layer 4) |
| `LossProofs!LoneInvariant` | `M = {M0}` implies `Spec => []LoneInv` |
| `LossProofs!NothingLost`, `DeadlocksAreReal` | with `M = {M0}`: `NoLostGoroutine`, `NoFalseDeadlock` |
| `LossProofs!LossInvariant` | `Spec => []LossInv` |
| `LossProofs!LossesAreNamed` | `Spec => LostOnlyThere`, for any number of threads |
| `LockProofs!StopInvariant`, `StopTypes` | the inductive invariant of stopping the world, and its types |
| `LockProofs!SingleStopper`, `OthersWait` | `OneStopper`, `SettledStop` |
| `LockProofs!SemaInvariant` | the inductive invariant of the semaphores |
| `LockProofs!SemaTypes`, `ReleasesKept`, `RecordsOutlived` | `TypeOK`, `NoLostRelease`, `StackRecords` |
| `LockProofs!Implements` | each behaviour of the semaphores is one of `AbsSema!AbsSpec` |
| `WakeProofs!NotifyInvariant`, `NotifyTypes` | the inductive invariant of the notification lists, and their types |
| `WakeProofs!RecordsOnStacks` | `StackRecords` |
| `WakeProofs!TicketsInLine` | `LineInv`: the goroutines in line, linked or not, hold the tickets from `notify` up to `wait`, one each (nothing of the order of the list) |
| `WakeProofs!ListImplementsLine` | each behaviour of the notification lists is one of `AbsNotify!AbsSpec` |
| `ChanProofs!ChanInvariant`, `ChanTypes` | the inductive invariant of channels, and their types |
| `ChanProofs!ChanNobodyWaitsInVain`, `ChanRecordsOfCalls`, `ChanSendsDelivered`, `ChanMatchedOnce` | `NobodyWaitsInVain`, `RecordsOfCalls`, `SendsDelivered`, `MatchedOnce` |
| `ChanProofs!ChanAtomic` | `Atomic`: each behaviour of the channels is one of `AbsChan!AbsSpec` |
| `HeapProofs!HeapInvariant`, `HeapTypes` | the inductive invariant of the heap, and its types |
| `HeapProofs!LiveObjects`, `SlotsOnePlace`, `FinalizersKnown` | `LiveKept`, `OnePlace`, `FinalizersWanted` |
| `HeapProofs!FinalizersInOrder`, `NoGarbage` | `FinalizedInOrder`, `GarbageGone` |
| `WakeProofs!TimerInvariant`, `TimerTypes` | the inductive invariant of the timer, and its types |
| `WakeProofs!TimerAccounts`, `TimerDrains`, `StoppedIsSilent`, `TickerInPhase` | `Accounted`, `DrainReady`, `StopHolds`, `InPhase` |
| `OsProofs!SignalsInvariant`, `SignalsTypes` | the inductive invariant of `os/signal`, and its types |
| `OsProofs!SignalsInStep`, `SignalsDelivered`, `SignalsStopSilent` | `InStep`, `TakenDelivered`, `StopSilent` |
| `OsProofs!ProcessInvariant`, `ProcessTypes` | the inductive invariant of a child process, and its types |
| `OsProofs!NobodyRuns`, `KillReported` | `NoneRuns`, `KillTold` |

**Scheduler.**  None of the properties is inductive by itself.  `SchedInv`
strengthens them in layers.  Layer 1 has the types and which register a program
counter relies on (`Filled`).  Layer 2 is the heart: `SingleOwner` and
`ParkHandshake` need each other, and need that the right to wake a goroutine is
held once (`OneWaker`), that the copy of the parking word in `runtime_ready` is
still good enough for the branch it chooses (`SeenIsSafe`), and that dead and
freed goroutines are nowhere else (`GoneForGood`).  Layer 3 says where a locked
goroutine may be on its way back to its thread; in the step between
`runtime_find_idle_m` and the compare-and-swap the goroutine must not be locked.
Layer 4 ties `runtime_sleepers_count` to the polls that have unlinked a sleeper
and not yet dropped the count (`SleepersCounted`); between unlinking and readying a
sleeper only that count keeps the deadlock scan from ending the process.  Each
layer has one lemma per action.

Layer 5 is about a program with one thread.  `NoLostGoroutine` and
`NoFalseDeadlock` fail with two, so `M = {M0}` is the weakest hypothesis there is
for them.  With it the branches of the handshake for a goroutine that is still on
its way to sleep are never taken, which registers are in use follows from where the
thread is (`LoneRegs`), and where a goroutine is from its status (`ByStatus`).  The
deadlock scan reads one goroutine at a time, but nothing runs meanwhile: whoever it
has passed is asleep still (`ScanSees`), and a goroutine that can run is either
ahead of it or among what it has found.

Layer 6 is about any number of threads again, where goroutines do get lost, and says
what `LostOnlyThere` needs to show that it happens at five steps only: a thread exits
with a goroutine handed to it (`ExitThread`) or is handed one after that
(`EnqueueHand`), a thread that starts overwrites one (`MFirst`), and the late status
write of a cancelled park makes a waiting goroutine look awake to whoever should
queue it (`ReadyParked`, `SchedWake`).  No other step overwrites a register that holds
a goroutine, because each register is in use at a few places only (`RegsInUse`);
whoever goes to sleep is announced to somebody, or has its wakeup already
(`WakeOwed`); and no waker takes a pending wakeup that is not his own for it
(`WakerKnows`).  With these, every step takes a goroutine from one place to another.

**Semaphores.**  The invariant adds to `NoLostRelease` that the records in the
queue are distinct and parked, that each has an address, and that each unlinked
waiter has one releaser.  The count of noticing calls changes by at most one in a
step; the lemmas on cardinalities say how.

**Stopping the world.**  `Fits` says where a thread can be with what it is after,
`LockInv` which locks it has, and `CountInv` that `runtime_world_waiting` is the
number of threads in the wait or on their way out of it; the lock of the page entries
is held inside a call that has the collector's lock or was alone.  `OneStopper` rests on
`GuardInv`: a stopper holds the lock of the collector, was the only thread, or is
marked "alone".  `SettledStop` rests on `StopInv`, which follows a stop that nothing
came in between from its first write: nobody else stops the world, nobody is
starting or leaving, and the count that was read is at most the count now; when
it is large enough, those who wait are all the other threads, by counting.

**Notification lists.**  `Lines`: the list and the chains of the notifiers are
pairwise without a common goroutine, without duplicates, and all parked.  For the
refinement, `LineInv` says that the goroutines in line hold exactly the tickets from
`notify` up to `wait`, each one of them: the k-th in line has the ticket
`notify + k`, whether its record is linked or not.  A signal then lets the first one
go, whom `runtime_notifyListNotifyOne` finds by its ticket wherever it is in the
list, and a broadcast everybody, those included whose record is not linked yet.
`AheadInv` follows a call through its unlocked test: those who were in line when it
began hold tickets before the value of `wait` it has read, so none of them is left
when `notify` has come there.  All of it is arithmetic on a clock, done in a handful of lemmas.  That the
difference of the counters stays below `Half`, so that the comparison by sign means
what it should, follows by counting: there is a goroutine for each ticket.

**Channels.**  The invariant says which locks a call has (`LockInv`), that a wait
record is of a case of a call that waits and nobody has taken (`RecordInv`), that a
waker and its record have left all queues (`WakeInv`), how indices and count of the
ring agree (`RingInv`), and what the first pass of a call has established:
the cases it has tried still cannot proceed (`TriedInv`), since it holds the locks
of all its channels.  Whoever waits, waits for something (`WaitersInv`); while a
close is under way the waiters it has not come to are excused.  For `ChanAtomic` each
action is shown to be one step of `AbsChan` or none; the moments of effect are the
access to the buffer, the match with a waiter, the close, and the end of a call that
declines.  `OneThreadOrPlain` is used in one place only: a partner that was found in a
queue has not been taken by somebody else between the test of `select_done` and its
write.

**Collector.**  The invariant says that each slot is in one of its places
(`Placed`), that variables, objects and records refer to linked objects only
(`Closed`), and that a thread in the middle of an allocation has the slot it took
(`Phase`).  `Placed` and `Closed` hold up to the first collection that reclaims a
chunk with a taken slot (`hurt`).  `Mark` is an intersection of closed sets, so
that it has its roots and is closed under references itself, without induction;
what the program needs is then inside what a collection traces.  For `NoGarbage` two
collections in a row are compared.

**Timers.**  `PeriodInv`: only tickers have a period, the one that is about to be
armed included.  `StopInv`: a timer that was told to be quiet is not active.  With
the types these make `Accounted` and `DrainReady` inductive, and `StopHolds`
follows, since only an active timer fires.  A ticker's next deadline is whole periods
after its first, at least as many as it has ticked, and the last tick was not early
(`PhaseInv`), unless the deadline was clamped and can never come.

**Signals.**  While a call holds the mutex, table, counters and masks differ by what
the call is about: a signal that is marked and not counted (`Opening`), or counted and
not marked any more (`Closing`).  `CountInv` and `EnabledInv` say how much they differ,
and that they agree otherwise, up to a panic.  `ListInv` counts: for each channel
there are as many entries in the list of channels being stopped as calls of Stop
that will take one off; a Stop whose channel no other Stop met finds its own
(`OwnEntry`), and until then the poller finds the channel there (`OwedInv`).

**Child processes.**  `StopInv` is the handshake: a thread that has looked at the
word to stop before it was written is in the shared area by then, so that the
scan, which comes after the write, finds it.  `KillInv` follows `nativeKilled`
through the mutex that Kill holds while it terminates.

**Queues.**  `QueueLemmas` states once what appending, prepending and removing
an element does to the members of a sequence, by index, without induction.

Only model-checked: the liveness properties (`QueuedRuns`, `SleeperRuns`,
`CollectionFinishes`, `CallsDecide`, `Fires`, `PendingTaken`, `StartingExits`,
`Reaped`) and the fairness that is part of `Promise` in `SemaBucket`, `NotifyLine` and
`ChanSelect`: temporal reasoning with fairness needs `ENABLED`, which the prover
does not have.  The steps of all three refinements are proved.  Recursive
definitions do not occur in the modules, and the library's induction theorems are
not used: where an argument needs a least element of a set of numbers,
`LeastNatural` of `QueueLemmas` gives it.

## Disagreements with the code

One run is there to show behaviour that differs from what the repository says:

- `VMatchedOnce`: `select_done` is tested and set with plain accesses, under the
  lock of one channel (3623).  Two partners on two channels of one select can
  both pass the test; one value is lost or given twice.

Others were met while modelling.  They are listed among the hazards, and the
checked properties name them as exceptions or are checked where they do not
arise.

In the scheduler:

- `runtime_m_start` publishes the thread (3082) before it stores its first
  goroutine in `nextg` (3091).  A goroutine handed over in between (2647) is
  overwritten and never runs.  `NoLostGoroutine` fails for `Sched` with
  `M = {M0, m1}`, `G = {Main, g1, g2}` and `Workers = {}`.  `LostOnlyThere` names this
  step and four others that drop a goroutine when a thread starts, ends or parks.
- `NoFalseDeadlock` fails with two threads: the scan can read a goroutine after
  its thread has taken the pending wakeup out of the parking word (3394) and
  before it has written the status (3397).
- `runtime_ready` writes the status after the compare-and-swap that cancels the
  park (2821); by then the goroutine may have parked again or be dead.

In stopping the world:

- A stop counts waiters that have not yet left the wait of the previous one
  ("leaving", 2560) and threads that wait in `runtime_allg_add` before they are
  counted as threads ("starting", 2531).  `SettledStop` is about all other
  stops.
- `OneStopper` fails when a thread starts: the test for a single thread is not
  repeated under a lock (7574, "alone").
- A thread that holds `runtime_pool_lock` (1789), the lock of a size class (1087) or
  that of the fixalloc of page entries (753) may wait for the world to start inside
  `runtime_persistent_alloc` (683), while the collector that stopped the world spins
  for the same lock (7549, 959, 918).  `CollectionFinishes` names it `Blocked`.

In the collector:

- A collection takes a chunk for empty although a slot of it has been taken by
  an allocation that is about to link it (1427-1438, and 1002-1018 when the
  chunk is used again).  This happens on one thread too, when the first
  allocation of a chunk starts a collection.  The live object is then handed
  out a second time.  `Heap` remembers it in `hurt` and stops there;
  `LiveKept` and `OnePlace` say what holds up to that point.

In semaphores, lists and channels:

- A signal of a notification list that does not hold the waiters' lock may find
  the two counters equal although somebody is in line (`runtime_sync.h` 164).
- A select that waits to send and is woken by a close returns the send as done
  (4301); `AbsChan` calls this `Refuse`.

In `os/signal`:

- "When Stop returns, it is guaranteed that c will receive no more signals"
  (`signal.go` 179) does not hold for the second of two overlapping Stops of one
  channel, which finds it gone from the table and returns at once.
- Of two overlapping Stops of one channel, with a Notify between them, each
  takes the first entry of that channel off the list (218-222), which may be the
  other's: an interrupt the poller has taken then misses the channel
  (`TakenDelivered`, exception `crossed`).
- Where the comment in Stop wants a signal delivered or its default action taken,
  `disableSignal` takes the console's interrupts and drops them
  (`signal_kolibrios.go` 59).
- `enableSignal` panics when the console refuses its mode (43), after Notify has
  set the channel's mask and before it has counted it.  `InStep` names it
  `failed`.

In child processes:

- "An in-flight spawn therefore exits itself as well"
  (`process_control_kolibrios.go` 68-69) fails if the parent has terminated a
  thread that held `runtime_sched_lock` or `runtime_m_lock`, for which the new thread
  spins before it looks at the word to stop, or a thread that had stopped the
  world, for which it polls (`StartingExits`, exception `Stuck`).
- `runtime_exit_process` (6162) does not terminate threads that are being created
  or have not entered `runtime_m_by_slot`; they are found by the parent's Wait.
  It terminates by slot number, which may have been given to another process's
  thread since (6171).
- A Release between the compare-and-swap of Wait (`process_start_kolibrios.go` 157)
  and its reading of `Pid` makes that Wait return EINVAL, and nobody waits for
  the child (`Reaped`, exception `invalid`).

## What is not modelled

- In the scheduler: context switch and stacks, tracing, the exit of a worker
  whose main thread died.  A goroutine's address is used again when it is free; that
  of main.main, should main end by Goexit, is not (the name `Main` stays with it).
- In stopping the world: saved stack pointers, `runtime_m_pending`, a failing
  `malloc` when a thread is started.
- In channels: nil channels, the cache of wait records, the size checks of
  `makechan`, panics (misuse of a closed channel ends the process).
- In the heap: large objects and their index, the tiny allocator, the fallback
  allocator, maps' scan functions, conservative scanning (the model knows what
  is a pointer; the collector may keep more), the accounting that decides when
  to collect (in the model, any time).
- In timers: the panics for timers that were not made by `NewTimer`, a generation
  number that wraps around after 2^64 armings.
- In signals: `NotifyContext`, `Ignored`, a console that is replaced by another
  while the program runs.
- In child processes: the status file, the streams, the parent's memory area
  beyond its words, slots that are used again by other processes, and of the
  child's locks those a starting thread does not need.  The accesses
  to the shared words are sequentially consistent in the model, which the
  handshake of `StopInv` needs.
- The pool and the persistent allocator, maps, panics, coroutines, local sockets
  and thread records: planned, see below.
- Types, interfaces, strings, printing, DLL and system call wrappers, the
  libgo bridge, start-up and assembly: sequential, with little state.
- Network, SQLite, user interface, applications, build tools, vendored code:
  clients of the runtime, or not part of it.

The repository has more than 400 000 lines, most of them upstream library code,
generated tables and applications.  The lines the models map are those of the
port's own runtime, a small share of that.

## Plan

Done, in this order: `Sched` with its proofs; `AbsSema`, `Sema`, with proofs and
refinement; `AbsNotify`, `NotifyList`; `AbsChan`, `Chan`; `StopWorld`; `Heap`, then
its proofs; `Timer`, `Signals` and `Process`; the proofs of all of these; the
scheduler with one thread; the refinements of `AbsNotify` and `AbsChan`; the places
where the scheduler with several threads loses a goroutine.

Next modules:

1. `GoMap`: the maps of 8884-10920, growth and deletion under iteration, with an
   abstract map as its promise (an entry that stays is yielded once, one that
   is deleted before it is reached is not).
2. `Panic`: chains of deferred calls and panics, nested panics, recover, Goexit.
3. `Coroutine`: switches that pass the thread on without the run queue.
4. `Pool`: global and per-thread lists, and the persistent allocator.
5. `LocalStream`: reference-counted descriptors with polling readers.

Composition: `Chan` over the steps of `Sched` (park and ready as the handshake
instead of one step) for a single channel; `Heap` with the steps of `StopWorld`.

Next theorems: that a deadlock scan with several threads is wrong only when it reads
a goroutine between the two steps named under
[disagreements](#disagreements-with-the-code); for `StopWorld`, the order in which
the allocator's locks and the world are taken; `StartingExits` as a safety property.

## How to run

    tlc -workers 2 -config SchedTwo.cfg MCSched
    tlapm SchedProofs.tla

Each run ends in about three minutes on two workers, the smaller ones sooner.  A module's proofs cite the
theorems of the modules it extends by name and do not repeat their proofs: run
`tlapm` on `QueueLemmas`, `SchedProofs`, `LossProofs`, `LockProofs`, `WakeProofs`,
`ChanProofs`, `HeapProofs` and `OsProofs`.  `SchedProofs` takes about a quarter of an
hour, the others some minutes.  `LockProofs`, `WakeProofs` and `OsProofs` are about
two components each; where both have a definition of one name (`Spec`, `TypeOK`,
`Next`, ...), those of `StopWorld`, `Timer` and `Signals` are called `WorldSpec`,
`TimerSpec`, `SignalsSpec` and so on.
