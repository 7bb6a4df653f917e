# A TLA+ verification of Accelerated-Computing

The repository is a collection of about 150 small, mostly independent C++, C,
OpenCL and CUDA programs about concurrency (7588 lines, no test suite). Each
program is its own system: the components below share no state across files,
except for the data structures under `Concurrency & Parallelism/Data
Structures/`, where two thread pools and a queue test are built on one
`concurrent_queue`. That cluster, the lock-free queue and the TTL cache are the
code with the most states and the least obvious correctness, and have modules of
their own. The other programs, of one screen each, run on one common machine of
threads, mutexes and condition variables: 104 of them, from 72 lines of OpenCL to
three lines of OpenMP.

Paths are relative to `src/`; C&P is `Concurrency & Parallelism/`.

## Layout

| Module | What it is |
|---|---|
| `ConcurrentQueue` | the operations of `concurrent_queue<T>`, conjoined by its users; no behaviour of its own |
| `FifoQueue` | abstract: a first-in first-out buffer that may be bounded and closed |
| `QueueClients` | writers, readers and a closer on one queue; refines `FifoQueue` |
| `TaskPool` | abstract: what both thread pools promise of a task |
| `SingleQueuePool` | the pool with one shared queue; refines `TaskPool` |
| `MultiQueuePool` | the work-stealing pool; refines `TaskPool` |
| `LockFreeQueue` | the Michael-Scott style queue; refines `FifoQueue` |
| `TTLMap` | abstract: a map whose entries vanish when their time is over |
| `TTLCache` | the cache of `TTL_Caching.cpp` and the threads of its `main()`; refines `TTLMap` |
| `Threads` | the machine of the demonstration programs: numbered lines, mutexes, condition variables, memory |
| `LockPrograms` | philosophers, deadlock and livelock, scoped, timed, shared and recursive locks, the barrier |
| `MonitorPrograms` | semaphore, monitor, conditions under a mutex, latch, thread-safe queue and stack |
| `EventPrograms` | programs with atomics: lazy initialisation, events, spin lock, counters, lock-free stack |
| `FuturePrograms` | promises, futures, tasks and coroutine generators |
| `SchedulerPrograms` | the job scheduler of jthreads with stop tokens |
| `KernelPrograms` | OpenCL and CUDA kernels with their hosts, the GPU execution policies |
| `DataPrograms` | parallel sorts, sums and the sieve, OpenMP loops, two data races |
| `Demonstrations` | all of these programs together, and what is claimed of them |
| `MC...` | the same modules with their derived constants spelled out for TLC |
| `ConcurrentQueueProofs` | what every step of a queue preserves, as lemmas |
| `QueueClientsProofs`, `SingleQueuePoolProofs`, `MultiQueuePoolProofs`, `LockFreeQueueProofs`, `TTLCacheProofs` | theorems about the five specifications, their refinements included |
| `DemonstrationsProofs` | theorems about the locks of the demonstration programs, and what they keep apart, make once, order, hand over, deliver and count |
| `KernelProofs` | theorems about the types of all demonstration programs, the elements the items of a launch write, and the results of the kernels |

Each `.cfg` is a run; `PROJECT.json` lists runs, properties, the code each
definition models, the mutants that show each property can fail, hazards and
theorems. `tlc -config X.cfg M` checks a run and `tlapm M.tla` a proof module.

## The system's parts

### Modelled

**`concurrent_queue`** (C&P`Data Structures/concurrent_queue.h`). State: the
`std::queue`, `capacity`, `closed`, one mutex and *one* condition variable on
which both an empty `pop()` and a full `push()` sleep. Operations: `push`,
`pop`, `try_pop`, `empty`, `close`. Hard: `push` notifies after it has
unlocked; wake-ups may be spurious or hit the wrong sleeper; `close` overtakes
sleepers; `pop` notifies nobody. Correct when: FIFO, never over capacity, no
sleeper beside an element nobody comes for, `close` ends everybody and loses
nothing that was accepted.

In the model one step is what a call does between taking the mutex and giving
it up: returning, unlocking, or going to sleep. `waiting[k]` is the wait set of
the condition variable, `resuming[k]` the threads that have left it and must
still retake the mutex, `notifying[k]` the pushers between `unlock()` and
`notify_one()`, and `parked[t]` the argument of a push that sleeps. A woken
thread re-evaluates its predicate because `PushBlock` and `PopBlock` are enabled
for a resuming thread too. The module covers a family of queues, since the
second pool has one a worker.

**Queue test** (C&P`Data Structures/main.cpp` 26-52, 78-87). `writer()` and
`reader()`, in any number, and a thread that may call `close()`, as any owner of
the queue may. A reader may also use `try_pop()`. A call that throws ends its
thread. Pauses are left out: every interleaving is allowed.

**Single-queue pool** (C&P`Data Structures/thread_pool.cpp`,
`single_queue_thread_pool.h`). State: the work queue, the threads, the atomic
`stopping`. `worker()` pops, looks at `stopping`, runs. `submit()` looks at
`stopping` and pushes *later*. The destructor sets `stopping`, pushes
`thread_count` empty functions and joins. Hard: submissions that overlap the
destructor (by running tasks), workers that take each other's dummies and late
tasks. Correct when: a task starts at most once; in a pool that is not stopped,
every accepted task runs; the destructor returns.

**Multi-queue pool** (C&P`Data Structures/multi_queue_thread_pool.cpp`, `.h`).
A queue for each worker; an idle worker tries its own queue, then each other one
from a random start, then sleeps on its own. `submit()` picks queues in turn.
The destructor pushes one dummy to each queue. The counter `next` is kept modulo
`thread_count`: its wrap at 2^32 only changes which queue comes next. `Awaiting`
holds tasks that return only after all others, as the last task of main.cpp
71-77 does. `robbed` is a history variable: the workers whose dummy a thief took.

**Lock-free queue** (`Atomics/Lock Free Programming/Data
Structures/lock_free_queue.cc`). `head`, `tail` and a linked list with a
sentinel; `produce()`, `consume()`, the destructor. One step per access to a
shared location; `pc` names the source line the thread is at. A weak
compare-and-swap may fail for no reason. `emptied` is a history variable: the
consumers during whose current call the queue has been empty at some instant.
Two abstractions: memory is sequentially consistent (the code uses
acquire/release on single locations), and a deleted node keeps its contents and
its address is not reused. The second is the mildest outcome of the use after
free the run `lock_free_reclaim` finds, so the passing run says what holds
*apart from* that defect. It does not show absence of ABA.

**TTL cache** (C&P`TTL_Caching.cpp`). State: the map with each entry's expiry
time, one mutex and one condition variable, the flag `cleanup_running`. `put()`
stores and notifies all; `get()` erases an expired entry on its way;
`wait_for_key()` sleeps up to a deadline; `cleanup_expired()` sweeps. Hard: three
places that compare with the expiry time, waits woken for other keys, entries
that expire between two steps of a consumer. Correct when: it behaves as a map
whose entries vanish by themselves; nobody sleeps beside what it wants; waits end
at their deadline; all threads end.

The code compares the time only with expiry times and deadlines, so the model has
no clock: `left` and `deadline` say how far off each is, and `Tick` brings all of
them closer by one. They stop at -1 (expired) and 0 (over), which bounds the
model without bounding the run. Pauses and the cleaner's sleep last any time, so the
run covers schedules `main()` rarely has. `cleanup_running` is a plain bool read
between a sleep and a mutex; a read returns what main wrote last. `main()`'s
threads put each key once; the run's second producer repeats a key, as any other
caller of the class may. `size()` is read only to be printed and is left out.

**Demonstration programs** (`Threads`, the seven `...Programs` modules and
`Demonstrations`). A behaviour is the run of one program, chosen in the initial
state, from its `main()` to the end of its last thread. The labels in `pc` are
line numbers of the program's source file. A thread function of the source is an
operator of the same name with one disjunct for each line at which another thread
can come in between: a lock or unlock, an access to an atomic or to a shared plain
variable, a wait, a notification, a join. Statements under a mutex that nobody
reads without it are one step. `Threads` has the steps themselves: `Step` and
`Test` for statements, `Await` for a blocking call, `Lock`, `TryLock` and `Unlock`
(a std::mutex does not know its holder: `Unlock` frees it whoever has it),
`WaitUntil` and `SleepOn` for a wait with and without predicate, `NotifyOne`,
`NotifyAll` and `SpuriousWakeup`. What a program stores, locals included, is a
record `mem` of its own. Each module ends with the table of its programs' set-ups
(`LockMains`, ...) and their step relation (`LockStep`, ...).

What is hard in them: chopsticks and mutexes taken crosswise or not given back;
notifications that come before the wait or reach the wrong thread; a check outside
the mutex that is stale inside; increments that get lost; members that are
destroyed while threads use them; results that end in another order than they were
asked for; items that overtake each other between two barriers; sizes that the
number of threads or the block size does not divide. Each program is correct when
it excludes, counts, delivers, orders or shares out as its comments and prints say,
and ends.

What is abstracted. Memory is sequentially consistent; a plain variable that
threads race for is read and written in one step each, so that updates get lost,
and the plain bool that `basics.cpp` polls may also be read once for all. The bits
of the sieve's `vector<bool>` are written a word at a time. Constants of the
source are small constants of the modules. Sums are over distinct powers, so that
a result tells which terms are in it, and float arithmetic is left out but for the
parallel sum of `vector_parallel_sum.cpp`, where the mantissa is what matters.
Sleeps last any time and printing is left out, except where a property is about
the order or the number of the lines. Where `std::async` is called without a
policy or with both, both are possible: a thread of its own, or a call deferred to
`get()`. Thread-safe queue and stack have no caller in the repository; three
pushers and two poppers of the model's own call them.

Some sources do not compile as they stand. Where the intention is beyond doubt the
program is modelled as intended: `barrier.cpp` (a syntax error in line 20),
`mutex_example_1.cpp` (a missing include), `shared_mutex.cpp` (the same, and in
line 42 the argument of the writers stands outside the call), `counter.cpp`
(derives from the class that `monitor.h` has only under `PREDICATIVE`, where it
clashes with the template of the same name), `Lock Free
Programming/double_checked_locking.cpp` and `cv_soup.cpp` (`return;` in `int
main`), `thread_safe_stack.cpp` (`stack` without `std::`), `thread_unroll.cc` and
`unrolling.cc` (an empty specialisation of a template that takes an argument), and
the constructor of `monitor.h`, which C++17 accepts and C++20 does not.

### Not modelled

What nothing can be said about, because it never gets to run:

- `shared_futures.cpp` and `async_task_manager.cpp` copy a future;
  `matrix_mutiply.cpp` starts threads with nine arguments for seven parameters;
  `OpenCL/Matrix Multiplication/main.c` takes the address of macros;
  `OpenCL/Basics/main.c` calls `clCreateBuffer()` with the wrong arguments;
  `race_condition_barrier.cpp` makes a barrier without saying for how many. What
  each would do is a guess.
- `range_sum.cpp` passes `depth++`, the old depth, to its recursion and starts
  threads without end. `Kernels/host.cpp` loads a file that is not there, and its
  kernel reads rows of its tiles that no item writes. `big_vec_add.cu` passes the
  number of bytes as the number of elements. `try_lock.cpp` loops while a local
  that is 0 is positive.

What has no state that a property could be about: `OpenMP/fibonacci.c`, `fibo.cc`,
`toggle.cc`, `tag_dispatching.cc`, `thread_local.cpp`, `runtime.cu`, `warp.cu`,
`block_warp.cu`, `compile_time_spec.cu`, and `livelock_dining_philosophers.cpp`,
which is a list of includes. Code of libraries: `async_await.cpp` (cppcoro) and
`Threads/thread_pool.cpp` (Boost.Asio) only pass prints to them. The `wait_for()`
functions of `monitor.h` are called by nobody. `.vscode`, Makefiles and binaries are
not code of the system.

## The runs

Passing runs:

- `queue_clients` (21479 states): two writers and two readers with two calls
  each, capacity 0, 1 and 2, `close()` at any moment. Two of each are needed for
  a notification to reach the wrong kind of sleeper and for two pushers to
  race for one place; two calls each fill capacity 1 and 2 and leave pushers
  asleep.
  - `NoLostWakeup`: on an unbounded queue each queued value has a woken thread
    or a coming notification, as long as anybody sleeps.
  - `CapacityRespected`: several woken pushers do not overfill the queue.
  - `EndIsFinal`: a reader that was told the queue has ended misses nothing.
  - `Completes`: nobody sleeps for ever on an unbounded or a closed queue.
  - `ImplementsFifo`: the refinement of `FifoQueue`; in particular each value
    is delivered once, in the order accepted, or dropped by a push that
    `close()` overtook on a bounded queue, or still queued.
- `single_pool` (21821 states): two workers, three tasks, which main or a
  running task submits, destroyed at any moment. Deadlock is checked: the only
  stop is the terminated program.
  - `ShutdownCovered`: from the moment the destructor begins, queue and dummies
    to come cover all workers that will pop again.
  - `NobodyLeftAsleep`: once all dummies are pushed nobody sleeps unless a
    wake-up is under way. `ShutdownCompletes`: the destructor returns.
  - `AcceptedTasksRun`: a queued task is run, unless the pool is stopped.
  - `ImplementsTaskPool`: refinement of `TaskPool` (started once, lost or
    refused only by a stopping pool).
- `multi_pool` (14303 states): two workers, two tasks.
  - `MissedOnlyIfRobbed`, `ShutdownUnlessRobbed`: a thief that takes a dummy is
    the *only* way to leave a worker asleep under `join()`.
  - `AcceptedTasksRun`, `ImplementsTaskPool`: as above, with thieves.
- `lock_free_queue` (118830 states): two producers of one value each (as in
  `main()`), two consumers that call until they are told it is empty, which may leave
  both values, and tail one node short, to the destructor.
  - `TailNearEnd`: tail is the last or last but one node of the list, so head
    never passes it.
  - `NodesAccounted`: each node is in exactly one place (list, a producer, a
    consumer about to delete it, deleted), also while the destructor drains what is
    left call by call: no leak and no double delete.
  - `EmptyMeansEmpty`: `consume()` returns false only if the queue was empty at
    an instant of the call. `ImplementsFifo`: linearizable to `FifoQueue`, where
    a value enters when linked and leaves when head passes it.

- `ttl_cache` (49387 states): two producers with three puts, two consumers that
  look for two keys each, ttl and timeout of up to 2, which is enough for an entry
  to expire before, during and after each wait and for a put to meet an old entry.
  - `SleepersMissNothing`: nobody sleeps beside a fresh entry of its key.
  - `EverybodyEnds`: no wait outlasts its deadline, however often it is woken;
    then the cleaner is stopped and ends too. That expired entries are collected
    is not claimed: main stops the cleaner, which may come before its next sweep.
  - `ImplementsTTLMap`: refinement of `TTLMap`; an entry is served up to and
    including the instant of its expiry and not later, whoever removes it.

- `demonstrations` (84030 states): the 104 programs. Their threads are as many as in
  the source, but for three of a team or of a grid of any size. Loops turn twice
  (`Rounds`), three sushi are eaten and one is enough to leave, one transfer each
  moves less or more than the balance of two, the semaphore's maximum of two is
  reached, two servings go to two clients. Three elements in blocks of two and
  five in groups of four leave the last block part full; five elements above the
  sort's threshold of two split twice, unevenly. `CHECK_DEADLOCK FALSE`, since the
  programs end, and some hang. `TypeOK` bounds the counts that the code bounds.
  - `Exclusive`: who eats, writes, spins or wins is alone, and no two neighbours
    eat at once. `OnlyHolderReleases`: a mutex is given up by its holder and by
    nobody else, over all paths and guards, except in
    `philosophers_scoped_lock.cpp`, which unlocks twice.
  - `CountsAddUp`, `NothingLost`: no increment, money, element, job or node is lost
    or got twice; the programs with a race lose some and keep at least two.
  - `OneInstance`: one object whatever the interleaving of the lazy initialisers.
  - `OnlyResultsUsedLate`: `scheduler_main` destroys its results before the workers
    that write them have ended (jthread_1.cpp:155). That is a defect, which every run has;
    the property names it and excludes that the queue is used late too.
  - `OrderKept`: announcements, supersteps, snapshots, signals and lines come in the
    order they ought to. `ResultsDelivered`: a future gives what its promise got, and
    the `get()` of `fibonacci.cpp` is reached only if its call has a thread of its own.
  - `PartsMakeTheWhole`, `EveryElementOnce`, `KernelsExact`: the work of the threads
    and items is the whole work, done once, and what the host reads is all of it.
  - `HangsOnlyAsKnown`, `SafeProgramsEnd`: eight programs never end (`NeverEnds`),
    five may hang (`MayHang`) and two may starve (`MayStarve`); in what states those
    hang; and that each of the 88 others ends. `fibonacci.cpp` is both: it asks a future
    again and again whether it is ready (line 25), and the default policy of line 21 may
    have deferred the call, which then is never run (`PollsForEver`). It ends if the
    call has a thread of its own.

Runs that show a disagreement between the code and what it says:

- `queue_test_bounded`: the test's own capacity 10 and 15 calls. A `push()`
  asleep on the full queue is never woken, since `pop()` notifies nobody, so the
  test need not reach "--- Queue test completed ---" (main.cpp:86). The pauses
  of 50 and 80 ms keep a normal run away from a full queue.
- `multi_pool_shutdown`: a thief takes the dummy of another worker between its
  own test of `stopping` and its own queue; the owner sleeps for ever and the
  destructor does not return.
- `multi_pool_idle`: with three workers and the waiting last task, a task queued
  behind that one is never stolen, because sleepers are woken only for their own
  queue. (With fewer workers nobody is left to be idle.)
- `lock_free_reclaim`: "Safe to delete old dummy/head" (lock_free_queue.cc:85)
  is not: another thread may hold that node and dereference it next.
- `ttl_put`: "Store a value in the cache with TTL" (TTL_Caching.cpp:48): a `put()`
  of a key that has an entry, even an expired one, stores nothing.
- `lazy_singleton`: "All threads completed. Only one Test object was created!"
  (Lazy Initialization/source.cpp:131): each of the four ways to the instance makes
  an object, and two of them store it in the same pointer.

Symmetry reduction is not used, since most runs check liveness.

## Fairness

Weak fairness for each thread (all the calls of a writer, reader or worker, and
its notifications) and for the destructor: the operating system schedules
runnable threads, critical sections are bounded, and a task returns once its
calls have. Nothing obliges anybody to call `submit()`, `close()` or the
destructor, and no property counts on a spurious wake-up. In `TTLCache` time
passes and a wait wakes up once its deadline is over, as `wait_until` promises.
`LockFreeQueue` has safety properties only: a lock-free algorithm lets a single
thread starve.

The demonstration programs have weak fairness for each thread, and a condition
variable wakes threads for nothing finitely often only (else it might wake the same
sleeper again and again and the program would run on without getting anywhere).
Two steps have strong fairness. The producer of `producer_consumer.cpp` gets the
mutex that its consumer takes and releases again and again, because the consumer
sleeps without it (line 43). A push to the
lock-free stack succeeds in the end, because a weak compare-and-swap does not fail
for ever without a reason and the other pushes are finitely many. The philosophers
who put their forks back have no such sleep on their side and may starve.

## What is proved

For every number of threads, tasks and values, from the `ASSUME`s in the modules
(the thread set is finite, identifiers of different kinds differ, and the derived
constants are as the code defines them):

- `QueueClientsProofs`: `TypeOK`, `NoLostWakeup`, `CapacityRespected`,
  `EndIsFinal`, and the refinement `ImplementsFifo`.
- `SingleQueuePoolProofs`: `TypeOK`, `ShutdownCovered`, `NobodyLeftAsleep`.
- `MultiQueuePoolProofs`: `TypeOK`, `MissedOnlyIfRobbed`.
- Both of these: `ImplementsTaskPool`, and from it that no task is called twice
  (`StartedAtMostOnce`).
- `LockFreeQueueProofs`: `TypeOK`, `TailNearEnd`, `EmptyMeansEmpty`,
  `NodesAccounted`, and the refinement `ImplementsFifo`. Assumed: a producer makes
  at least one value, and the null pointer is no node.
- `TTLCacheProofs`: `TypeOK`, `SleepersMissNothing`, and the refinement
  `ImplementsTTLMap`.
- `DemonstrationsProofs`: `OnlyHolderReleases`, `Exclusive`, `OneInstance`,
  `OrderKept`, `OnlyResultsUsedLate`, `NothingLost`, `ResultsDelivered`, `CountsAddUp`,
  and `KernelProofs`: `TypeOK`, `EveryElementOnce`, `KernelsExact`, for all programs
  and any size of the teams, rounds, sums, buffers and blocks that the constants stand
  for. Assumed of a work-group, as a reduction by halves needs: its size is a power of
  two, 256 at most, which is the size the code has.

The argument. `ConcurrentQueueProofs` shows that each step of a queue keeps
`QueueTypeOK`, `CallsConsistent` and `NoLostWakeup`, whoever takes it. The middle
one is needed because `NoLostWakeup` counts threads in two sets: it says that a
thread is in one place of one call of one queue, so that each count changes by
exactly one, and that no push sleeps on an unbounded queue, so that every woken
thread will look for an element. Client modules show that each of their steps is
a queue step or leaves the queues alone, and inherit the three.

`QueueClients` adds `ParkedWriting` (a push that sleeps is a call its writer has
still to count), without which a dropped push could leave `sent`'s type.
`CapacityRespected` and `EndIsFinal` then follow from what a step can do to the
buffer (`ClientStepBuffer`). So does the refinement of `FifoQueue`, where `close()`
and each completed `push()` and `pop()` is a step of the buffer and going to sleep,
waking and notifying are none.

`SingleQueuePool` adds `ControlConsistent` (the queue is unbounded, `stopping` is
set exactly in the destructor, only workers in `pop()` sleep) and
`ShutdownCovered`. The latter is inductive beside the others: a pop in a stopping
pool takes one element and one worker out of the count, since that worker leaves
at its next test; a push adds an element; and nobody joins the count.
`NobodyLeftAsleep` follows: a sleeper with nobody woken and nobody notifying
means an empty queue by `NoLostWakeup`, while `ShutdownCovered` says the queue
covers the sleeper.

`MultiQueuePool` has a `ControlConsistent` of its own (the queues are unbounded
and never closed, a worker sleeps on its own queue only, dummies are pushed in the
destructor only). With it `MissedOnlyIfRobbed` is inductive: a worker leaves its
search only with a task, the destructor moves past a worker's queue only by pushing
a dummy there, and a dummy leaves a queue only into the hands of its owner, which
then no longer looks, or of a thief, which the history variable notes.

The refinement of `TaskPool` needs `OnePlace`, which is inductive beside the
invariant of either pool: a task is not submitted yet, or the argument of one
`submit()`, or at one position of one queue, or in the hands of one worker, or
refused, or done. `Status` names the place. Each action moves at most one task
(`StatusMoves`) and leaves the places of the others (`StatusKept`), so that it is
one step of `TaskPool` on that task, or none: a push is `Accept`, the call of a
task `Start`, wherever the task was taken from, and a worker on its way out
`Discard`. The window between the test of `stopping` in `submit()` and its push
is why `Accept` has no guard on `stopping`.

`TTLCache` adds `LookingForAKey`: whoever is past the head of its loop has a key
left, so that `KeyOf` is a key and the count stays in range. With it
`SleepersMissNothing` is inductive, because only `put()` makes an entry fresh and
it wakes everybody. The refinement maps the cache to its fresh entries: a sweep and
an erase in `get()` are then no steps of the map, a `put()` on a present key is none
either, and `Tick` is its ageing (`TickAges`, where the boundary at 0 matters).

`LockFreeQueue` has a list in a heap. Its invariant `QueueInv` says that there is a
numbering of the nodes that have ever been linked, from 1 to the last one, in which
`next` leads from each to its successor and from the last to nowhere; `head` is one
of them and `tail` one of the last two; and what a thread holds in a local variable
is one of them too, not later than what `head` or `tail` then was. Every property is
read off the numbering. A link appends a number, and all other steps keep it: a
swap of `head` moves it by one because the node it was read from has one
successor for ever. `EmptyMeansEmpty` needs that the list seen empty from `head`'s
node was empty at that instant, since nodes are never unlinked at the end; the step
that swaps `head` is the `Get` of `FifoQueue`, the one that links is its `Put`.
Where a least or a last number is needed, it comes from the well-foundedness of the
naturals (`LeastNumber`). TLC confirmed `QueueInv` on the states of the run before it
was proved. The destructor's steps come when all threads have ended: a `Drain` moves
`head` by one as a `SwingHead` does, and a `Destroy` finds it at the last number.

`DemonstrationsProofs` rests on `LockInv`: the thread that stands at a line of a
critical section owns its mutex, for each of the 39 programs that lock. A mutex of the
standard library does not know its holder, so whether it is given up by its holder
only depends on all the lines its thread may stand at, and `OnlyHolderReleases` is not
inductive without. `Exclusive`, `OneInstance` and `OrderKept` have an invariant for
each program (`ExclusiveInv`, `OnceInv`, `OrderInv`) beside `LockInv`: who has read
the flag but not yet set it, which semaphore permits are out, how far the other
party of a barrier or of a hand-over can be while this one is at a line.
`OnlyResultsUsedLate` is about the lines past `main`'s end. A step is a step of one
program (`StepOf`), so each invariant is proved program by program and program
lines a property says nothing of cost nothing. TLC confirmed these invariants on the
states of the run before they were proved.

`NothingLost` has `KeptInv`, again one invariant for each program that hands something
over. `AccountsInv` is about both accounts at once, since a transfer changes both in one
critical section. `LineInv` numbers what is consumed and, behind it, what is queued.
`ServedInv` and `StackedInv` add to the count of the elements what a thread that is past
its push, or not past its pop, cannot have got. `JobsInv` says that the queue holds no
job twice and shares none with a worker or the checksum: the checksum is an exclusive or
of the numbers of the jobs, so that a job counted twice would vanish from it, and equal
sums alone would not be inductive. `StackInv` has a witness, the list of the nodes from
the bottom of the lock-free stack to its top: a push appends to it, a failed
compare-and-swap leaves it alone, `next` leads from each node to the one below, and
`main()` has counted or deleted some of its end. The nodes reachable from the head are
those of the list (`ReachedFromHead`), which is why `Reachable` is the least set closed
under `next` rather than a recursion. `SumOf` is a recursive function; that its equation
has a solution is proved and not assumed (`SumDefined`), by way of the least length of a
sequence that would have no sums of its last terms (`LeastNumber`).

`ResultsDelivered` has `ResultInv`: for each program what a shared state can hold while its
producer is at a line, and what a thread past its `get()` has got. A `get()` waits until
its state is ready, so that the value it returns is the one the state became ready
with; that a state becomes ready once, by its own producer, is what the invariant
adds; in `fibonacci.cpp` that the call, if it was deferred, is never made
(`FibonacciInv`). The programs that deliver a series have a sequence of reports, which a step
leaves alone or extends by the next element (`ReportMade`). The Fibonacci numbers of two
programs are a recursive function, whose equation is shown to have a solution
(`FibDefined`, again by `LeastNumber`), so that its values can be computed.

`CountsAddUp` has `CountInvariant`, which says at each line what the count owes to each
thread: how far a thread is with its loop, whether it has added its share, released or
acquired its permit, or left. What a thread has read is still the count only where a
mutex guards it (`ObjectInv`, with `LockInv`). In the two programs that race for a plain
counter a read may be as old as the thread's last write: `DataRaceInv` says that whoever
has written once reads no 0 any more, so that its second write and those after it are 2
or more, and that the count stays there once both have written twice. That takes two
turns of the loop, which is why `RoundsAssumption` leaves 1 out (the loops that `Rounds`
stands for turn five times or more). The depth of the recursive mutex is how far its owner has come from
its first argument, and the product on the way back is the factorial of the argument
before (`FactorialInv`); the worker that counts `workers_left` down to 0 is the one that
prints, after all others have added theirs (`CounterPoolInv`).

`TypeOK` of `Demonstrations` says for each primitive of `Threads` what it may do to the
threads, owners and sleepers (`Proceeds`), so that it is proved once for the steps of all
programs that those keep their types and that nobody ends asleep. The bounds of the
counters are the programs' own: those of the semaphore's permits, of the depth of the
recursive mutex and of the sushi that `starvation.cc` guards come from `CountInvariant`
(and so from `LockInv`), that of the latch from how many have counted it down
(`LatchInv`), and the other philosophers look at the sushi and take it in one step.

`EveryElementOnce` has `ItemsInvariant`. `GridInv` is the course of a launch: no item runs
before it and none is left after the host has waited. `WrittenSoFar` says that the
elements written, and what the buffer holds, are those of the items that have run
(`Run`): an item writes the element of its own number and no other, if there is one, so
that it makes no difference who runs first. In `block_thread_indexing.cu`, where the
number is the sum of the two indices, the count of each element adds up which of the
items that compute it have run (`IndexingInv`).

`KernelsExact` has `KernelsInvariant` on top of it.

- Tiles: no item is more than one barrier ahead of another (`TiledInv`), so that whoever
  is between the barriers of a tile reads what all items of the block have loaded for
  this tile and none has loaded for the next; the terms summed so far are therefore
  the first ones of the row and column, in their order.
- Reduction: a group of items is at one step `m` of the loop, some before its barrier and
  some behind (`Phase`), and the cells that a later step still reads (`Live`) add up to the
  products of the group at every moment. An item that adds the upper cell to its own moves
  a value from one live cell to another (`LiveAdds`); after the last barrier one cell is
  left, and it is the sum. Sums of a part of an array are witnessed by the sums of its
  last terms (`Adds`, `SumsOf`), from which the total over all groups follows
  (`TotalsAdd`). That `Sum` and `Product` have the values their equations give is proved
  (`NatSumDefined`, `ProductDefined`) and not assumed. The halves meet because the size
  of a group is a power of two.
- Selection: an element goes to the place that counts the kept ones up to it, and these
  counts grow by one exactly at those that are kept (`KeptGrows`, `KeptAtSome`), so
  that the items may run in any order.
- Solver: after `s` steps the inner cells unknown in the buffer that is shown are those
  less than `s` cells from the border, and the border is unknown in one of the two
  buffers, which take turns (`Spread`). Of a cell's neighbours one is a ring further
  out and none is two (`RingsAround`).
- daxpy: after `n` calls element `i` is `2 + 2in` (`After`).

Only model-checked:

- Liveness under fairness (`Completes`, `ShutdownCompletes`, `AcceptedTasksRun`,
  `EverybodyEnds`, `SafeProgramsEnd`, ...) and `HangsOnlyAsKnown`, which is about
  `ENABLED`: out of the proof system's reach.
- `PartsMakeTheWhole` of `Demonstrations`. What the recursion of a merge sort or the inner
  sieve returns for every input is an induction over data, and its conjunct about
  `vector_parallel_sum` is about the one length at which a float of the modelled mantissa
  begins to round: it says something of the run's `Length`, and not of every other.

## What is left

Every safety invariant that a run checks is proved but for the two above. The rest of the
work would be about the model and not the proofs: what "Not modelled" lists, and a
`PartsMakeTheWhole` divided into what holds for every length and what is about one.
