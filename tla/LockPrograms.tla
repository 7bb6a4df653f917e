---------------------------- MODULE LockPrograms -----------------------------
(***************************************************************************)
(* The programs of Mutual Exclusion/ whose threads meet at mutexes only.   *)
(* Each has its thread functions as operators, and the set-up of its       *)
(* main() as a record. Loop bounds are CONSTANTS.                          *)
(***************************************************************************)
EXTENDS Threads

CONSTANTS
    Sushi,      \* sushi_count at the start
    Enough,     \* sushi_count at which a philosopher leaves; 10 in the code
    Transfers,  \* num_transfers of each thread; 10 in the code
    Balance,    \* of each bank account at the start
    Amounts     \* what a transfer may move

ASSUME LockAssumption ==
    /\ {Sushi, Enough, Transfers, Balance} \subseteq Nat
    /\ 0 < Enough /\ Enough < Sushi
    /\ Amounts \subseteq Nat

-----------------------------------------------------------------------------
\* Deadlock/abandoned_lock.cpp: the philosopher who has had enough breaks out
\* of the loop with the chopsticks locked.

abandoned_lock(t) ==
    \/ Test(t, 8, mem.sushi_count > 0, 9, End)
    \/ Lock(t, 9, "chopsticks", 11)
    \/ Step(t, 11, [mem EXCEPT !.sushi_count = IF @ > 0 THEN @ - 1 ELSE @], 12)
    \/ Test(t, 12, mem.sushi_count = Enough, End, 16)
    \/ Unlock(t, 16, {"chopsticks"}, mem, 8)

AbandonedLock == Main(<<8, 8>>, {"chopsticks"}, {}, [sushi_count |-> Sushi])

\* Scoped Lock/philosophers_scoped_lock_abandoned.cpp: the same with a
\* scoped_lock, whose destructor runs on the break too.

scoped_lock_abandoned(t) ==
    \/ Test(t, 8, mem.sushi_count > 0, 9, End)
    \/ Lock(t, 9, "chopsticks", 11)
    \/ Step(t, 11, [mem EXCEPT !.sushi_count = IF @ > 0 THEN @ - 1 ELSE @], 12)
    \/ Unlock(t, 12, {"chopsticks"}, mem,
              IF mem.sushi_count = Enough THEN End ELSE 8)

ScopedLockAbandoned == Main(<<8, 8>>, {"chopsticks"}, {}, [sushi_count |-> Sushi])

\* starvation.cc: mem.sushi_eaten is a local of each philosopher.

starvation(t) ==
    \/ Test(t, 10, mem.sushi_count > 0, 11, End)
    \/ Lock(t, 11, "chopsticks", 12)
    \/ Unlock(t, 12, {"chopsticks"},
              IF mem.sushi_count = 0 THEN mem
              ELSE [mem EXCEPT !.sushi_count = @ - 1, !.sushi_eaten[t] = @ + 1],
              10)

Starvation ==
    Main(<<10, 10, 10>>, {"chopsticks"}, {},
         [sushi_count |-> Sushi, sushi_eaten |-> <<0, 0, 0>>])

-----------------------------------------------------------------------------
\* Two chopsticks, which the philosophers take in opposite orders.

Opposite == [first |-> <<"a", "b">>, second |-> <<"b", "a">>]

\* Deadlock/dead_lock_philosophers.cpp
dead_lock_philosophers(t) ==
    \/ Test(t, 10, mem.sushi_count > 0, 11, End)
    \/ Lock(t, 11, Opposite.first[t], 12)
    \/ Lock(t, 12, Opposite.second[t], 14)
    \/ Step(t, 14, [mem EXCEPT !.sushi_count = IF @ > 0 THEN @ - 1 ELSE @], 16)
    \/ Unlock(t, 16, {Opposite.second[t]}, mem, 17)
    \/ Unlock(t, 17, {Opposite.first[t]}, mem, 10)

DeadLockPhilosophers == Main(<<10, 10>>, {"a", "b"}, {}, [sushi_count |-> Sushi])

\* Scoped Lock/philosophers_scoped_lock.cpp: the body unlocks both by hand,
\* and the destructors of the scoped_locks unlock them again at line 18, each
\* then perhaps in the hands of the other. sushi_count-- is a read (15) and a
\* write (141), since nothing excludes the two philosophers here.
philosophers_scoped_lock(t) ==
    \/ Test(t, 10, mem.sushi_count > 0, 11, End)
    \/ Lock(t, 11, Opposite.first[t], 12)
    \/ Lock(t, 12, Opposite.second[t], 14)
    \/ Test(t, 14, mem.sushi_count # 0, 140, 16)
    \/ Step(t, 140, [mem EXCEPT !.read[t] = mem.sushi_count], 141)
    \/ Step(t, 141, [mem EXCEPT !.sushi_count = mem.read[t] - 1], 16)
    \/ Unlock(t, 16, {Opposite.second[t]}, mem, 17)
    \/ Unlock(t, 17, {Opposite.first[t]}, mem, 18)
    \/ Unlock(t, 18, {Opposite.second[t]}, mem, 180)
    \/ Unlock(t, 180, {Opposite.first[t]}, mem, 10)

PhilosophersScopedLock ==
    Main(<<10, 10>>, {"a", "b"}, {}, [sushi_count |-> Sushi, read |-> <<0, 0>>])

\* Livelock/philosophers.cpp: line 12 locks the second chopstick for good, so
\* that try_lock() of line 14 fails always and its else branch is never taken.
livelock_philosophers(t) ==
    LET first == <<"a", "b", "a", "b">>
        second == <<"b", "a", "b", "a">>
    IN  \/ Test(t, 10, mem.sushi_count > 0, 11, End)
        \/ Lock(t, 11, first[t], 12)
        \/ Lock(t, 12, second[t], 14)
        \/ TryLock(t, 14, {second[t]}, 19, 15)
        \/ Unlock(t, 15, {first[t]}, mem, 10)

LivelockPhilosophers ==
    Main(<<10, 10, 10, 10>>, {"a", "b"}, {}, [sushi_count |-> Sushi])

-----------------------------------------------------------------------------
\* Several mutexes at once

\* Scoped Lock/scoped_lock_dead_lock.cpp: run_agent(f) calls f, whose
\* scoped_lock takes two of the three resources, five times.
agent_a(t) ==
    \/ LockAll(t, 20, {"database", "cache"}, 27)
    \/ Unlock(t, 27, {"database", "cache"},
              [mem EXCEPT !.database = @ + 1, !.cache = @ + 1], 61)

agent_b(t) ==
    \/ LockAll(t, 34, {"cache", "network"}, 41)
    \/ Unlock(t, 41, {"cache", "network"},
              [mem EXCEPT !.cache = @ + 1, !.network = @ + 1], 61)

agent_c(t) ==
    \/ LockAll(t, 48, {"network", "database"}, 55)
    \/ Unlock(t, 55, {"network", "database"},
              [mem EXCEPT !.network = @ + 1, !.database = @ + 1], 61)

run_agent(t) ==
    Step(t, 61, [mem EXCEPT !.i[t] = @ + 1],
         IF mem.i[t] < Rounds THEN mem.f[t] ELSE End)

ScopedLockDeadLock ==
    Main(<<61, 61, 61>>, {"database", "cache", "network"}, {},
         [database |-> 0, cache |-> 0, network |-> 0,
          i |-> <<0, 0, 0>>, f |-> <<20, 34, 48>>])

\* Deadlock/deadlock_1.cpp: std::lock() and adoption; the locks are released
\* by the destructors, the last one first.
func_A(t) ==
    \/ LockAll(t, 14, {"m1", "m2"}, 22)
    \/ Unlock(t, 22, {"m2"}, mem, 24)
    \/ Unlock(t, 24, {"m1"}, mem, End)

func_B(t) ==
    \/ LockAll(t, 28, {"m1", "m2"}, 36)
    \/ Unlock(t, 36, {"m2"}, mem, 38)
    \/ Unlock(t, 38, {"m1"}, mem, End)

Deadlock1 == Main(<<14, 28>>, {"m1", "m2"}, {}, [none |-> 0])

\* Deadlock/deadlock_2.cpp: std::try_lock() of both, or nothing.
\* Mutant: the return of the failed try_lock() is missing.
Mut_try_lock_func_A(t) ==
    \/ TryLock(t, 18, {"m1", "m2"}, 23, 23)
    \/ Unlock(t, 23, {"m2"}, mem, 26)
    \/ Unlock(t, 26, {"m1"}, mem, End)

try_lock_func_A(t) ==
    \/ TryLock(t, 18, {"m1", "m2"}, 23, 20)
    \/ Step(t, 20, mem, End)
    \/ Unlock(t, 23, {"m2"}, mem, 26)
    \/ Unlock(t, 26, {"m1"}, mem, End)

Deadlock2 == Main(<<18, 18>>, {"m1", "m2"}, {}, [none |-> 0])

-----------------------------------------------------------------------------
\* Five philosophers and five forks. Philosopher n_philo is thread n_philo + 1.

forks == 0 .. 4
left(t) == t - 1
right(t) == t % 5
Ate(t) == [mem EXCEPT !.mouthfuls[t] = @ + 1]

\* Deadlock/deadlock_dining_philosophers.cpp: try one fork, then the other,
\* and put the first one back if that fails.
dine(t) ==
    \/ TryLock(t, 46, {left(t)}, 50, 46)
    \/ TryLock(t, 50, {right(t)}, 56, 66)
    \/ Step(t, 56, Ate(t), 59)
    \/ Unlock(t, 59, {right(t)}, mem, 60)
    \/ Unlock(t, 60, {left(t)}, mem, End)
    \/ Unlock(t, 66, {left(t)}, mem, 46)

DiningPhilosophers ==
    Main(<<46, 46, 46, 46, 46>>, forks, {}, [mouthfuls |-> <<0, 0, 0, 0, 0>>])

\* Deadlock/try_lock_dining_philosophers.cpp: std::lock() of both forks.
\* Mutant: one fork and then the other.
Mut_try_lock_dine(t) ==
    \/ Lock(t, 53, left(t), 54)
    \/ Lock(t, 54, right(t), 58)
    \/ Step(t, 58, Ate(t), 65)
    \/ Unlock(t, 65, {left(t)}, mem, 66)
    \/ Unlock(t, 66, {right(t)}, mem, End)

try_lock_dine(t) ==
    \/ LockAll(t, 53, {left(t), right(t)}, 58)
    \/ Step(t, 58, Ate(t), 65)
    \/ Unlock(t, 65, {left(t)}, mem, 66)
    \/ Unlock(t, 66, {right(t)}, mem, End)

TryLockDiningPhilosophers ==
    Main(<<53, 53, 53, 53, 53>>, forks, {}, [mouthfuls |-> <<0, 0, 0, 0, 0>>])

-----------------------------------------------------------------------------
\* mutex_example.cpp: threads 1 and 3 transfer from account1 to account2, the
\* others back. A transfer that fails is tried in the other direction.

account1(t) == IF t % 2 = 1 THEN 1 ELSE 2
account2(t) == 3 - account1(t)

\* transfer(): both mutexes, then the check, the move and the return. `from` is
\* the line of the call.
transfer(t, from, source, destination, success, failure) ==
    \/ LockAll(t, from, {source, destination}, from + 100)
    \/ LET amount == mem.amount[t]
           moved == [mem EXCEPT !.balance[source] = @ - amount,
                                !.balance[destination] = @ + amount]
       IN  IF mem.balance[source] >= amount
           THEN Unlock(t, from + 100, {source, destination}, moved, success)
           ELSE Unlock(t, from + 100, {source, destination}, mem, failure)

Transfer(t) ==
    \/ mem.i[t] < Transfers /\ \E amount \in Amounts :
          Step(t, 46, [mem EXCEPT !.i[t] = @ + 1, !.amount[t] = amount], 48)
    \/ mem.i[t] = Transfers /\ Step(t, 46, mem, End)
    \/ transfer(t, 48, account1(t), account2(t), 46, 50)
    \/ transfer(t, 50, account2(t), account1(t), 46, 46)

MutexExample ==
    Main(<<46, 46, 46, 46>>, {1, 2}, {},
         [balance |-> <<Balance, Balance>>, amount |-> <<0, 0, 0, 0>>,
          i |-> <<0, 0, 0, 0>>])

-----------------------------------------------------------------------------
\* One mutex around a counter

\* mutex_example_1.cpp
shopper(t) ==
    \/ Lock(t, 10, "pencil", 11)
    \/ Test(t, 11, mem.i[t] < Rounds, 14, 16)
    \/ Step(t, 14, [mem EXCEPT !.item_count = @ + 1, !.i[t] = @ + 1], 11)
    \/ Unlock(t, 16, {"pencil"}, mem, End)

Shoppers == Main(<<10, 10>>, {"pencil"}, {}, [item_count |-> 0, i |-> <<0, 0>>])

\* Atomics/atomic_example.cpp
atomic_shopper(t) ==
    \/ Lock(t, 13, "pencil", 14)
    \/ Test(t, 14, mem.i[t] < Rounds, 16, 18)
    \/ Step(t, 16, [mem EXCEPT !.item_count = @ + 1, !.i[t] = @ + 1], 14)
    \/ Unlock(t, 18, {"pencil"}, mem, End)

AtomicShoppers ==
    Main(<<13, 13>>, {"pencil"}, {}, [item_count |-> 0, i |-> <<0, 0>>])

\* objects.cpp: thread t calls test_thread(p1, t), which adds t to the value.
\* modify() is a read and a write.
test_thread(t) ==
    \/ Lock(t, 39, "mtx", 45)
    \/ Step(t, 45, [mem EXCEPT !.read[t] = mem.value], 26)
    \/ Step(t, 26, [mem EXCEPT !.value = mem.read[t] + t], 51)
    \/ Unlock(t, 51, {"mtx"}, mem, End)

Objects ==
    Main(<<39, 39, 39, 39, 39>>, {"mtx"}, {},
         [value |-> 10, read |-> <<0, 0, 0, 0, 0>>])

\* unique_mtx.cpp: print, release, sleep.
task(t) ==
    \/ Test(t, 12, mem.i[t] < Rounds, 13, End)
    \/ Lock(t, 13, "print_mutex", 15)
    \/ Unlock(t, 15, {"print_mutex"}, [mem EXCEPT !.i[t] = @ + 1], 12)

UniqueMutex == Main(<<12, 12, 12>>, {"print_mutex"}, {}, [i |-> <<0, 0, 0>>])

\* unique_mtx2.cpp: try_lock_for() succeeds, or times out and is called again.
task1(t) == Lock(t, 12, "mtx", 16) \/ Unlock(t, 16, {"mtx"}, mem, End)

task2(t) ==
    \/ TryLock(t, 25, {"mtx"}, 31, 25)
    \/ Unlock(t, 31, {"mtx"}, mem, End)

TimedMutex == Main(<<12, 25>>, {"mtx"}, {}, [none |-> 0])

-----------------------------------------------------------------------------
\* Other kinds of mutex

\* read_write.cpp: the readers that share the mutex are a set of their own.
write(t) ==
    \/ mem.readers = {} /\ Lock(t, 13, "shrd_mut", 14)
    \/ Unlock(t, 14, {"shrd_mut"}, [mem EXCEPT !.x = @ + 1], End)

\* Mutant: lock_shared() does not wait for the writer.
Mut_read(t) ==
    \/ Step(t, 18, [mem EXCEPT !.readers = @ \cup {t}], 20)
    \/ Step(t, 20, [mem EXCEPT !.readers = @ \ {t}], End)

read(t) ==
    \/ Guarded(t, 18, "shrd_mut", [mem EXCEPT !.readers = @ \cup {t}], 20)
    \/ Step(t, 20, [mem EXCEPT !.readers = @ \ {t}], End)

ReadWrite == Main(<<18, 13, 13, 18>>, {"shrd_mut"}, {}, [x |-> 0, readers |-> {}])

\* recursive_mutex.cpp: mem.depth counts how often the owner has locked rm. n
\* is the argument of the call the thread is in, bottom the one of its first.
factorial(t) ==
    \/ owner["rm"] \in {Nobody, t} /\ At(t, 9)
       /\ owner' = [owner EXCEPT !["rm"] = t]
       /\ mem' = [mem EXCEPT !.depth = @ + 1,
                             !.n[t] = IF @ <= 1 THEN @ ELSE @ - 1]
       /\ Goto(t, IF mem.n[t] <= 1 THEN 12 ELSE 9)
       /\ UNCHANGED <<program, asleep>>
    \/ LET returned == [mem EXCEPT !.depth = @ - 1, !.n[t] = @ + 1,
                                   !.fact[t] = @ * mem.n[t]]
       IN  IF mem.depth > 1 THEN Step(t, 12, returned, 12)
           ELSE Unlock(t, 12, {"rm"}, returned, 28)
    \/ Guarded(t, 28, "rm", mem, End)

RecursiveMutex ==
    Main(<<9, 9, 9, 9, 9>>, {"rm"}, {},
         [depth |-> 0, n |-> <<3, 4, 5, 3, 4>>, fact |-> <<1, 1, 1, 1, 1>>])

\* shared_mutex.cpp: where unlock() is meant, at 19 and 29, the mutex is
\* locked once more by the thread that holds it.
calendar_reader(t) ==
    \E from \in {16, 19} : Lock(t, from, "ptr", IF from = 16 THEN 19 ELSE 16)

calendar_writer(t) ==
    \/ \E from \in {25, 29} : Lock(t, from, "ptr", IF from = 25 THEN 26 ELSE 25)
    \/ Step(t, 26, [mem EXCEPT !.today = (@ + 1) % 7], 29)

SharedMutex == Main(<<16, 16, 25, 25>>, {"ptr"}, {}, [today |-> 0])

-----------------------------------------------------------------------------
\* producer_consumer.cpp: the consumer drains the queue under the mutex, but
\* looks at `finished` before it.

\* Mutant: `finished` is never set.
Mut_producer(t) ==
    \/ mem.i < Rounds /\ Guarded(t, 33, "p_mtx", [mem EXCEPT !.q = Append(@, mem.i),
                                                          !.i = @ + 1], 33)
    \/ mem.i = Rounds /\ Guarded(t, 33, "p_mtx", mem, End)

producer(t) ==
    \/ mem.i < Rounds /\ Guarded(t, 33, "p_mtx", [mem EXCEPT !.q = Append(@, mem.i),
                                                          !.i = @ + 1], 33)
    \/ mem.i = Rounds /\ Guarded(t, 33, "p_mtx", [mem EXCEPT !.finished = TRUE], End)

consumer(t) ==
    \/ Test(t, 42, mem.finished, End, 44)
    \/ Lock(t, 44, "p_mtx", 45)
    \/ mem.q # <<>> /\ Step(t, 45, [mem EXCEPT !.q = Tail(@),
                                              !.popped = Append(@, Head(mem.q))], 45)
    \/ mem.q = <<>> /\ Unlock(t, 45, {"p_mtx"}, mem, 42)

ProducerConsumer ==
    Main(<<33, 42>>, {"p_mtx"}, {},
         [q |-> <<>>, popped |-> <<>>, i |-> 0, finished |-> FALSE])

\* barrier.cpp: agents in supersteps; the last to arrive runs on_completion.

on_completion(m) == [m EXCEPT !.global_superstep = @ + 1]

\* phase_barrier.arrive_and_wait(): the steps at line 33.
arrive_and_wait(t) ==
    LET last == mem.arrived = Cardinality(Thread) - 1
    IN  \/ IF last
           THEN Step(t, 33, on_completion([mem EXCEPT !.arrived = 0, !.phase = @ + 1,
                                                      !.superstep[t] = @ + 1]), 27)
           ELSE Step(t, 33, [mem EXCEPT !.arrived = @ + 1, !.token[t] = mem.phase], 34)
        \/ Await(t, 34, mem.phase # mem.token[t],
                 [mem EXCEPT !.superstep[t] = @ + 1], 27)

agent_routine(t) ==
    \/ Test(t, 27, mem.superstep[t] < Rounds, 33, End)
    \/ arrive_and_wait(t)

Barrier ==
    Main(<<27, 27, 27, 27>>, {}, {},
         [global_superstep |-> 0, arrived |-> 0, phase |-> 0,
          token |-> <<0, 0, 0, 0>>, superstep |-> <<0, 0, 0, 0>>])

-----------------------------------------------------------------------------
\* A step of thread t, and the programs of this module

LockStep(t) ==
    \/ program = "abandoned_lock" /\ abandoned_lock(t)
    \/ program = "scoped_lock_abandoned" /\ scoped_lock_abandoned(t)
    \/ program = "starvation" /\ starvation(t)
    \/ program = "dead_lock_philosophers" /\ dead_lock_philosophers(t)
    \/ program = "philosophers_scoped_lock" /\ philosophers_scoped_lock(t)
    \/ program = "livelock_philosophers" /\ livelock_philosophers(t)
    \/ program = "scoped_lock_dead_lock"
         /\ (agent_a(t) \/ agent_b(t) \/ agent_c(t) \/ run_agent(t))
    \/ program = "deadlock_1" /\ (func_A(t) \/ func_B(t))
    \/ program = "deadlock_2" /\ try_lock_func_A(t)
    \/ program = "dining_philosophers" /\ dine(t)
    \/ program = "try_lock_dining_philosophers" /\ try_lock_dine(t)
    \/ program = "mutex_example" /\ Transfer(t)
    \/ program = "mutex_example_1" /\ shopper(t)
    \/ program = "atomic_example" /\ atomic_shopper(t)
    \/ program = "objects" /\ test_thread(t)
    \/ program = "unique_mtx" /\ task(t)
    \/ program = "unique_mtx2" /\ (task1(t) \/ task2(t))
    \/ program = "read_write" /\ (write(t) \/ read(t))
    \/ program = "recursive_mutex" /\ factorial(t)
    \/ program = "shared_mutex" /\ (calendar_reader(t) \/ calendar_writer(t))
    \/ program = "producer_consumer" /\ (producer(t) \/ consumer(t))
    \/ program = "barrier" /\ agent_routine(t)

LockMains ==
    [abandoned_lock |-> AbandonedLock,
     scoped_lock_abandoned |-> ScopedLockAbandoned,
     starvation |-> Starvation,
     dead_lock_philosophers |-> DeadLockPhilosophers,
     philosophers_scoped_lock |-> PhilosophersScopedLock,
     livelock_philosophers |-> LivelockPhilosophers,
     scoped_lock_dead_lock |-> ScopedLockDeadLock,
     deadlock_1 |-> Deadlock1,
     deadlock_2 |-> Deadlock2,
     dining_philosophers |-> DiningPhilosophers,
     try_lock_dining_philosophers |-> TryLockDiningPhilosophers,
     mutex_example |-> MutexExample,
     mutex_example_1 |-> Shoppers,
     atomic_example |-> AtomicShoppers,
     objects |-> Objects,
     unique_mtx |-> UniqueMutex,
     unique_mtx2 |-> TimedMutex,
     read_write |-> ReadWrite,
     recursive_mutex |-> RecursiveMutex,
     shared_mutex |-> SharedMutex,
     producer_consumer |-> ProducerConsumer,
     barrier |-> Barrier]

=============================================================================
