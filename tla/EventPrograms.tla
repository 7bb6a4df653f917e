---------------------------- MODULE EventPrograms ----------------------------
(***************************************************************************)
(* The programs of Atomics/ and those that initialise an object lazily:    *)
(* atomics are read and written in one step each, an object is a number,   *)
(* and nullptr is 0.                                                       *)
(***************************************************************************)
EXTENDS Threads

nullptr == 0

\* call_once() and the initialisation of a local static: the first thread runs
\* the initialiser, at line `init`, and the others wait for it to be done.
CallOnce(t, from, flag, init, to) ==
    \/ Await(t, from, mem[flag] = "done", mem, to)
    \/ Await(t, from, mem[flag] = "new", [mem EXCEPT ![flag] = "running"], init)

\* new Test: the object is the number of those made so far.
Made(m, pointer) == [m EXCEPT !.made = @ + 1, ![pointer] = m.made + 1]

-----------------------------------------------------------------------------
\* Lazy Initialization/source.cpp: four ways to get at "the" instance. The
\* number of steps at an unlocked pointer is that of its reads and writes.

getTestInstance_DCLP(t, to) ==
    \/ Test(t, 46, mem.pInstance = nullptr, 47, 52)
    \/ Lock(t, 47, "instanceMutex", 48)
    \/ Unlock(t, 48, {"instanceMutex"},
              IF mem.pInstance = nullptr THEN Made(mem, "pInstance") ELSE mem, 52)
    \/ Step(t, 52, [mem EXCEPT !.t1[t] = mem.pInstance], to)

getTestInstance_CallOnce(t, to) ==
    \/ CallOnce(t, 57, "testInitFlag", 58, 60)
    \/ Step(t, 58, [Made(mem, "pInstance") EXCEPT !.testInitFlag = "done"], 60)
    \/ Step(t, 60, [mem EXCEPT !.t2[t] = mem.pInstance], to)

getInstance(t, to) ==
    \/ CallOnce(t, 67, "instance_guard", 68, 69)
    \/ Step(t, 68, [Made(mem, "instance") EXCEPT !.instance_guard = "done"], 69)
    \/ Step(t, 69, [mem EXCEPT !.t3[t] = mem.instance], to)

getTestInstance_Smart(t, to) ==
    \/ Test(t, 85, mem.pSmartInstance = nullptr, 86, 91)
    \/ Lock(t, 86, "smartMutex", 87)
    \/ Unlock(t, 87, {"smartMutex"},
              IF mem.pSmartInstance = nullptr THEN Made(mem, "pSmartInstance") ELSE mem, 91)
    \/ Step(t, 91, [mem EXCEPT !.t4[t] = mem.pSmartInstance], to)

worker(t) ==
    \/ getTestInstance_DCLP(t, 57)
    \/ getTestInstance_CallOnce(t, 67)
    \/ getInstance(t, 85)
    \/ getTestInstance_Smart(t, End)

LazyInitialization ==
    Main(<<46, 46>>, {"instanceMutex", "smartMutex"}, {},
         [made |-> 0, pInstance |-> nullptr, testInitFlag |-> "new",
          instance |-> nullptr, instance_guard |-> "new", pSmartInstance |-> nullptr,
          t1 |-> <<0, 0>>, t2 |-> <<0, 0>>, t3 |-> <<0, 0>>, t4 |-> <<0, 0>>])

\* Lazy Initialization/double_checked_locking.cpp
call_once_process(t) ==
    \/ CallOnce(t, 21, "ptest_flag", 22, 24)
    \/ Step(t, 22, [Made(mem, "p_test") EXCEPT !.ptest_flag = "done"], 24)
    \/ Step(t, 24, [mem EXCEPT !.used[t] = mem.p_test], End)

CallOnceMain ==
    Main(<<21, 21>>, {}, {},
         [made |-> 0, p_test |-> nullptr, ptest_flag |-> "new", used |-> <<0, 0>>])

\* Shared Data Initialization/singleton.cpp and main.cpp
get_singleton(t, to) ==
    \/ CallOnce(t, 3, "single_guard", 4, 5)
    \/ Step(t, 4, [Made(mem, "single") EXCEPT !.single_guard = "done"], 5)
    \/ Step(t, 5, [mem EXCEPT !.used[t] = mem.single], to)

singleton_task(t) == get_singleton(t, 8) \/ Step(t, 8, mem, End)

SingletonMain ==
    Main(<<3, 3, 3>>, {}, {},
         [made |-> 0, single |-> nullptr, single_guard |-> "new", used |-> <<0, 0, 0>>])

\* Atomics/double_check.cpp: the pointer is atomic; temp is a local.
\* Mutant: the pointer is not looked at again under the mutex.
Mut_double_check_process(t) ==
    \/ Step(t, 15, [mem EXCEPT !.used[t] = mem.ptr],
            IF mem.ptr = nullptr THEN 17 ELSE End)
    \/ Lock(t, 17, "process_mutex", 21)
    \/ LET new == Made(mem, "ptr")
       IN  Step(t, 21, [new EXCEPT !.used[t] = new.ptr], 24)
    \/ Unlock(t, 24, {"process_mutex"}, mem, End)

double_check_process(t) ==
    \/ Step(t, 15, [mem EXCEPT !.used[t] = mem.ptr],
            IF mem.ptr = nullptr THEN 17 ELSE End)
    \/ Lock(t, 17, "process_mutex", 19)
    \/ Step(t, 19, [mem EXCEPT !.used[t] = mem.ptr],
            IF mem.ptr = nullptr THEN 21 ELSE 24)
    \/ LET new == Made(mem, "ptr")
       IN  Step(t, 21, [new EXCEPT !.used[t] = new.ptr], 24)
    \/ Unlock(t, 24, {"process_mutex"}, mem, End)

DoubleCheck ==
    Main(<<15, 15, 15>>, {"process_mutex"}, {},
         [made |-> 0, ptr |-> nullptr, used |-> <<0, 0, 0>>])

\* Lock Free Programming/double_checked_locking.cpp: the pointer is read anew
\* at line 26.
atomic_process(t) ==
    \/ Test(t, 18, mem.p_test = nullptr, 19, 26)
    \/ Lock(t, 19, "mut", 21)
    \/ Test(t, 21, mem.p_test = nullptr, 22, 24)
    \/ Step(t, 22, Made(mem, "p_test"), 24)
    \/ Unlock(t, 24, {"mut"}, mem, 26)
    \/ Step(t, 26, [mem EXCEPT !.used[t] = mem.p_test], End)

AtomicDoubleChecked ==
    Main(<<18, 18, 18>>, {"mut"}, {},
         [made |-> 0, p_test |-> nullptr, used |-> <<0, 0, 0>>])

-----------------------------------------------------------------------------
\* Atomics/one_shot_event.cpp: fired.wait(false) sleeps while fired is false.

signaler(t) ==
    \/ Step(t, 14, [mem EXCEPT !.fired = TRUE], 17)
    \/ Step(t, 17, [mem EXCEPT !.waiting = FALSE], IF mem.waiting THEN 18 ELSE End)
    \/ NotifyOne(t, 18, "fired", mem, End)

waiter(t) ==
    \/ Test(t, 25, mem.fired, End, 26)
    \/ Step(t, 26, [mem EXCEPT !.waiting = TRUE], 29)
    \/ Test(t, 29, mem.fired, End, 30)
    \/ Await(t, 30, mem.fired, mem, End)
    \/ ~mem.fired /\ FallAsleep(t, 30, "fired")

\* main() has one waiter, who can be woken; two of them share one flag and one
\* notify_one().
OneShotEvent == Main(<<25, 14>>, {}, {"fired"}, [fired |-> FALSE, waiting |-> FALSE])
OneShotEventTwice ==
    Main(<<25, 14, 25>>, {}, {"fired"}, [fired |-> FALSE, waiting |-> FALSE])

-----------------------------------------------------------------------------
\* Atomics/spin_lock.cpp: the flag is set by who owns it.

spin_task(t) ==
    \/ TryLock(t, 10, {"lock_cout"}, 18, 10)
    \/ Step(t, 18, [mem EXCEPT !.printed = @ \cup {t}], 21)
    \/ Unlock(t, 21, {"lock_cout"}, mem, End)

SpinLock == Main(<<10, 10, 10, 10>>, {"lock_cout"}, {}, [printed |-> {}])

\* Atomics/atomics_class.cpp: main, which is thread 1, says go; the first of the
\* swarm to count to the end wins and stops the others.

countem(t) ==
    \/ Await(t, 33, mem.ready, mem, 34)
    \/ Test(t, 34, mem.i[t] < Rounds, 35, 38)
    \/ Test(t, 35, mem.winner, End, 36)
    \/ Step(t, 36, [mem EXCEPT !.g_count = @ + 1, !.i[t] = @ + 1], 34)
    \/ Step(t, 38, [mem EXCEPT !.winner = TRUE,
                               !.won = IF mem.winner THEN @ ELSE @ \cup {t}], End)

Swarm ==
    Main(<<52, 33, 33, 33>>, {}, {},
         [ready |-> FALSE, winner |-> FALSE, won |-> {}, g_count |-> 0,
          i |-> <<0, 0, 0, 0>>])

swarm_main(t) == Step(t, 52, [mem EXCEPT !.ready = TRUE], End)

\* Atomics/basic_ops.cpp
basic_ops(t) ==
    \/ Step(t, 7, [mem EXCEPT !.x = 2], 9)
    \/ Step(t, 9, [mem EXCEPT !.y = mem.x], 12)
    \/ Step(t, 12, [mem EXCEPT !.x = 3], 15)
    \/ Step(t, 15, [mem EXCEPT !.x = mem.y, !.returned = mem.x], End)

BasicOps == Main(<<7>>, {}, {}, [x |-> 0, y |-> 0, returned |-> 0])

\* Lock Free Programming/basic_counter.cpp
counter_worker(t) ==
    \/ Test(t, 9, mem.i[t] < Rounds, 10, End)
    \/ Step(t, 10, [mem EXCEPT !.counter = @ + 1, !.i[t] = @ + 1], 9)

BasicCounter == Main(<<9, 9>>, {}, {}, [counter |-> 0, i |-> <<0, 0>>])

\* Lock Free Programming/thread_pool.cpp: the last worker to leave prints.
\* Mutant: the decrement and the test of what is left are two accesses.
Mut_pool_worker(t) ==
    \/ Test(t, 17, mem.i[t] < Rounds, 18, 22)
    \/ Step(t, 18, [mem EXCEPT !.shared_counter = @ + 1, !.i[t] = @ + 1], 17)
    \/ Step(t, 22, [mem EXCEPT !.workers_left = @ - 1], 122)
    \/ Test(t, 122, mem.workers_left = 0, 24, End)
    \/ Step(t, 24, [mem EXCEPT !.printed = Append(@, mem.shared_counter)], End)

pool_worker(t) ==
    \/ Test(t, 17, mem.i[t] < Rounds, 18, 22)
    \/ Step(t, 18, [mem EXCEPT !.shared_counter = @ + 1, !.i[t] = @ + 1], 17)
    \/ Step(t, 22, [mem EXCEPT !.workers_left = @ - 1],
            IF mem.workers_left = 1 THEN 24 ELSE End)
    \/ Step(t, 24, [mem EXCEPT !.printed = Append(@, mem.shared_counter)], End)

CounterPool ==
    Main(<<17, 17, 17>>, {}, {},
         [shared_counter |-> 0, workers_left |-> 3, printed |-> <<>>, i |-> <<0, 0, 0>>])

-----------------------------------------------------------------------------
\* Lock Free Programming/config_manager.cpp: a Config is built, and then the
\* pointer to it is swapped. mem.cfgs are the objects made, cfg the pointer.

update(t, from, config, to) ==
    \/ Step(t, from, [mem EXCEPT !.cfgs = Append(@, config)], from + 100)
    \/ Step(t, from + 100, [mem EXCEPT !.cfg = Len(mem.cfgs)], to)

\* Mutant: the pointer is loaded for each field.
Mut_config_reader(t) ==
    \/ Test(t, 36, Len(mem.seen) < Rounds, 38, End)
    \/ Step(t, 38, [mem EXCEPT !.seen = Append(@, <<mem.cfgs[mem.cfg].level, "?">>)], 39)
    \/ Step(t, 39, [mem EXCEPT !.seen[Len(mem.seen)][2] = mem.cfgs[mem.cfg].mode], 36)

\* Line 37 takes the pointer, lines 38 and 39 read through it.
config_reader(t) ==
    \/ Test(t, 36, Len(mem.seen) < Rounds, 37, End)
    \/ Step(t, 37, [mem EXCEPT !.c = mem.cfg], 38)
    \/ Step(t, 38, [mem EXCEPT !.seen = Append(@, <<mem.cfgs[mem.c].level, "?">>)], 39)
    \/ Step(t, 39, [mem EXCEPT !.seen[Len(mem.seen)][2] = mem.cfgs[mem.c].mode], 36)

config_writer(t) ==
    \/ update(t, 46, [level |-> 1, mode |-> "alpha"], 48)
    \/ update(t, 48, [level |-> 2, mode |-> "beta"], End)

ConfigMain ==
    Main(<<36, 46>>, {}, {},
         [cfgs |-> <<[level |-> 0, mode |-> "init"]>>, cfg |-> 1, c |-> 1, seen |-> <<>>])

-----------------------------------------------------------------------------
\* Lock Free Programming/Data Structures/lock_free_stack.cc. A node is a number,
\* in the order of allocation; next[n] is the node below it.

\* Mutant: a store in place of the compare and exchange.
Mut_push_succeeds(t, to) == Step(t, 33, [mem EXCEPT !.head = mem.newNode[t]], to)

push_succeeds(t, to) ==
    mem.head = mem.oldHead[t] /\ Step(t, 33, [mem EXCEPT !.head = mem.newNode[t]], to)

\* push(): the compare and exchange may fail without a reason, being weak.
stack_push_node(t, to) ==
    \/ Step(t, 28, [mem EXCEPT !.next = Append(@, nullptr),
                               !.newNode[t] = Len(mem.next) + 1], 31)
    \/ Step(t, 31, [mem EXCEPT !.oldHead[t] = mem.head], 32)
    \/ Step(t, 32, [mem EXCEPT !.next[mem.newNode[t]] = mem.oldHead[t]], 33)
    \/ push_succeeds(t, to)
    \/ Step(t, 33, mem, 31)

\* worker of main(): two pushes each.
stack_worker(t) ==
    \/ Step(t, 53, [mem EXCEPT !.i[t] = @ + 1],
            IF mem.i[t] < Rounds THEN 28 ELSE End)
    \/ stack_push_node(t, 53)

\* main(), thread 1, counts the elements when the others are joined; then the
\* destructor deletes them from the top.
stack_main(t) ==
    \/ Await(t, 63, \A u \in Thread \ {t} : Ended(u), [mem EXCEPT !.node = mem.head], 68)
    \/ mem.node # nullptr
       /\ Step(t, 68, [mem EXCEPT !.count = @ + 1, !.node = mem.next[mem.node]], 68)
    \/ mem.node = nullptr /\ Step(t, 68, [mem EXCEPT !.node = mem.head], 19)

stack_destructor(t) ==
    \/ mem.node # nullptr
       /\ Step(t, 19, [mem EXCEPT !.deleted = Append(@, mem.node),
                                  !.node = mem.next[mem.node]], 19)
    \/ mem.node = nullptr /\ Step(t, 19, mem, End)

StackMain ==
    Main(<<63, 53, 53>>, {}, {},
         [next |-> <<>>, head |-> nullptr, newNode |-> <<0, 0, 0>>,
          oldHead |-> <<0, 0, 0>>, i |-> <<0, 0, 0>>,
          node |-> nullptr, count |-> 0, deleted |-> <<>>])

-----------------------------------------------------------------------------
\* A step of thread t, and the programs of this module

EventStep(t) ==
    \/ program = "lazy_initialization" /\ worker(t)
    \/ program = "call_once" /\ call_once_process(t)
    \/ program = "singleton" /\ singleton_task(t)
    \/ program = "double_check" /\ double_check_process(t)
    \/ program = "atomic_double_checked" /\ atomic_process(t)
    \/ program \in {"one_shot_event", "one_shot_event_twice"}
         /\ (signaler(t) \/ waiter(t))
    \/ program = "spin_lock" /\ spin_task(t)
    \/ program = "atomics_class" /\ (countem(t) \/ swarm_main(t))
    \/ program = "basic_ops" /\ basic_ops(t)
    \/ program = "basic_counter" /\ counter_worker(t)
    \/ program = "counter_pool" /\ pool_worker(t)
    \/ program = "config_manager" /\ (config_reader(t) \/ config_writer(t))
    \/ program = "lock_free_stack"
         /\ (stack_main(t) \/ stack_destructor(t) \/ stack_worker(t))

EventMains ==
    [lazy_initialization |-> LazyInitialization,
     call_once |-> CallOnceMain,
     singleton |-> SingletonMain,
     double_check |-> DoubleCheck,
     atomic_double_checked |-> AtomicDoubleChecked,
     one_shot_event |-> OneShotEvent,
     one_shot_event_twice |-> OneShotEventTwice,
     spin_lock |-> SpinLock,
     atomics_class |-> Swarm,
     basic_ops |-> BasicOps,
     basic_counter |-> BasicCounter,
     counter_pool |-> CounterPool,
     config_manager |-> ConfigMain,
     lock_free_stack |-> StackMain]

=============================================================================
