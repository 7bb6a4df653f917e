--------------------------- MODULE MonitorPrograms ---------------------------
(***************************************************************************)
(* The programs whose threads wait for conditions: semaphores, monitors,   *)
(* condition variables and flags under a mutex. As in LockPrograms a       *)
(* program is its thread functions and the set-up of its main().           *)
(***************************************************************************)
EXTENDS Threads

CONSTANTS
    max_counter,    \* the member of Semaphore, 10 in the code
    Servings        \* soup_servings at the start, 10 in the code

ASSUME MonitorAssumption == {max_counter, Servings} \subseteq Nat \ {0}

-----------------------------------------------------------------------------
\* Semaphore/semaphore.h: a release() at the maximum adds nothing.

\* Mutant: the maximum is forgotten.
Mut_release(t) ==
    \/ Lock(t, 11, "mut", 14)
    \/ Step(t, 14, [mem EXCEPT !.counter = @ + 1], 19)
    \/ NotifyAll(t, 19, "cv", mem, 20)
    \/ Unlock(t, 20, {"mut"}, mem, End)

release(t) ==
    \/ Lock(t, 11, "mut", 14)
    \/ Step(t, 14, IF mem.counter < max_counter THEN [mem EXCEPT !.counter = @ + 1]
                   ELSE [mem EXCEPT !.dropped = @ + 1], 19)
    \/ NotifyAll(t, 19, "cv", mem, 20)
    \/ Unlock(t, 20, {"mut"}, mem, End)

acquire(t) ==
    \/ Lock(t, 23, "mut", 27)
    \/ WaitUntil(t, 27, "cv", "mut", mem.counter # 0, 30)
    \/ Unlock(t, 30, {"mut"}, [mem EXCEPT !.counter = @ - 1], End)

\* Semaphore/main.cpp: insert() and relinquish() call one of them each.
SemaphoreMain ==
    Main(<<11, 23, 23, 11, 11>>, {"mut"}, {"cv"}, [counter |-> 0, dropped |-> 0])

\* Semaphore/binary_semaphore.cpp: main, which is thread 1, and its worker.
BinarySemaphoreThreads(t) ==
    \/ Step(t, 12, [mem EXCEPT !.sem = @ + 1], End)
    \/ Await(t, 16, mem.sem > 0, [mem EXCEPT !.sem = @ - 1], 19)
    \/ Await(t, 19, Ended(2), mem, End)

BinarySemaphore == Main(<<16, 12>>, {}, {}, [sem |-> 0])

-----------------------------------------------------------------------------
\* Monitor/monitor.h: the two classes. The steps of wait() begin at line 48.

wait(t, stop_waiting, to) ==
    \/ Lock(t, 48, "mtx_", 49)
    \/ WaitUntil(t, 49, "cond_", "mtx_", stop_waiting, 50)
    \/ Unlock(t, 50, {"mtx_"}, mem, to)

MonitorCall(t, new, to) == Guarded(t, 84, "data_mut", new, to)

\* Monitor/counter.cpp
threshold_ == 2 * Rounds

increment(t) ==
    \/ Lock(t, 14, "mtx_", 15)
    \/ Step(t, 15, [mem EXCEPT !.value_ = @ + 1], 17)
    \/ Test(t, 17, mem.value_ >= threshold_, 18, 20)
    \/ NotifyAll(t, 18, "cond_", mem, 20)
    \/ Unlock(t, 20, {"mtx_"}, mem, 147)

wait_for_threshold(t) == wait(t, mem.value_ >= threshold_, End)

\* main(): the waiter and two incrementers, whose loop head is line 147 here.
CounterThreads(t) ==
    \/ wait_for_threshold(t)
    \/ increment(t)
    \/ Step(t, 147, [mem EXCEPT !.i[t] = @ + 1],
            IF mem.i[t] < Rounds THEN 14 ELSE End)

CounterMain ==
    Main(<<48, 147, 147>>, {"mtx_"}, {"cond_"}, [value_ |-> 0, i |-> <<0, 0, 0>>])

\* Monitor/str_monitor.cpp: two calls of the monitor a turn, the first of which
\* appends i twice: what follows the comma of line 13 is thrown away.
str_monitor(t) ==
    \/ Step(t, 11, [mem EXCEPT !.i = @ + 1], IF mem.i < Rounds THEN 84 ELSE End)
    \/ MonitorCall(t, [mem EXCEPT !.data = @ \o <<mem.i - 1, mem.i - 1>>], 16)
    \/ Guarded(t, 16, "data_mut", [mem EXCEPT !.printed = Append(@, mem.data)], 11)

StrMonitor ==
    Main(<<11>>, {"data_mut"}, {}, [i |-> 0, data |-> <<>>, printed |-> <<>>])

-----------------------------------------------------------------------------
\* Thread Synchronization/conditional_coordination_predicates.cpp

predicate_reader(t) ==
    \/ Lock(t, 18, "mut", 22)
    \/ WaitUntil(t, 22, "cond_var", "mut", mem.condition, 25)
    \/ Unlock(t, 25, {"mut"}, [mem EXCEPT !.seen[t] = mem.s_data], End)

predicate_writer(t) ==
    \/ Lock(t, 32, "mut", 38)
    \/ Unlock(t, 38, {"mut"}, [mem EXCEPT !.s_data = "modified", !.condition = TRUE], 46)
    \/ NotifyAll(t, 46, "cond_var", mem, End)

PredicateMain ==
    Main(<<32, 18, 18, 18>>, {"mut"}, {"cond_var"},
         [s_data |-> "empty", condition |-> FALSE,
          seen |-> <<"nothing", "nothing", "nothing", "nothing">>])

\* Thread Synchronization/condtional_coordination.cpp: wait() has no predicate.
\* It is woken by anything, and not by what was notified before.

reader(t) ==
    \/ Lock(t, 16, "mut", 20)
    \/ SleepOn(t, 20, "cond_var", "mut", 22)
    \/ Lock(t, 22, "mut", 23)
    \/ Unlock(t, 23, {"mut"}, [mem EXCEPT !.seen = mem.s_data], End)

writer(t) ==
    \/ Lock(t, 29, "mut", 35)
    \/ Unlock(t, 35, {"mut"}, [mem EXCEPT !.s_data = "populated"], 39)
    \/ NotifyOne(t, 39, "cond_var", mem, End)

NoPredicateMain ==
    Main(<<16, 29>>, {"mut"}, {"cond_var"}, [s_data |-> "empty", seen |-> "nothing"])

\* Condition Variables/navigation_example.cpp: the distance is not under the
\* mutex, so that wait() is here a test (27), the sleep (270) and the relock
\* (271). The driver never stops; the model does one kilometre past the goal.

total_distance == 2

keep_moving(t) ==
    \/ mem.covered_distance <= total_distance
       /\ Step(t, 18, [mem EXCEPT !.covered_distance = @ + 1], 21)
    \/ Test(t, 21, mem.covered_distance = total_distance, 121, 18)
    \/ NotifyOne(t, 121, "cv", mem, 18)

ask_driver_to_wake_up_time_t(t) ==
    \/ Lock(t, 26, "mut", 27)
    \/ Test(t, 27, mem.covered_distance = total_distance, 28, 270)
    \/ SleepOn(t, 270, "cv", "mut", 271)
    \/ Lock(t, 271, "mut", 27)
    \/ Unlock(t, 28, {"mut"}, mem, End)

run_communication == Main(<<18, 26>>, {"mut"}, {"cv"}, [covered_distance |-> 0])

-----------------------------------------------------------------------------
\* Thread Synchronization/thread_coordination.cpp: nobody sets `completed`.

fetch_data(t) ==
    \/ Step(t, 19, [mem EXCEPT !.i = @ + 1], IF mem.i < Rounds THEN 24 ELSE 33)
    \/ Lock(t, 24, "data_mutex", 25)
    \/ Unlock(t, 25, {"data_mutex"},
              [mem EXCEPT !.s_data = @ + 1, !.update_progress = TRUE], 19)
    \/ Guarded(t, 33, "completed_mutex", mem, End)

progress_bar(t) ==
    \/ \E from \in {43, 48} : Lock(t, from, "data_mutex", 45)
    \/ Test(t, 45, mem.update_progress, 51, 46)
    \/ Unlock(t, 46, {"data_mutex"}, mem, 48)
    \/ Unlock(t, 51, {"data_mutex"},
              [mem EXCEPT !.length = mem.s_data, !.update_progress = FALSE], 59)
    \/ Guarded(t, 59, "completed_mutex", mem, IF mem.completed THEN End ELSE 43)

process_data(t) ==
    \/ \E from \in {69, 74} : Lock(t, from, "data_mutex", 71)
    \/ Test(t, 71, mem.completed, 77, 72)
    \/ Unlock(t, 72, {"data_mutex"}, mem, 74)
    \/ Unlock(t, 77, {"data_mutex"}, mem, 78)
    \/ Guarded(t, 78, "data_mutex", mem, End)

ThreadCoordination ==
    Main(<<19, 43, 69>>, {"data_mutex", "completed_mutex"}, {},
         [i |-> 0, s_data |-> 0, length |-> 0,
          update_progress |-> FALSE, completed |-> FALSE])

-----------------------------------------------------------------------------
\* coordination.cpp: announcements in the order of the threads' numbers.

ordered_print(t) ==
    \/ Lock(t, 44, "coordination_mutex", 47)
    \/ WaitUntil(t, 47, "turn_signal", "coordination_mutex",
                 mem.next_thread_to_execute = t, 50)
    \/ Step(t, 50, [mem EXCEPT !.announced = Append(@, t)], 64)
    \/ NotifyAll(t, 64, "turn_signal",
                 [mem EXCEPT !.next_thread_to_execute = @ + 1], 66)
    \/ Unlock(t, 66, {"coordination_mutex"}, mem, End)

\* The preparation takes any time.
restaurant_announcement(t) == Step(t, 73, mem, 44) \/ ordered_print(t)

Restaurants ==
    Main(<<73, 73, 73, 73>>, {"coordination_mutex"}, {"turn_signal"},
         [next_thread_to_execute |-> 1, announced |-> <<>>])

\* race_condition_latch.cpp: the latch is as high as there are agents, but only
\* the adders, which are half of them, count down.

multiplier_1(t) ==
    \/ Await(t, 19, mem.checkpoint = 0, mem, 21)
    \/ Lock(t, 21, "borrower", 22)
    \/ Unlock(t, 22, {"borrower"}, [mem EXCEPT !.objects = @ * 2], End)

adder_1(t) ==
    \/ Lock(t, 33, "borrower", 34)
    \/ Unlock(t, 34, {"borrower"}, [mem EXCEPT !.objects = @ + 3], 38)
    \/ Step(t, 38, [mem EXCEPT !.checkpoint = @ - 1], End)

Latch == Main(<<19, 33, 19, 33>>, {"borrower"}, {}, [objects |-> 1, checkpoint |-> 4])

-----------------------------------------------------------------------------
\* Asynchronous Programming/cv_soup.cpp: person id is thread id + 1. Who is
\* woken by notify_one() may be one whose turn it never is.

hungry_person(t) ==
    LET turn == t - 1 = mem.soup_servings % 2 \/ mem.soup_servings = 0
    IN  \/ Test(t, 13, mem.soup_servings > 0, 14, End)
        \/ Lock(t, 14, "slow_cooker_lid", 15)
        \/ WaitUntil(t, 15, "soup_taken", "slow_cooker_lid", turn, 20)
        \/ Unlock(t, 20, {"slow_cooker_lid"},
                  [mem EXCEPT !.soup_servings = IF @ > 0 THEN @ - 1 ELSE @],
                  IF mem.soup_servings > 0 THEN 23 ELSE 13)
        \/ NotifyOne(t, 23, "soup_taken", mem, 13)

Soup ==
    Main(<<13, 13, 13, 13, 13>>, {"slow_cooker_lid"}, {"soup_taken"},
         [soup_servings |-> Servings])

\* Asynchronous Programming/producer_consumer_queue.cpp: line 13 asks for the
\* native_handle() of the condition variable and notifies nobody.

serve_queue(t, i, to) ==
    \/ Lock(t, 10, "ladle", 11)
    \/ Unlock(t, 11, {"ladle"}, [mem EXCEPT !.q = Append(@, i)], to)

take_element(t, to) ==
    \/ Lock(t, 17, "ladle", 18)
    \/ WaitUntil(t, 18, "element_served", "ladle", mem.q # <<>>, 22)
    \/ At(t, 22) /\ Unlock(t, 22, {"ladle"},
                          [mem EXCEPT !.q = Tail(@), !.el[t] = Head(mem.q)], to)

queue_producer(t) ==
    \/ Step(t, 36, [mem EXCEPT !.i = @ + 1],
            IF mem.i <= Rounds THEN 10 ELSE End)
    \/ serve_queue(t, IF mem.i <= Rounds THEN mem.i - 1 ELSE -1, 36)

queue_consumer(t) ==
    \/ take_element(t, 49)
    \/ Step(t, 49, IF mem.el[t] = -1 THEN mem
                   ELSE [mem EXCEPT !.consumed = @ + mem.el[t]], 17)

ServerLine ==
    Main(<<36, 17, 17>>, {"ladle"}, {"element_served"},
         [q |-> <<>>, i |-> 0, el |-> <<0, 0, 0>>, consumed |-> 0])

-----------------------------------------------------------------------------
\* Thread Safe Queue/thread_safe_queue.cpp and Thread Safe Stack/
\* thread_safe_stack.cpp, which no program uses: the threads are clients of one
\* operation each, and mem.got is what it returned or Null.

Null == 0

push(t) ==
    \/ Lock(t, 12, "mut", 13)
    \/ NotifyOne(t, 13, "cv", [mem EXCEPT !.queue = Append(@, t)], 15)
    \/ Unlock(t, 15, {"mut"}, mem, End)

pop(t) ==
    Guarded(t, 25, "mut",
            IF mem.queue = <<>> THEN mem
            ELSE [mem EXCEPT !.queue = Tail(@), !.got[t] = Head(mem.queue)], End)

wait_pop(t) ==
    \/ Lock(t, 38, "mut", 39)
    \/ WaitUntil(t, 39, "cv", "mut", mem.queue # <<>>, 42)
    \/ At(t, 42) /\ Unlock(t, 42, {"mut"},
                          [mem EXCEPT !.queue = Tail(@), !.got[t] = Head(mem.queue)], End)

SafeQueueClients ==
    Main(<<12, 12, 12, 38, 38>>, {"mut"}, {"cv"},
         [queue |-> <<>>, got |-> <<Null, Null, Null, Null, Null>>])
SafeQueueWithPop ==
    Main(<<12, 12, 12, 38, 25>>, {"mut"}, {"cv"},
         [queue |-> <<>>, got |-> <<Null, Null, Null, Null, Null>>])

stack_push(t) == Guarded(t, 5, "mut", [mem EXCEPT !._stack = <<t>> \o @], End)

\* On an empty stack pop() throws, and leaves with nothing.
stack_pop(t) ==
    Guarded(t, 19, "mut",
            IF mem._stack = <<>> THEN [mem EXCEPT !.thrown = @ \cup {t}]
            ELSE [mem EXCEPT !._stack = Tail(@), !.got[t] = Head(mem._stack)], End)

SafeStackClients ==
    Main(<<5, 5, 5, 19, 19>>, {"mut"}, {},
         [_stack |-> <<>>, got |-> <<Null, Null, Null, Null, Null>>, thrown |-> {}])

-----------------------------------------------------------------------------
\* A step of thread t, and the programs of this module

MonitorStep(t) ==
    \/ program = "semaphore" /\ (release(t) \/ acquire(t))
    \/ program = "binary_semaphore" /\ BinarySemaphoreThreads(t)
    \/ program = "counter" /\ CounterThreads(t)
    \/ program = "str_monitor" /\ str_monitor(t)
    \/ program = "predicate_coordination"
         /\ (predicate_reader(t) \/ predicate_writer(t))
    \/ program = "condtional_coordination" /\ (reader(t) \/ writer(t))
    \/ program = "navigation"
         /\ (keep_moving(t) \/ ask_driver_to_wake_up_time_t(t))
    \/ program = "thread_coordination"
         /\ (fetch_data(t) \/ progress_bar(t) \/ process_data(t))
    \/ program = "coordination" /\ restaurant_announcement(t)
    \/ program = "race_condition_latch" /\ (multiplier_1(t) \/ adder_1(t))
    \/ program = "cv_soup" /\ hungry_person(t)
    \/ program = "producer_consumer_queue"
         /\ (queue_producer(t) \/ queue_consumer(t))
    \/ program \in {"thread_safe_queue", "thread_safe_queue_pop"}
         /\ (push(t) \/ pop(t) \/ wait_pop(t))
    \/ program = "thread_safe_stack" /\ (stack_push(t) \/ stack_pop(t))

MonitorMains ==
    [semaphore |-> SemaphoreMain,
     binary_semaphore |-> BinarySemaphore,
     counter |-> CounterMain,
     str_monitor |-> StrMonitor,
     predicate_coordination |-> PredicateMain,
     condtional_coordination |-> NoPredicateMain,
     navigation |-> run_communication,
     thread_coordination |-> ThreadCoordination,
     coordination |-> Restaurants,
     race_condition_latch |-> Latch,
     cv_soup |-> Soup,
     producer_consumer_queue |-> ServerLine,
     thread_safe_queue |-> SafeQueueClients,
     thread_safe_queue_pop |-> SafeQueueWithPop,
     thread_safe_stack |-> SafeStackClients]

=============================================================================
