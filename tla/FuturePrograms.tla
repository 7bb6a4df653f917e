--------------------------- MODULE FuturePrograms ----------------------------
(***************************************************************************)
(* The programs that hand results over in promises, futures and tasks, and *)
(* the coroutine generators. A shared state is a field of the memory: it   *)
(* is Pending until its promise, task or async call stores a result.       *)
(***************************************************************************)
EXTENDS Threads

Pending == <<>>
Value(v) == <<"value", v>>
Exception(e) == <<"exception", e>>

\* set_value() and set_exception(); a second call would throw and not return.
Fulfil(t, from, state, result, to) ==
    Await(t, from, mem[state] = Pending, [mem EXCEPT ![state] = result], to)

\* get(): blocks until there is a result; mem.got is what each thread got last.
Get(t, from, state, to) ==
    Await(t, from, mem[state] # Pending, [mem EXCEPT !.got[t] = mem[state]], to)

Join(t, from, u, to) == Await(t, from, Ended(u), mem, to)

\* A thread that main() starts later waits at its first line for that.
Start(t, from, u, to) == Step(t, from, [mem EXCEPT !.started = @ \cup {u}], to)
Started(t, from, to) == Await(t, from, t \in mem.started, mem, to)

Fib[n \in Nat] == IF n <= 2 THEN 1 ELSE Fib[n - 1] + Fib[n - 2]

-----------------------------------------------------------------------------
\* Thread Synchronization/multiple_waiting_threads.cpp
produce(t) == Fulfil(t, 15, "px", Value(42), End)

consume(t) ==
    \/ Get(t, 21, "px", 23)
    \/ Lock(t, 23, "mut", 26)
    \/ Unlock(t, 26, {"mut"}, mem, End)

SharedFuture ==
    Main(<<15, 21, 21>>, {"mut"}, {}, [px |-> Pending, got |-> <<Pending, Pending, Pending>>])

\* Thread Synchronization/producer_consumer.cpp
packet_producer(t) == Fulfil(t, 22, "p", Value("ID-9001"), End)
packet_consumer(t) == Get(t, 35, "p", End)

PacketMain == Main(<<22, 35>>, {}, {}, [p |-> Pending, got |-> <<Pending, Pending>>])

\* Thread Synchronization/producer_consumer_2.cpp: the producer always throws.
throwing_produce(t) ==
    Step(t, 13, mem, 20) \/ Fulfil(t, 20, "px", Exception("out_of_range"), End)

catching_consume(t) ==
    \/ Get(t, 27, "px", 28)
    \/ Test(t, 28, mem.got[t][1] = "exception", 31, 29)
    \/ Step(t, 29, [mem EXCEPT !.printed = "value"], End)
    \/ Step(t, 31, [mem EXCEPT !.printed = "exception"], End)

ThrowingMain ==
    Main(<<13, 27>>, {}, {},
         [px |-> Pending, got |-> <<Pending, Pending>>, printed |-> "nothing"])

-----------------------------------------------------------------------------
\* server_fetching_data.cpp: main is thread 1; mem.printed is what it reports.

fetch_server_data(t) ==
    \/ \E status \in {200, 201} :
          Step(t, 62, [mem EXCEPT !.response = Value(status)], 83)
    \/ Fulfil(t, 83, "server_promise", mem.response, End)

fetch_server_data_with_error(t) ==
    \/ Started(t, 90, 99)
    \/ Step(t, 99, mem, 102)
    \/ Fulfil(t, 102, "error_promise", Exception("server_timeout"), End)

\* Both scenarios: get() in a try block, the report, join().
server_main(t) ==
    LET Report(from, to) == Step(t, from, [mem EXCEPT !.printed = Append(@, mem.got[t][1])], to)
    IN  \/ Step(t, 130, mem, 143)
        \/ Get(t, 143, "server_promise", 148)
        \/ Report(148, 154)
        \/ Join(t, 154, 2, 166)
        \/ Start(t, 166, 3, 172)
        \/ Get(t, 172, "error_promise", 176)
        \/ Report(176, 181)
        \/ Join(t, 181, 3, End)

ServerMain ==
    Main(<<130, 62, 90>>, {}, {},
         [server_promise |-> Pending, error_promise |-> Pending, response |-> Pending,
          started |-> {}, got |-> <<Pending, Pending, Pending>>, printed |-> <<>>])

-----------------------------------------------------------------------------
\* package_task_test.cpp: add() in a detached thread, and in the caller's.

task_thread(t) ==
    \/ Start(t, 16, 2, 18)
    \/ Get(t, 18, "future_1", 24)

packaged_add(t) ==
    \/ Started(t, 8, 10)
    \/ Fulfil(t, 10, "future_1", Value(5 + 6), End)

own_task(t) ==
    \/ Fulfil(t, 24, "future_2", Value(7 + 8), 25)
    \/ Get(t, 25, "future_2", End)

PackageTask ==
    Main(<<16, 8>>, {}, {},
         [future_1 |-> Pending, future_2 |-> Pending, started |-> {},
          got |-> <<Pending, Pending>>])

\* Asynchronous Programming/packaged_task.cpp with the input 3 and 4
p_task(t) == Fulfil(t, 11, "fut", Value(3 + 4), End)
display_result(t) == Get(t, 21, "fut", End)

PackagedTask == Main(<<11, 21>>, {}, {}, [fut |-> Pending, got |-> <<Pending, Pending>>])

\* Asynchronous Programming/asynk_task_launch.cpp: thread 2 computes, and then
\* thread 3 processes, each launched by launch_async_task().
launch_async_task(t, from, u, to) == Start(t, from, u, to)

compute_value(t) == Started(t, 10, 11) \/ Fulfil(t, 11, "future_value", Value(21 * 2), End)

process_value(t) ==
    \/ Started(t, 16, 17)
    \/ Fulfil(t, 17, "final_future", Value(mem.got[1][2] + 10), End)

launching_main(t) ==
    \/ launch_async_task(t, 34, 2, 40)
    \/ Get(t, 40, "future_value", 43)
    \/ launch_async_task(t, 43, 3, 45)
    \/ Get(t, 45, "final_future", End)

AsyncTaskLaunch ==
    Main(<<34, 10, 16>>, {}, {},
         [future_value |-> Pending, final_future |-> Pending, started |-> {},
          got |-> <<Pending, Pending, Pending>>])

\* Asynchronous Programming/futures_demo.cpp
count_objects(t) == Fulfil(t, 9, "result", Value(52), End)
asking_main(t) == Get(t, 16, "result", End)

FuturesDemo == Main(<<16, 9>>, {}, {}, [result |-> Pending, got |-> <<Pending, Pending>>])

\* Asynchronous Programming/futures_promise.cpp: main promises its child the
\* argument, which the child needs for what main then asks of it.
fibonacci(t) ==
    \/ Get(t, 8, "father", 18)
    \/ Fulfil(t, 18, "son", Value(Fib[mem.got[t][2]]), End)

promising_main(t) ==
    \/ Fulfil(t, 28, "father", Value(8), 30)
    \/ Get(t, 30, "son", End)

FuturesPromise ==
    Main(<<28, 8>>, {}, {}, [father |-> Pending, son |-> Pending, got |-> <<Pending, Pending>>])

\* Asynchronous Programming/promise_exception.cpp: throw_exception() throws
\* nothing, so that a negative input too becomes a value, and one that the
\* conversion of a NaN leaves open. calculate_square_root() never takes its
\* catch clause.
calculate_square_root(t) ==
    \/ \E x \in {-1, 4} : Step(t, 15, [mem EXCEPT !.x = x], 19)
    \/ \E root \in IF mem.x = 4 THEN {2} ELSE {0, -1} :
          Fulfil(t, 19, "prom", Value(root), End)

print_result(t) == Get(t, 27, "prom", End)

SquareRoot ==
    Main(<<27, 15>>, {}, {}, [x |-> 1, prom |-> Pending, got |-> <<Pending, Pending>>])

\* Asynchronous Programming/fibonacci.cpp: async() without a policy may start the
\* call in a thread or defer it to get(). main() asks once a second whether the
\* call has ended before it calls get(), which a deferred call never has.
fibonacci_of(t) ==
    \/ Await(t, 7, mem.policy = "async", mem, 13)
    \/ Fulfil(t, 13, "result", Value(Fib[5]), End)

waiting_main(t) ==
    \/ \E policy \in {"async", "deferred"} :
          Step(t, 21, [mem EXCEPT !.policy = policy], 25)
    \/ Test(t, 25, mem.result # Pending, 28, 25)
    \/ Get(t, 28, "result", End)

FibonacciMain ==
    Main(<<21, 7>>, {}, {},
         [result |-> Pending, got |-> <<Pending, Pending>>, policy |-> "none"])

\* Asynchronous Programming/concurrent_tasks.cpp: the squares are computed in
\* any order, and gathered in that of the numbers.
square(t) ==
    Step(t, 9, [mem EXCEPT !.futures[t] = Value(t * t)], End)

\* Mutant: the results are gathered as they come.
Mut_gathering_main(t) ==
    \/ \E k \in 1 .. 4 : mem.futures[k] # Pending /\ Len(mem.results) < 4 /\
          Step(t, 27, [mem EXCEPT !.results = Append(@, mem.futures[k][2])], 27)
    \/ Len(mem.results) = 4 /\ Step(t, 27, mem, End)

gathering_main(t) ==
    \/ LET next == Len(mem.results) + 1
       IN  next <= 4 /\ Await(t, 27, mem.futures[next] # Pending,
                [mem EXCEPT !.results = Append(@, mem.futures[next][2])], 27)
    \/ Len(mem.results) = 4 /\ Step(t, 27, mem, End)

ConcurrentTasks ==
    Main(<<9, 9, 9, 9, 27>>, {}, {},
         [futures |-> <<Pending, Pending, Pending, Pending>>, results |-> <<>>])

-----------------------------------------------------------------------------
\* Launch policies. A deferred call runs in the thread that calls get().

\* Asynchronous Programming/arithmetic.cpp: thread 2 is the async printing().
run_code(t) ==
    \/ Get(t, 29, "f1", 30)
    \/ Step(t, 30, [mem EXCEPT !.f2 = Value(100 + 50)], 130)
    \/ Get(t, 130, "f2", 31)
    \/ Step(t, 31, [mem EXCEPT !.f3 = Value(100 - 50), !.sum = mem.got[t][2]], 131)
    \/ Get(t, 131, "f3", End)

printing(t) == Fulfil(t, 7, "f1", Value("void"), End)

ArithmeticMain ==
    Main(<<29, 7>>, {}, {},
         [f1 |-> Pending, f2 |-> Pending, f3 |-> Pending, sum |-> 0,
          got |-> <<Pending, Pending>>])

\* Asynchronous Programming/launch_opts.cpp: thread 1 calls func() with each
\* option in turn; the default may be either policy. Thread t runs the task of
\* the call that is number t - 1, if it is not deferred.
call_of(m) == Len(m.results) + 1

func(t) ==
    \/ \E policy \in CASE call_of(mem) = 1 -> {"async"}
                        [] call_of(mem) = 2 -> {"deferred"}
                        [] OTHER -> {"async", "deferred"} :
          Step(t, 17, [mem EXCEPT !.result_ = Pending, !.policy = policy,
                                  !.started = IF policy = "async"
                                              THEN @ \cup {call_of(mem) + 1} ELSE @], 30)
    \/ mem.policy = "deferred" /\ Fulfil(t, 30, "result_", Value(42), 130)
    \/ mem.policy = "async" /\ Await(t, 30, mem.result_ # Pending, mem, 130)
    \/ Step(t, 130, [mem EXCEPT !.results = Append(@, mem.result_[2])],
            IF call_of(mem) = 3 THEN End ELSE 17)

\* The thread of a call that was deferred is never made.
launched_task(t) ==
    \/ t \notin mem.started /\ call_of(mem) >= t /\ Step(t, 10, mem, End)
    \/ Started(t, 10, 13)
    \/ Fulfil(t, 13, "result_", Value(42), End)

LaunchOptions ==
    Main(<<17, 10, 10, 10>>, {}, {},
         [result_ |-> Pending, policy |-> "none", started |-> {}, results |-> <<>>])

-----------------------------------------------------------------------------
\* Generators: mem.i is the local of the suspended coroutine, mem.state where
\* it is suspended, and resume(m) the memory at its next suspension.

Yields(m, i) == [m EXCEPT !.i = i, !.value = i, !.state = "suspended"]
Returns(m) == [m EXCEPT !.state = "done"]

\* Asynchronous Programming/corountines_lazy_gen.cpp
countdown(m) ==
    LET i == IF m.state = "initial" THEN Rounds ELSE m.i - 1
    IN  IF i > 0 THEN Yields(m, i) ELSE Returns(m)

\* next(): a finished coroutine is not resumed.
next(t, from, yes, no) ==
    IF mem.state = "done" THEN Step(t, from, mem, no)
    ELSE LET m == countdown(mem)
         IN  Step(t, from, m, IF m.state = "done" THEN no ELSE yes)

countdown_main(t) ==
    \/ At(t, 45) /\ next(t, 45, 46, End)
    \/ Step(t, 46, [mem EXCEPT !.printed = Append(@, mem.value)], 45)

CountdownMain ==
    Main(<<45>>, {}, {}, [i |-> 0, value |-> 0, state |-> "initial", printed |-> <<>>])

\* Asynchronous Programming/lazy_sequence_generator.cpp: next() resumes the
\* coroutine without asking whether it has finished.
count_to(m) ==
    LET i == IF m.state = "initial" THEN 1 ELSE m.i + 1
    IN  IF i <= Rounds THEN Yields(m, i) ELSE Returns(m)

count_main(t) ==
    \/ At(t, 40) /\ LET m == count_to(mem)
                    IN  /\ mem.state # "done"
                        /\ Step(t, 40, m, IF m.state = "done" THEN End ELSE 140)
    \/ Step(t, 140, [mem EXCEPT !.printed = Append(@, mem.value)], 40)

CountMain ==
    Main(<<40>>, {}, {}, [i |-> 0, value |-> 0, state |-> "initial", printed |-> <<>>])

\* Asynchronous Programming/coroutines_lazy_eval.cpp: nothing is computed before
\* get().
lazy_main(t) ==
    Step(t, 41, [Yields(mem, 42) EXCEPT !.printed = <<42>>], End)

LazyMain ==
    Main(<<41>>, {}, {}, [i |-> 0, value |-> 0, state |-> "initial", printed |-> <<>>])

-----------------------------------------------------------------------------
\* A step of thread t, and the programs of this module

FutureStep(t) ==
    \/ program = "multiple_waiting_threads" /\ (produce(t) \/ consume(t))
    \/ program = "packet" /\ (packet_producer(t) \/ packet_consumer(t))
    \/ program = "throwing_producer" /\ (throwing_produce(t) \/ catching_consume(t))
    \/ program = "server_fetching_data"
         /\ (fetch_server_data(t) \/ fetch_server_data_with_error(t) \/ server_main(t))
    \/ program = "package_task_test"
         /\ (task_thread(t) \/ packaged_add(t) \/ own_task(t))
    \/ program = "packaged_task" /\ (p_task(t) \/ display_result(t))
    \/ program = "asynk_task_launch"
         /\ (compute_value(t) \/ process_value(t) \/ launching_main(t))
    \/ program = "futures_demo" /\ (count_objects(t) \/ asking_main(t))
    \/ program = "futures_promise" /\ (fibonacci(t) \/ promising_main(t))
    \/ program = "promise_exception" /\ (calculate_square_root(t) \/ print_result(t))
    \/ program = "fibonacci" /\ (fibonacci_of(t) \/ waiting_main(t))
    \/ program = "concurrent_tasks" /\ (square(t) \/ gathering_main(t))
    \/ program = "arithmetic" /\ (run_code(t) \/ printing(t))
    \/ program = "launch_opts" /\ (func(t) \/ launched_task(t))
    \/ program = "countdown" /\ countdown_main(t)
    \/ program = "count_to" /\ count_main(t)
    \/ program = "lazy_evaluation" /\ lazy_main(t)

FutureMains ==
    [multiple_waiting_threads |-> SharedFuture,
     packet |-> PacketMain,
     throwing_producer |-> ThrowingMain,
     server_fetching_data |-> ServerMain,
     package_task_test |-> PackageTask,
     packaged_task |-> PackagedTask,
     asynk_task_launch |-> AsyncTaskLaunch,
     futures_demo |-> FuturesDemo,
     futures_promise |-> FuturesPromise,
     promise_exception |-> SquareRoot,
     fibonacci |-> FibonacciMain,
     concurrent_tasks |-> ConcurrentTasks,
     arithmetic |-> ArithmeticMain,
     launch_opts |-> LaunchOptions,
     countdown |-> CountdownMain,
     count_to |-> CountMain,
     lazy_evaluation |-> LazyMain]

=============================================================================
