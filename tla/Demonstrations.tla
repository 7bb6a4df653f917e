---------------------------- MODULE Demonstrations ----------------------------
(***************************************************************************)
(* The demonstration programs together: a behaviour is the run of one of   *)
(* them, from its main() on, under every interleaving of its threads.      *)
(***************************************************************************)
EXTENDS LockPrograms, MonitorPrograms, EventPrograms, FuturePrograms,
        SchedulerPrograms, KernelPrograms, DataPrograms

vars == machineVars

ThreadStep(t) ==
    /\ t \in Thread
    /\ \/ LockStep(t)
       \/ MonitorStep(t)
       \/ EventStep(t)
       \/ FutureStep(t)
       \/ SchedulerStep(t)
       \/ KernelStep(t)
       \/ DataStep(t)

\* One initial state for every program of a family.
Boots(Mains) == \E p \in DOMAIN Mains : p \in Programs /\ Boot(p, Mains[p])

Init ==
    \/ Boots(LockMains)
    \/ Boots(MonitorMains)
    \/ Boots(EventMains)
    \/ Boots(FutureMains)
    \/ Boots(SchedulerMains)
    \/ Boots(KernelMains)
    \/ Boots(DataMains)

Next == SpuriousWakeup \/ \E t \in Thread : ThreadStep(t)

\* Every runnable thread gets to run, and a condition variable does not wake
\* threads for nothing for ever. Where the code makes more sure than that: the
\* consumer of producer_consumer.cpp sleeps without the mutex (line 43), and a
\* compare and exchange does not fail for ever without a reason.
Fairness ==
    /\ \A t \in 1 .. 9 : WF_vars(ThreadStep(t))
    /\ <>[][~SpuriousWakeup]_vars
    /\ SF_vars(program = "producer_consumer" /\ producer(1))
    /\ \A t \in 2 .. 3 : SF_vars(program = "lock_free_stack" /\ push_succeeds(t, 53))

Spec == Init /\ [][Next]_vars /\ Fairness

-----------------------------------------------------------------------------
\* Type invariant

AtEnd(p) == program = p /\ AllEnded

\* A mutex belongs to a thread of the program or to nobody, a thread sleeps at
\* one place and not after its end, and the counts that the code bounds (of
\* permits, of who is expected at a latch, of the mutex's nested calls, of the
\* sushi of who counts under the mutex) stay in their bounds.
TypeOK ==
    /\ program \in Programs
    /\ \A t \in Thread : pc[t] \in Nat
    /\ \A m \in DOMAIN owner : owner[m] \in Thread \cup {Nobody}
    /\ \A c \in DOMAIN asleep : \A t \in asleep[c] : t \in Thread /\ ~Ended(t)
    /\ program = "semaphore" => mem.counter \in 0 .. max_counter
    /\ program = "race_condition_latch" => mem.checkpoint \in 2 .. 4
    /\ program = "recursive_mutex" =>
          mem.depth \in 0 .. 5 /\ (mem.depth > 0 <=> owner["rm"] # Nobody)
    /\ program \in {"abandoned_lock", "scoped_lock_abandoned", "starvation",
                    "dead_lock_philosophers", "livelock_philosophers"} =>
          mem.sushi_count \in 0 .. Sushi

-----------------------------------------------------------------------------
\* Mutual exclusion

\* unlock() of a std::mutex does not look at who calls. Yet whoever gives a mutex
\* up is the thread that holds it, whatever lock guard or early return it is
\* reached through. In philosophers_scoped_lock.cpp the body and the destructors
\* both unlock, and there the second of the two may free another's chopstick.
OnlyHolderReleases ==
    [][program # "philosophers_scoped_lock" =>
         \A m \in DOMAIN owner :
            owner[m] # Nobody /\ owner'[m] # owner[m] =>
               /\ owner'[m] = Nobody
               /\ pc'[owner[m]] # pc[owner[m]] \/ asleep' # asleep]_vars

\* At most one of the threads is at the lines L.
OneAt(L) == \A t, u \in Thread : pc[t] \in L /\ pc[u] \in L => t = u
Neighbours(t, u) == {left(t), right(t)} \cap {left(u), right(u)} # {}

\* Those who eat beside each other do not eat at once, however they got at their
\* forks; a writer is alone; the spin lock, the critical section and the swarm's
\* flag let one thread through.
Exclusive ==
    /\ program = "dead_lock_philosophers" => OneAt({14, 16})
    /\ program \in {"dining_philosophers", "try_lock_dining_philosophers"} =>
          \A t, u \in Thread :
             pc[t] \in {56, 58} /\ pc[u] \in {56, 58} /\ Neighbours(t, u) => t = u
    /\ program = "read_write" => (mem.readers # {} => owner["shrd_mut"] = Nobody)
    /\ program = "spin_lock" => OneAt({18, 21})
    /\ program = "histogram" => OneAt({30, 32})
    /\ program = "atomics_class" =>
          Cardinality(mem.won) <= 1 /\ (AllEnded => mem.won # {})

-----------------------------------------------------------------------------
\* What is counted, handed over and made

\* After the last join no increment is missing where a mutex or an atomic guards
\* the count, and the threads that race for it lose some but leave at least two.
CountsAddUp ==
    /\ AtEnd("scoped_lock_dead_lock") =>
          \A count \in {mem.database, mem.cache, mem.network} : count = 2 * Rounds
    /\ AtEnd("starvation") => SumOf[mem.sushi_eaten] = Sushi
    /\ AtEnd("objects") => mem.value = 10 + 1 + 2 + 3 + 4 + 5
    /\ AtEnd("mutex_example_1") \/ AtEnd("atomic_example") => mem.item_count = 2 * Rounds
    /\ AtEnd("recursive_mutex") => mem.fact = <<6, 24, 120, 6, 24>>
    /\ AtEnd("basic_counter") => mem.counter = 2 * Rounds
    /\ AtEnd("counter_pool") => mem.printed = <<3 * Rounds>>
    /\ AtEnd("atomics_class") => mem.g_count \in Rounds .. 3 * Rounds
    /\ AtEnd("semaphore") => mem.counter + mem.dropped = 1
    /\ AtEnd("data_race") => mem.counter \in 2 .. 2 * Rounds
    /\ AtEnd("exec_policies") => mem.counter \in 1 .. 3 /\ \E t \in 1 .. 3 : mem.v[t] = 0

\* Every element is in one place: `in` one of several containers that hold Count
\* elements together, and in none twice.
EachOnce(elements, containers, count) == containers = elements /\ count = Cardinality(elements)
Contents(seq) == {seq[k] : k \in DOMAIN seq}

Served(t) == {mem.got[t]} \ {Null}
Pushed(after) == {t \in 1 .. 3 : pc[t] \in after}
\* The nodes in every set that has the head and, with a node, the one below it.
Reachable ==
    LET closed == {S \in SUBSET DOMAIN mem.next :
                      {mem.head} \cup {mem.next[n] : n \in S} \subseteq S \cup {nullptr}}
    IN  {n \in DOMAIN mem.next : \A S \in closed : n \in S}

\* No money, element, job or node is lost or got twice, whoever takes it and
\* whenever the program stops; those of producer_consumer.cpp come in order.
NothingLost ==
    /\ program = "mutex_example" =>
          SumOf[mem.balance] = 2 * Balance /\ \A a \in 1 .. 2 : mem.balance[a] >= 0
    /\ program = "producer_consumer" =>
          mem.popped \o mem.q = [k \in 1 .. mem.i |-> k - 1]
    /\ program \in {"thread_safe_queue", "thread_safe_queue_pop"} =>
          EachOnce(Pushed({15, End}), Contents(mem.queue) \cup Served(4) \cup Served(5),
                   Len(mem.queue) + Cardinality(Served(4)) + Cardinality(Served(5)))
    /\ program = "thread_safe_stack" =>
          EachOnce(Pushed({End}), Contents(mem._stack) \cup Served(4) \cup Served(5),
                   Len(mem._stack) + Cardinality(Served(4)) + Cardinality(Served(5)))
    /\ program = "jthread_1" =>
          LET working == {t \in {4, 5} : pc[t] \in {121, 122}}
          IN  EachOnce(1 .. (IF pc[2] = 21 THEN mem.id - 1 ELSE mem.id),
                       mem.checksum_ \cup {mem.job[t] : t \in working} \cup Contents(mem.queue_),
                       mem.completed_ + Cardinality(working) + Len(mem.queue_))
    /\ program = "lock_free_stack" =>
          /\ Reachable \cup {mem.newNode[t] : t \in {u \in 2 .. 3 : pc[u] \in {31, 32, 33}}}
               = DOMAIN mem.next
          /\ AllEnded => /\ mem.count = 2 * Rounds
                         /\ EachOnce(DOMAIN mem.next, Contents(mem.deleted), Len(mem.deleted))

\* However many threads find no instance, one is made, and it is the one that each
\* of them gets; who gets a pointer gets one that points to something. The four
\* ways of Lazy Initialization/source.cpp make one object each, and two of them
\* keep it in the same pointer.
OneInstance ==
    /\ program \in {"call_once", "singleton", "double_check", "atomic_double_checked"} =>
          mem.made <= 1 /\ \A t \in Thread : Ended(t) => mem.used[t] = 1
    /\ program = "lazy_initialization" =>
          /\ mem.made <= 4
          /\ \A t, u \in Thread : Ended(t) /\ Ended(u) =>
                /\ mem.t2[t] = mem.t2[u] /\ mem.t3[t] = mem.t3[u] /\ mem.t4[t] = mem.t4[u]
                /\ mem.t1[t] \in {1, mem.t2[t]}
                /\ Cardinality({nullptr, mem.t2[t], mem.t3[t], mem.t4[t]}) = 4

\* "All threads completed. Only one Test object was created!" (source.cpp:131)
OnlyOneTest == AtEnd("lazy_initialization") => mem.made = 1

\* scheduler_main destroys the results before the threads that use them, but not
\* the queue: that one the threads do not outlive.
OnlyResultsUsedLate ==
    program = "jthread_1" => mem.late \subseteq {"resultMutex_", "completed_", "checksum_"}

-----------------------------------------------------------------------------
\* Order

\* Announcements are made in the order of the numbers whatever the preparation
\* takes. No agent is in a superstep before all others have come through the last
\* one. A configuration is seen whole, and never an older one after a newer. The
\* readers see what the writer has announced, and not what was there before.
OrderKept ==
    /\ program = "coordination" => \A k \in DOMAIN mem.announced : mem.announced[k] = k
    /\ program = "barrier" =>
          \A t, u \in Thread : mem.superstep[t] \in mem.superstep[u] - 1 .. mem.superstep[u] + 1
    /\ program = "config_manager" =>
          \A k \in DOMAIN mem.seen :
             /\ mem.seen[k] \in {<<0, "init">>, <<1, "alpha">>, <<2, "beta">>,
                                 <<mem.seen[k][1], "?">>}
             /\ k > 1 => mem.seen[k - 1][1] <= mem.seen[k][1]
    /\ program = "predicate_coordination" =>
          \A t \in 2 .. 4 : Ended(t) => mem.seen[t] = "modified"
    /\ program = "counter" => (Ended(1) => mem.value_ >= threshold_)

\* Every get() returns what its promise, task or call ended with, value or
\* exception, whichever thread ran it and in whichever order they ended; the
\* generators yield each element once and in order.
ResultsDelivered ==
    /\ AtEnd("multiple_waiting_threads") => mem.got[2] = Value(42) /\ mem.got[3] = Value(42)
    /\ AtEnd("packet") => mem.got[2] = Value("ID-9001")
    /\ AtEnd("throwing_producer") => mem.printed = "exception"
    /\ AtEnd("server_fetching_data") => mem.printed = <<"value", "exception">>
    /\ AtEnd("package_task_test") => mem.future_1 = Value(11) /\ mem.got[1] = Value(15)
    /\ AtEnd("packaged_task") => mem.got[2] = Value(7)
    /\ AtEnd("asynk_task_launch") => mem.got[1] = Value(52)
    /\ AtEnd("futures_demo") => mem.got[1] = Value(52)
    /\ AtEnd("futures_promise") => mem.got[1] = Value(21)
    /\ program = "fibonacci" /\ Ended(1) => mem.policy = "async" /\ mem.got[1] = Value(5)
    /\ AtEnd("promise_exception") => mem.got[1] = mem.prom /\ mem.prom[1] = "value"
    /\ AtEnd("arithmetic") => mem.sum = 150 /\ mem.got[1] = Value(50)
    /\ program = "concurrent_tasks" =>
          mem.results = [k \in DOMAIN mem.results |-> k * k] /\ (AllEnded => Len(mem.results) = 4)
    /\ AtEnd("launch_opts") => mem.results = <<42, 42, 42>>
    /\ AtEnd("countdown") => mem.printed = [k \in 1 .. Rounds |-> Rounds - k + 1]
    /\ AtEnd("count_to") => mem.printed = [k \in 1 .. Rounds |-> k]
    /\ AtEnd("str_monitor") => mem.printed[Rounds] = [k \in 1 .. 2 * Rounds |-> (k - 1) \div 2]

-----------------------------------------------------------------------------
\* Data shared out among threads

Permuted(a, b) ==
    Len(a) = Len(b) /\ \A x \in Contents(a) \cup Contents(b) :
        Cardinality({k \in DOMAIN a : a[k] = x}) = Cardinality({k \in DOMAIN b : b[k] = x})

Primes(n) == {p \in 2 .. n : \A d \in 2 .. p - 1 : p % d # 0}

\* The parts that the threads do make up the whole: each term is summed once, each
\* iteration and cell handled once, and the sorted array is the sorted input,
\* whoever is first. The sieve is exact although its workers overwrite each other's
\* bits. A float sum is exact as long as no quarter exceeds the mantissa.
PartsMakeTheWhole ==
    /\ AtEnd("merge_sort") => /\ Permuted(mem.arr, mem.input)
                              /\ \A k \in 2 .. Length : mem.arr[k - 1] <= mem.arr[k]
    /\ AtEnd("parallel_accumulate") => mem.sum[1] = PowerSum(0, 4)
    /\ AtEnd("measure_speed") => ~mem.mismatch /\ mem.sum[1] = PowerSum(0, Length)
    /\ AtEnd("parallel_sum") => mem.total = PowerSum(0, mem.size)
    /\ AtEnd("vector_parallel_sum") =>
          (mem.sum = (mem.n * (mem.n + 1)) \div 2 <=> mem.n < 2 * Length)
    /\ AtEnd("prime_sieve") => mem.primes = Primes(mem.n)
    /\ AtEnd("thread_unroll") => Permuted(mem.processed, <<<<0, 0>>, <<0, 1>>, <<1, 0>>, <<1, 1>>>>)
    /\ AtEnd("for_reduction") => mem.printed = (Length * (Length + 1)) \div 2
    /\ AtEnd("reduction") => mem.printed = 4
    /\ AtEnd("histogram") => \A b \in 0 .. 1 :
          mem.histogram[b] = Cardinality({i \in 1 .. Length : mem.data[i] = b})
    /\ AtEnd("matrix_multiplication") => mem.C = <<0, 1, 0, 2>>
    /\ AtEnd("pi_monteCarlo") => mem.shots = Length /\ mem.num_hits = SumOf[mem.private]
    /\ AtEnd("loops") \/ AtEnd("parallel_region") \/ AtEnd("unrolling") =>
          Permuted(mem.handled, [k \in 1 .. Length |-> k])
    /\ AtEnd("thread_join") =>
          /\ Permuted(SubSeq(mem.handled, 1, Team), [k \in 1 .. Team |-> k])
          /\ mem.handled[Team + 1] = "All threads joined"

\* An element is written by one item, and none outside the buffer is, however the
\* items are grouped and whether they fill the last block; the stencil leaves its
\* ends out. With the sum of indices in block_thread_indexing.cu the first half is
\* left out, an element is written twice and one that is not there is written.
EveryElementOnce ==
    /\ program \in {"vector_add", "saxpy", "non_linear_transform", "vec_addition",
                    "double_vec", "zero_fill", "invert_rgba", "convolution_1d"} =>
          LET written == IF program = "convolution_1d" THEN 1 .. Elements - 2
                         ELSE 0 .. Elements - 1
              done == AllEnded /\ mem.launched = "yes"
          IN  \A i \in DOMAIN mem.writes :
                 IF i \in written THEN mem.writes[i] \in (IF done THEN {1} ELSE 0 .. 1)
                 ELSE mem.writes[i] = 0
    /\ AtEnd("block_thread_indexing") =>
          mem.writes = [i \in 0 .. 2 * BlockSize |->
                            IF i < BlockSize THEN 0 ELSE IF i = BlockSize + 1 THEN 2 ELSE 1]

\* w is v without the elements that the predicate rejects, in the order of v.
Compacted(v, w) ==
    \E place \in [DOMAIN w -> DOMAIN v] :
        /\ \A j, k \in DOMAIN w : j < k => place[j] < place[k]
        /\ {place[k] : k \in DOMAIN w} = {i \in DOMAIN v : predicate(v[i])}
        /\ \A k \in DOMAIN w : w[k] = v[place[k]]

Ring(c) == CHOOSE r \in 0 .. nx : /\ \A d \in 1 .. 2 : r <= c[d] /\ r <= nx - 1 - c[d]
                                 /\ \E d \in 1 .. 2 : r = c[d] \/ r = nx - 1 - c[d]

\* What a host reads and checks is the result of all items. No item of a reduction
\* or of a tile is overtaken by its neighbours between two barriers. The selection
\* keeps the elements in order. The buffer that nobody initialises spreads one ring
\* of cells inwards a step.
KernelsExact ==
    /\ AllEnded /\ program \in {"saxpy", "non_linear_transform", "convolution_1d",
                                "parallel_reduction"} =>
          mem.printed = IF mem.launched = "yes" THEN "correct" ELSE ""
    /\ AtEnd("vector_add") /\ mem.launched = "yes" =>
          \A i \in DOMAIN mem.read : mem.read[i] = <<i, 2 * i>>
    /\ AtEnd("vec_addition") => \A i \in DOMAIN mem.read : mem.read[i] = <<i, Elements - i>>
    /\ AtEnd("double_vec") => \A i \in DOMAIN mem.data : mem.data[i] = 2 * (i + 1)
    /\ program = "tiled_matmul" =>
          /\ \A t \in Items : Ended(t) => mem.acc[t] = Terms(mem.block[2] + ty(t), mem.block[1] + tx(t))
          /\ mem.z \in {{}, {mem.acc[t] : t \in {u \in Items : ty(u) = 0}}}
    /\ AtEnd("select") => Compacted(mem.v, mem.w)
    /\ AtEnd("daxpy") => mem.ok /\ \A i \in DOMAIN mem.y : mem.y[i] = 2 + 2 * i * (Rounds + 2)
    /\ program = "fvm_solver" =>
          {c \in cells : Inner(c) /\ mem.u[c] = Unknown} = {c \in cells : Ring(c) \in 1 .. mem.s - 1}

-----------------------------------------------------------------------------
\* Which programs end

NeverEnds ==
    {"abandoned_lock", "livelock_philosophers", "shared_mutex", "navigation",
     "thread_coordination", "race_condition_latch", "producer_consumer_queue",
     "managing_thread"}

MayHang ==
    {"dead_lock_philosophers", "philosophers_scoped_lock", "condtional_coordination",
     "cv_soup", "one_shot_event_twice"}

\* Five threads may put their forks back together for ever, and one may look for
\* ever at a flag that it has read once.
MayStarve == {"dining_philosophers", "basics"}

\* fibonacci.cpp asks for ever whether its call has ended, if the call is deferred.
PollsForEver == program = "fibonacci" /\ mem.policy = "deferred"

\* Under fair scheduling every other program comes to its end: no wait is left
\* without a wake-up, nobody waits for who waits for him, and each loop that polls
\* gets to see what it polls for. fibonacci.cpp does once its call has a thread.
SafeProgramsEnd ==
    /\ (program \notin NeverEnds \cup MayHang \cup MayStarve \cup {"fibonacci"}) ~> AllEnded
    /\ (program = "fibonacci" /\ mem.policy = "async") ~> AllEnded

Stuck == ~AllEnded /\ \A t \in Thread : ~ENABLED ThreadStep(t)

\* Whoever has not ended sleeps at a condition variable.
OnlySleepersLeft == \A t \in Thread : Ended(t) \/ Sleeping(t)
WaitsAt(t, line, m) == pc[t] = line /\ owner[m] # Nobody

\* No program of NeverEnds ends, nor does a poll for a deferred call. A program
\* stops for good in the ways below only: chopsticks taken crosswise, a
\* mutex that its holder takes with him or locks twice, a notification that came
\* before the wait, went to the wrong thread or was never sent, a latch that is
\* higher than who counts it down, and the end of main() by an exception.
HangsOnlyAsKnown ==
    /\ program \in NeverEnds => ~AllEnded
    /\ PollsForEver => pc[1] = 25
    /\ Stuck =>
        \/ program \in {"dead_lock_philosophers", "philosophers_scoped_lock"}
             /\ owner["a"] = 1 /\ owner["b"] = 2 /\ pc = <<12, 12>>
        \/ program = "abandoned_lock" /\ Ended(owner["chopsticks"])
             /\ mem.sushi_count = Enough
        \/ program = "livelock_philosophers" /\ \E t \in Thread :
             WaitsAt(t, 12, "a") /\ WaitsAt(t, 12, "b")
        \/ program = "shared_mutex" /\ pc[owner["ptr"]] \in {19, 29}
        \/ program \in {"condtional_coordination", "cv_soup", "one_shot_event_twice",
                        "producer_consumer_queue"} /\ OnlySleepersLeft
        \/ program = "navigation" /\ mem.covered_distance > total_distance
             /\ (Ended(2) \/ Sleeping(2))
        \/ program = "race_condition_latch" /\ mem.checkpoint = 2
             /\ \A t \in Thread : Ended(t) <=> t % 2 = 0
        \/ program = "managing_thread" /\ mem.terminated
=============================================================================
