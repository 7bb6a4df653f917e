------------------------- MODULE DemonstrationsProofs -------------------------
(***************************************************************************)
(* What holds of the demonstration programs for every value of the         *)
(* constants, that is, for loops of any length, any number of elements and *)
(* any team of OpenMP: who holds which lock, what is built once, in which  *)
(* order things happen, and what the programs deliver and count.           *)
(***************************************************************************)
EXTENDS Demonstrations, FiniteSetTheorems, SequenceTheorems, TLAPS,
        WellFoundedInduction

-----------------------------------------------------------------------------
\* Who has locked what

\* The threads, mutexes and condition variables of a program.
Setting(threads, mutexes, conditions) ==
    Thread = threads /\ DOMAIN owner = mutexes /\ DOMAIN asleep = conditions

SetUp ==
    /\ program \in {"abandoned_lock", "scoped_lock_abandoned"} =>
          Setting(1 .. 2, {"chopsticks"}, {})
    /\ program = "starvation" =>
          Setting(1 .. 3, {"chopsticks"}, {})
    /\ program = "dead_lock_philosophers" =>
          Setting(1 .. 2, {"a", "b"}, {})
    /\ program = "livelock_philosophers" =>
          Setting(1 .. 4, {"a", "b"}, {})
    /\ program = "scoped_lock_dead_lock" =>
          Setting(1 .. 3, {"database", "cache", "network"}, {})
    /\ program \in {"deadlock_1", "deadlock_2"} =>
          Setting(1 .. 2, {"m1", "m2"}, {})
    /\ program \in {"dining_philosophers", "try_lock_dining_philosophers"} =>
          Setting(1 .. 5, forks, {})
    /\ program = "mutex_example" =>
          Setting(1 .. 4, {1, 2}, {})
    /\ program \in {"mutex_example_1", "atomic_example"} =>
          Setting(1 .. 2, {"pencil"}, {})
    /\ program = "objects" =>
          Setting(1 .. 5, {"mtx"}, {})
    /\ program = "unique_mtx" =>
          Setting(1 .. 3, {"print_mutex"}, {})
    /\ program = "unique_mtx2" =>
          Setting(1 .. 2, {"mtx"}, {})
    /\ program = "read_write" =>
          Setting(1 .. 4, {"shrd_mut"}, {})
    /\ program = "recursive_mutex" =>
          Setting(1 .. 5, {"rm"}, {})
    /\ program = "shared_mutex" =>
          Setting(1 .. 4, {"ptr"}, {})
    /\ program = "producer_consumer" =>
          Setting(1 .. 2, {"p_mtx"}, {})
    /\ program \in {"semaphore", "thread_safe_queue",
                  "thread_safe_queue_pop"} =>
          Setting(1 .. 5, {"mut"}, {"cv"})
    /\ program = "counter" =>
          Setting(1 .. 3, {"mtx_"}, {"cond_"})
    /\ program = "predicate_coordination" =>
          Setting(1 .. 4, {"mut"}, {"cond_var"})
    /\ program = "condtional_coordination" =>
          Setting(1 .. 2, {"mut"}, {"cond_var"})
    /\ program = "navigation" =>
          Setting(1 .. 2, {"mut"}, {"cv"})
    /\ program = "thread_coordination" =>
          Setting(1 .. 3, {"data_mutex", "completed_mutex"}, {})
    /\ program = "coordination" =>
          Setting(1 .. 4, {"coordination_mutex"}, {"turn_signal"})
    /\ program = "race_condition_latch" =>
          Setting(1 .. 4, {"borrower"}, {})
    /\ program = "cv_soup" =>
          Setting(1 .. 5, {"slow_cooker_lid"}, {"soup_taken"})
    /\ program = "producer_consumer_queue" =>
          Setting(1 .. 3, {"ladle"}, {"element_served"})
    /\ program = "lazy_initialization" =>
          Setting(1 .. 2, {"instanceMutex", "smartMutex"}, {})
    /\ program = "double_check" =>
          Setting(1 .. 3, {"process_mutex"}, {})
    /\ program \in {"atomic_double_checked", "multiple_waiting_threads"} =>
          Setting(1 .. 3, {"mut"}, {})
    /\ program = "spin_lock" =>
          Setting(1 .. 4, {"lock_cout"}, {})
    /\ program = "jthread_1" =>
          Setting(1 .. 5, {"mutex_", "resultMutex_"}, {"cv_"})
    /\ program = "histogram" =>
          Setting(1 .. Team, {"critical"}, {})

\* At one of the lines, thread t has locked the mutexes.
Holds(t, lines, mutexes) == pc[t] \in lines => \A m \in mutexes : owner[m] = t

\* The critical sections, by their lines.
LocksHeld == \A t \in Thread :
    /\ program = "abandoned_lock" =>
          Holds(t, {11, 12, 16}, {"chopsticks"})
    /\ program = "scoped_lock_abandoned" =>
          Holds(t, {11, 12}, {"chopsticks"})
    /\ program = "starvation" =>
          Holds(t, {12}, {"chopsticks"})
    /\ program = "dead_lock_philosophers" =>
          /\ Holds(t, {12, 14, 16, 17}, {Opposite.first[t]})
          /\ Holds(t, {14, 16}, {Opposite.second[t]})
    /\ program = "livelock_philosophers" =>
          Holds(t, {12, 14, 15, 19}, {<<"a", "b", "a", "b">>[t]})
    /\ program = "scoped_lock_dead_lock" =>
          /\ Holds(t, {27}, {"database", "cache"})
          /\ Holds(t, {41}, {"cache", "network"})
          /\ Holds(t, {55}, {"network", "database"})
    /\ program = "deadlock_1" =>
          /\ Holds(t, {22, 36}, {"m1", "m2"})
          /\ Holds(t, {24, 38}, {"m1"})
    /\ program = "deadlock_2" =>
          /\ Holds(t, {23}, {"m1", "m2"})
          /\ Holds(t, {26}, {"m1"})
    /\ program = "dining_philosophers" =>
          /\ Holds(t, {50, 56, 59, 60, 66}, {left(t)})
          /\ Holds(t, {56, 59}, {right(t)})
    /\ program = "try_lock_dining_philosophers" =>
          /\ Holds(t, {58, 65}, {left(t)})
          /\ Holds(t, {58, 65, 66}, {right(t)})
    /\ program = "mutex_example" =>
          Holds(t, {148, 150}, {1, 2})
    /\ program = "mutex_example_1" =>
          Holds(t, {11, 14, 16}, {"pencil"})
    /\ program = "atomic_example" =>
          Holds(t, {14, 16, 18}, {"pencil"})
    /\ program = "objects" =>
          Holds(t, {45, 26, 51}, {"mtx"})
    /\ program = "unique_mtx" =>
          Holds(t, {15}, {"print_mutex"})
    /\ program = "unique_mtx2" =>
          Holds(t, {16, 31}, {"mtx"})
    /\ program = "read_write" =>
          Holds(t, {14}, {"shrd_mut"})
    /\ program = "recursive_mutex" =>
          Holds(t, {12}, {"rm"})
    /\ program = "producer_consumer" =>
          Holds(t, {45}, {"p_mtx"})
    /\ program = "semaphore" =>
          Holds(t, {14, 19, 20, 30}, {"mut"})
    /\ program = "counter" =>
          Holds(t, {15, 17, 18, 20, 50}, {"mtx_"})
    /\ program = "predicate_coordination" =>
          Holds(t, {25, 38}, {"mut"})
    /\ program = "condtional_coordination" =>
          Holds(t, {20, 23, 35}, {"mut"})
    /\ program = "navigation" =>
          Holds(t, {27, 28, 270}, {"mut"})
    /\ program = "thread_coordination" =>
          Holds(t, {25, 45, 46, 51, 71, 72, 77}, {"data_mutex"})
    /\ program = "coordination" =>
          Holds(t, {50, 64, 66}, {"coordination_mutex"})
    /\ program = "race_condition_latch" =>
          Holds(t, {22, 34}, {"borrower"})
    /\ program = "cv_soup" =>
          Holds(t, {20}, {"slow_cooker_lid"})
    /\ program = "producer_consumer_queue" =>
          Holds(t, {11, 22}, {"ladle"})
    /\ program \in {"thread_safe_queue", "thread_safe_queue_pop"} =>
          Holds(t, {13, 15, 42}, {"mut"})
    /\ program = "lazy_initialization" =>
          /\ Holds(t, {48}, {"instanceMutex"})
          /\ Holds(t, {87}, {"smartMutex"})
    /\ program = "double_check" =>
          Holds(t, {19, 21, 24}, {"process_mutex"})
    /\ program = "atomic_double_checked" =>
          Holds(t, {21, 22, 24}, {"mut"})
    /\ program = "spin_lock" =>
          Holds(t, {18, 21}, {"lock_cout"})
    /\ program = "multiple_waiting_threads" =>
          Holds(t, {26}, {"mut"})
    /\ program = "jthread_1" =>
          /\ Holds(t, {34}, {"mutex_"})
          /\ Holds(t, {122, 142, 143}, {"resultMutex_"})
    /\ program = "histogram" =>
          Holds(t, {30, 32}, {"critical"})

\* Each agent comes back to the function that it was started with.
AgentsStand ==
    program = "scoped_lock_dead_lock" => "f" \in DOMAIN mem /\ mem.f = <<20, 34, 48>>

LockInv == SetUp /\ LocksHeld /\ AgentsStand

\* Thread t frees no mutex of another's, and moves when it frees one of its own.
Frees(t) ==
    \A m \in DOMAIN owner : owner[m] # Nobody /\ owner'[m] # owner[m] =>
        owner[m] = t /\ owner'[m] = Nobody /\ (pc'[t] # pc[t] \/ asleep' # asleep)

\* What each step of a thread has to do for that.
Keeps(t) ==
    /\ program' = program
    /\ LockInv'
    /\ program # "philosophers_scoped_lock" => Frees(t)

Lockers ==
    {"abandoned_lock", "scoped_lock_abandoned", "starvation",
     "dead_lock_philosophers", "livelock_philosophers", "scoped_lock_dead_lock",
     "deadlock_1", "deadlock_2", "dining_philosophers",
     "try_lock_dining_philosophers", "mutex_example", "mutex_example_1",
     "atomic_example", "objects", "unique_mtx", "unique_mtx2", "read_write",
     "recursive_mutex", "shared_mutex", "producer_consumer", "semaphore", "counter",
     "predicate_coordination", "condtional_coordination", "navigation",
     "thread_coordination", "coordination", "race_condition_latch", "cv_soup",
     "producer_consumer_queue", "thread_safe_queue", "thread_safe_queue_pop",
     "lazy_initialization", "double_check", "atomic_double_checked", "spin_lock",
     "multiple_waiting_threads", "jthread_1", "histogram"}

LEMMA OthersKeep ==
    ASSUME LockInv, program \notin Lockers, NEW t \in Thread,
           program' = program, program = "philosophers_scoped_lock" \/ owner' = owner
    PROVE  Keeps(t)
BY DEF LockInv, SetUp, LocksHeld, AgentsStand, Frees, Keeps, Lockers

\* The programs that meet at mutexes.
LEMMA LockKeeps ==
    ASSUME LockInv, NEW t \in Thread, LockStep(t)
    PROVE  Keeps(t)
<1>1. CASE program = "abandoned_lock" /\ abandoned_lock(t)
  <2>1. /\ Setting(1 .. 2, {"chopsticks"}, {})
        /\ \A u \in Thread : Holds(u, {11, 12, 16}, {"chopsticks"})
    BY <1>1 DEF LockInv, SetUp, LocksHeld
  <2>2. /\ program' = program /\ Frees(t) /\ Setting(1 .. 2, {"chopsticks"}, {})'
        /\ \A u \in Thread : Holds(u, {11, 12, 16}, {"chopsticks"})'
    BY <1>1, <2>1 DEF abandoned_lock, Test, Lock, Step, Unlock, LockAll, Goto,
         Holds, Frees, Setting, At, Thread, Free, Nobody, End, Sleeping
  <2> QED
    BY <1>1, <2>2 DEF Keeps, LockInv, SetUp, LocksHeld, AgentsStand, Setting,
         Thread
<1>2. CASE program = "scoped_lock_abandoned" /\ scoped_lock_abandoned(t)
  <2>1. /\ Setting(1 .. 2, {"chopsticks"}, {})
        /\ \A u \in Thread : Holds(u, {11, 12}, {"chopsticks"})
    BY <1>2 DEF LockInv, SetUp, LocksHeld
  <2>2. /\ program' = program /\ Frees(t) /\ Setting(1 .. 2, {"chopsticks"}, {})'
        /\ \A u \in Thread : Holds(u, {11, 12}, {"chopsticks"})'
    BY <1>2, <2>1 DEF scoped_lock_abandoned, Test, Lock, Step, Unlock, LockAll,
         Goto, Holds, Frees, Setting, At, Thread, Free, Nobody, End, Sleeping
  <2> QED
    BY <1>2, <2>2 DEF Keeps, LockInv, SetUp, LocksHeld, AgentsStand, Setting,
         Thread
<1>3. CASE program = "starvation" /\ starvation(t)
  <2>1. /\ Setting(1 .. 3, {"chopsticks"}, {})
        /\ \A u \in Thread : Holds(u, {12}, {"chopsticks"})
    BY <1>3 DEF LockInv, SetUp, LocksHeld
  <2>2. /\ program' = program /\ Frees(t) /\ Setting(1 .. 3, {"chopsticks"}, {})'
        /\ \A u \in Thread : Holds(u, {12}, {"chopsticks"})'
    BY <1>3, <2>1 DEF starvation, Test, Lock, Unlock, Step, LockAll, Goto, Holds,
         Frees, Setting, At, Thread, Free, Nobody, End, Sleeping
  <2> QED
    BY <1>3, <2>2 DEF Keeps, LockInv, SetUp, LocksHeld, AgentsStand, Setting,
         Thread
<1>4. CASE program = "dead_lock_philosophers" /\ dead_lock_philosophers(t)
  <2>1. /\ Setting(1 .. 2, {"a", "b"}, {})
        /\ \A u \in Thread : Holds(u, {12, 14, 16, 17}, {Opposite.first[u]})
        /\ \A u \in Thread : Holds(u, {14, 16}, {Opposite.second[u]})
    BY <1>4 DEF LockInv, SetUp, LocksHeld
  <2>2. /\ program' = program /\ Frees(t) /\ Setting(1 .. 2, {"a", "b"}, {})'
        /\ \A u \in Thread : Holds(u, {12, 14, 16, 17}, {Opposite.first[u]})'
        /\ \A u \in Thread : Holds(u, {14, 16}, {Opposite.second[u]})'
    BY <1>4, <2>1 DEF dead_lock_philosophers, Test, Lock, Step, Unlock, LockAll,
         Goto, Holds, Frees, Setting, At, Thread, Free, Nobody, End, Sleeping, Opposite
  <2> QED
    BY <1>4, <2>2 DEF Keeps, LockInv, SetUp, LocksHeld, AgentsStand, Setting,
         Thread
<1>5. CASE program = "philosophers_scoped_lock" /\ philosophers_scoped_lock(t)
  <2>1. program' = program
    BY <1>5 DEF philosophers_scoped_lock, Test, Lock, Step, Unlock, LockAll, Goto
  <2> QED
    BY <1>5, <2>1, OthersKeep DEF Lockers
<1>6. CASE program = "livelock_philosophers" /\ livelock_philosophers(t)
  <2>1. /\ Setting(1 .. 4, {"a", "b"}, {})
        /\ \A u \in Thread : Holds(u, {12, 14, 15, 19}, {<<"a", "b", "a", "b">>[u]})
    BY <1>6 DEF LockInv, SetUp, LocksHeld
  <2>2. /\ program' = program /\ Frees(t) /\ Setting(1 .. 4, {"a", "b"}, {})'
        /\ \A u \in Thread : Holds(u, {12, 14, 15, 19}, {<<"a", "b", "a", "b">>[u]})'
    BY <1>6, <2>1, SMTT(30) DEF livelock_philosophers, Test, Lock, TryLock, Unlock,
         Step, LockAll, Goto, Holds, Frees, Setting, At, Thread, Free, Nobody, End,
         Sleeping
  <2> QED
    BY <1>6, <2>2 DEF Keeps, LockInv, SetUp, LocksHeld, AgentsStand, Setting,
         Thread
<1>7. CASE program = "scoped_lock_dead_lock"
          /\ (agent_a(t) \/ agent_b(t) \/ agent_c(t) \/ run_agent(t))
  <2>1. /\ Setting(1 .. 3, {"database", "cache", "network"}, {})
        /\ \A u \in Thread : Holds(u, {27}, {"database", "cache"})
        /\ \A u \in Thread : Holds(u, {41}, {"cache", "network"})
        /\ \A u \in Thread : Holds(u, {55}, {"network", "database"})
        /\ mem.f[t] \in {20, 34, 48}
    BY <1>7 DEF LockInv, SetUp, LocksHeld, AgentsStand, Setting, Thread
  <2>2. /\ program' = program /\ Frees(t) /\ Setting(1 .. 3, {"database", "cache", "network"}, {})'
        /\ \A u \in Thread : Holds(u, {27}, {"database", "cache"})'
        /\ \A u \in Thread : Holds(u, {41}, {"cache", "network"})'
        /\ \A u \in Thread : Holds(u, {55}, {"network", "database"})'
    <3>1. CASE agent_a(t)
      BY <1>7, <2>1, <3>1 DEF agent_a, LockAll, Unlock, Goto, Holds, Frees,
           Setting, At, Thread, Free, Nobody, End, Sleeping
    <3>2. CASE agent_b(t)
      BY <1>7, <2>1, <3>2 DEF agent_b, LockAll, Unlock, Goto, Holds, Frees,
           Setting, At, Thread, Free, Nobody, End, Sleeping
    <3>3. CASE agent_c(t)
      BY <1>7, <2>1, <3>3 DEF agent_c, LockAll, Unlock, Goto, Holds, Frees,
           Setting, At, Thread, Free, Nobody, End, Sleeping
    <3>4. CASE run_agent(t)
      BY <1>7, <2>1, <3>4 DEF run_agent, Step, Goto, Holds, Frees, Setting, At,
           Thread, Free, Nobody, End, Sleeping
    <3> QED
      BY <1>7, <3>1, <3>2, <3>3, <3>4
  <2>3. AgentsStand'
    BY <1>7 DEF agent_a, agent_b, agent_c, run_agent, LockAll, Unlock, Step, LockInv,
         AgentsStand
  <2> QED
    BY <1>7, <2>2, <2>3 DEF Keeps, LockInv, SetUp, LocksHeld, Setting, Thread
<1>8. CASE program = "deadlock_1" /\ (func_A(t) \/ func_B(t))
  <2>1. /\ Setting(1 .. 2, {"m1", "m2"}, {})
        /\ \A u \in Thread : Holds(u, {22, 36}, {"m1", "m2"})
        /\ \A u \in Thread : Holds(u, {24, 38}, {"m1"})
    BY <1>8 DEF LockInv, SetUp, LocksHeld
  <2>2. /\ program' = program /\ Frees(t) /\ Setting(1 .. 2, {"m1", "m2"}, {})'
        /\ \A u \in Thread : Holds(u, {22, 36}, {"m1", "m2"})'
        /\ \A u \in Thread : Holds(u, {24, 38}, {"m1"})'
    BY <1>8, <2>1 DEF func_A, func_B, LockAll, Unlock, Goto, Holds, Frees, Setting,
         At, Thread, Free, Nobody, End, Sleeping
  <2> QED
    BY <1>8, <2>2 DEF Keeps, LockInv, SetUp, LocksHeld, AgentsStand, Setting,
         Thread
<1>9. CASE program = "deadlock_2" /\ try_lock_func_A(t)
  <2>1. /\ Setting(1 .. 2, {"m1", "m2"}, {})
        /\ \A u \in Thread : Holds(u, {23}, {"m1", "m2"})
        /\ \A u \in Thread : Holds(u, {26}, {"m1"})
    BY <1>9 DEF LockInv, SetUp, LocksHeld
  <2>2. /\ program' = program /\ Frees(t) /\ Setting(1 .. 2, {"m1", "m2"}, {})'
        /\ \A u \in Thread : Holds(u, {23}, {"m1", "m2"})'
        /\ \A u \in Thread : Holds(u, {26}, {"m1"})'
    BY <1>9, <2>1 DEF try_lock_func_A, TryLock, Step, Unlock, LockAll, Goto, Holds,
         Frees, Setting, At, Thread, Free, Nobody, End, Sleeping
  <2> QED
    BY <1>9, <2>2 DEF Keeps, LockInv, SetUp, LocksHeld, AgentsStand, Setting,
         Thread
<1>10. CASE program = "dining_philosophers" /\ dine(t)
  <2>1. /\ Setting(1 .. 5, forks, {})
        /\ \A u \in Thread : Holds(u, {50, 56, 59, 60, 66}, {left(u)})
        /\ \A u \in Thread : Holds(u, {56, 59}, {right(u)})
    BY <1>10 DEF LockInv, SetUp, LocksHeld
  <2>2. /\ program' = program /\ Frees(t) /\ Setting(1 .. 5, forks, {})'
        /\ \A u \in Thread : Holds(u, {50, 56, 59, 60, 66}, {left(u)})'
        /\ \A u \in Thread : Holds(u, {56, 59}, {right(u)})'
    BY <1>10, <2>1, SMTT(30) DEF dine, TryLock, Step, Unlock, LockAll, Goto, Holds,
         Frees, Setting, At, Thread, Free, Nobody, End, Sleeping, left, right, forks
  <2> QED
    BY <1>10, <2>2 DEF Keeps, LockInv, SetUp, LocksHeld, AgentsStand, Setting,
         Thread
<1>11. CASE program = "try_lock_dining_philosophers" /\ try_lock_dine(t)
  <2>1. /\ Setting(1 .. 5, forks, {})
        /\ \A u \in Thread : Holds(u, {58, 65}, {left(u)})
        /\ \A u \in Thread : Holds(u, {58, 65, 66}, {right(u)})
    BY <1>11 DEF LockInv, SetUp, LocksHeld
  <2>2. /\ program' = program /\ Frees(t) /\ Setting(1 .. 5, forks, {})'
        /\ \A u \in Thread : Holds(u, {58, 65}, {left(u)})'
        /\ \A u \in Thread : Holds(u, {58, 65, 66}, {right(u)})'
    BY <1>11, <2>1 DEF try_lock_dine, LockAll, Step, Unlock, Goto, Holds, Frees,
         Setting, At, Thread, Free, Nobody, End, Sleeping, left, right, forks
  <2> QED
    BY <1>11, <2>2 DEF Keeps, LockInv, SetUp, LocksHeld, AgentsStand, Setting,
         Thread
<1>12. CASE program = "mutex_example" /\ Transfer(t)
  <2>1. {account1(t), account2(t)} = {1, 2} /\ {account2(t), account1(t)} = {1, 2}
    BY <1>12 DEF LockInv, SetUp, Setting, Thread, account1, account2
  <2>2. \/ \E new, to : Step(t, 46, new, to) /\ to \in {48, End}
        \/ \E from \in {48, 50} : LockAll(t, from, {1, 2}, from + 100)
        \/ \E from \in {48, 50}, to \in {46, 50} : \E new :
               Unlock(t, from + 100, {1, 2}, new, to)
    BY <1>12, <2>1, Zenon DEF Transfer, transfer
  <2>3. CASE \E new, to : Step(t, 46, new, to) /\ to \in {48, End}
    BY <1>12, <2>3 DEF Step, Goto,
          LockInv, SetUp, LocksHeld, AgentsStand, Setting, Holds, Frees, Keeps, At, Thread, Free,
          Nobody, End, Sleeping
  <2>4. CASE \E from \in {48, 50} : LockAll(t, from, {1, 2}, from + 100)
    BY <1>12, <2>4 DEF LockAll, Goto,
          LockInv, SetUp, LocksHeld, AgentsStand, Setting, Holds, Frees, Keeps, At, Thread, Free,
          Nobody, End, Sleeping
  <2>5. ASSUME NEW from \in {48, 50}, NEW to \in {46, 50}, NEW new,
               Unlock(t, from + 100, {1, 2}, new, to)
        PROVE  Keeps(t)
    BY <1>12, <2>5 DEF Unlock, Goto,
          LockInv, SetUp, LocksHeld, AgentsStand, Setting, Holds, Frees, Keeps, At, Thread, Free,
          Nobody, End, Sleeping
  <2> QED
    BY <2>2, <2>3, <2>4, <2>5
<1>13. CASE program = "mutex_example_1" /\ shopper(t)
  <2>1. /\ Setting(1 .. 2, {"pencil"}, {})
        /\ \A u \in Thread : Holds(u, {11, 14, 16}, {"pencil"})
    BY <1>13 DEF LockInv, SetUp, LocksHeld
  <2>2. /\ program' = program /\ Frees(t) /\ Setting(1 .. 2, {"pencil"}, {})'
        /\ \A u \in Thread : Holds(u, {11, 14, 16}, {"pencil"})'
    BY <1>13, <2>1 DEF shopper, Lock, Test, Step, Unlock, LockAll, Goto, Holds,
         Frees, Setting, At, Thread, Free, Nobody, End, Sleeping
  <2> QED
    BY <1>13, <2>2 DEF Keeps, LockInv, SetUp, LocksHeld, AgentsStand, Setting,
         Thread
<1>14. CASE program = "atomic_example" /\ atomic_shopper(t)
  <2>1. /\ Setting(1 .. 2, {"pencil"}, {})
        /\ \A u \in Thread : Holds(u, {14, 16, 18}, {"pencil"})
    BY <1>14 DEF LockInv, SetUp, LocksHeld
  <2>2. /\ program' = program /\ Frees(t) /\ Setting(1 .. 2, {"pencil"}, {})'
        /\ \A u \in Thread : Holds(u, {14, 16, 18}, {"pencil"})'
    BY <1>14, <2>1 DEF atomic_shopper, Lock, Test, Step, Unlock, LockAll, Goto,
         Holds, Frees, Setting, At, Thread, Free, Nobody, End, Sleeping
  <2> QED
    BY <1>14, <2>2 DEF Keeps, LockInv, SetUp, LocksHeld, AgentsStand, Setting,
         Thread
<1>15. CASE program = "objects" /\ test_thread(t)
  <2>1. /\ Setting(1 .. 5, {"mtx"}, {})
        /\ \A u \in Thread : Holds(u, {45, 26, 51}, {"mtx"})
    BY <1>15 DEF LockInv, SetUp, LocksHeld
  <2>2. /\ program' = program /\ Frees(t) /\ Setting(1 .. 5, {"mtx"}, {})'
        /\ \A u \in Thread : Holds(u, {45, 26, 51}, {"mtx"})'
    BY <1>15, <2>1 DEF test_thread, Lock, Step, Unlock, LockAll, Goto, Holds,
         Frees, Setting, At, Thread, Free, Nobody, End, Sleeping
  <2> QED
    BY <1>15, <2>2 DEF Keeps, LockInv, SetUp, LocksHeld, AgentsStand, Setting,
         Thread
<1>16. CASE program = "unique_mtx" /\ task(t)
  <2>1. /\ Setting(1 .. 3, {"print_mutex"}, {})
        /\ \A u \in Thread : Holds(u, {15}, {"print_mutex"})
    BY <1>16 DEF LockInv, SetUp, LocksHeld
  <2>2. /\ program' = program /\ Frees(t) /\ Setting(1 .. 3, {"print_mutex"}, {})'
        /\ \A u \in Thread : Holds(u, {15}, {"print_mutex"})'
    BY <1>16, <2>1 DEF task, Test, Lock, Unlock, Step, LockAll, Goto, Holds, Frees,
         Setting, At, Thread, Free, Nobody, End, Sleeping
  <2> QED
    BY <1>16, <2>2 DEF Keeps, LockInv, SetUp, LocksHeld, AgentsStand, Setting,
         Thread
<1>17. CASE program = "unique_mtx2" /\ (task1(t) \/ task2(t))
  <2>1. /\ Setting(1 .. 2, {"mtx"}, {})
        /\ \A u \in Thread : Holds(u, {16, 31}, {"mtx"})
    BY <1>17 DEF LockInv, SetUp, LocksHeld
  <2>2. /\ program' = program /\ Frees(t) /\ Setting(1 .. 2, {"mtx"}, {})'
        /\ \A u \in Thread : Holds(u, {16, 31}, {"mtx"})'
    BY <1>17, <2>1 DEF task1, task2, Lock, Unlock, TryLock, LockAll, Goto, Step,
         Holds, Frees, Setting, At, Thread, Free, Nobody, End, Sleeping
  <2> QED
    BY <1>17, <2>2 DEF Keeps, LockInv, SetUp, LocksHeld, AgentsStand, Setting,
         Thread
<1>18. CASE program = "read_write" /\ (write(t) \/ read(t))
  <2>1. /\ Setting(1 .. 4, {"shrd_mut"}, {})
        /\ \A u \in Thread : Holds(u, {14}, {"shrd_mut"})
    BY <1>18 DEF LockInv, SetUp, LocksHeld
  <2>2. /\ program' = program /\ Frees(t) /\ Setting(1 .. 4, {"shrd_mut"}, {})'
        /\ \A u \in Thread : Holds(u, {14}, {"shrd_mut"})'
    BY <1>18, <2>1 DEF write, read, Lock, Unlock, Guarded, Step, LockAll, Goto,
         Holds, Frees, Setting, At, Thread, Free, Nobody, End, Sleeping
  <2> QED
    BY <1>18, <2>2 DEF Keeps, LockInv, SetUp, LocksHeld, AgentsStand, Setting,
         Thread
<1>19. CASE program = "recursive_mutex" /\ factorial(t)
  <2>1. /\ Setting(1 .. 5, {"rm"}, {})
        /\ \A u \in Thread : Holds(u, {12}, {"rm"})
    BY <1>19 DEF LockInv, SetUp, LocksHeld
  <2>2. /\ program' = program /\ Frees(t) /\ Setting(1 .. 5, {"rm"}, {})'
        /\ \A u \in Thread : Holds(u, {12}, {"rm"})'
    BY <1>19, <2>1 DEF factorial, Goto, Step, Unlock, Guarded, Holds, Frees,
         Setting, At, Thread, Free, Nobody, End, Sleeping
  <2> QED
    BY <1>19, <2>2 DEF Keeps, LockInv, SetUp, LocksHeld, AgentsStand, Setting,
         Thread
<1>20. CASE program = "shared_mutex" /\ (calendar_reader(t) \/
          calendar_writer(t))
  <2>1. /\ Setting(1 .. 4, {"ptr"}, {})
    BY <1>20 DEF LockInv, SetUp, LocksHeld
  <2>2. /\ program' = program /\ Frees(t) /\ Setting(1 .. 4, {"ptr"}, {})'
    BY <1>20, <2>1 DEF calendar_reader, calendar_writer, Lock, Step, LockAll, Goto,
         Holds, Frees, Setting, At, Thread, Free, Nobody, End, Sleeping
  <2> QED
    BY <1>20, <2>2 DEF Keeps, LockInv, SetUp, LocksHeld, AgentsStand, Setting,
         Thread
<1>21. CASE program = "producer_consumer" /\ (producer(t) \/ consumer(t))
  <2>1. /\ Setting(1 .. 2, {"p_mtx"}, {})
        /\ \A u \in Thread : Holds(u, {45}, {"p_mtx"})
    BY <1>21 DEF LockInv, SetUp, LocksHeld
  <2>2. /\ program' = program /\ Frees(t) /\ Setting(1 .. 2, {"p_mtx"}, {})'
        /\ \A u \in Thread : Holds(u, {45}, {"p_mtx"})'
    BY <1>21, <2>1 DEF producer, consumer, Guarded, Test, Lock, Step, Unlock,
         LockAll, Goto, Holds, Frees, Setting, At, Thread, Free, Nobody, End, Sleeping
  <2> QED
    BY <1>21, <2>2 DEF Keeps, LockInv, SetUp, LocksHeld, AgentsStand, Setting,
         Thread
<1>22. CASE program = "barrier" /\ agent_routine(t)
  <2>1. program' = program /\ owner' = owner
    BY <1>22 DEF agent_routine, Test, arrive_and_wait, Step, Await, Goto
  <2> QED
    BY <1>22, <2>1, OthersKeep DEF Lockers
<1> QED
  BY <1>1, <1>2, <1>3, <1>4, <1>5, <1>6, <1>7, <1>8, <1>9, <1>10, <1>11, <1>12,
       <1>13, <1>14, <1>15, <1>16, <1>17, <1>18, <1>19, <1>20, <1>21, <1>22 DEF LockStep

\* The programs that wait for conditions.
LEMMA MonitorKeeps ==
    ASSUME LockInv, NEW t \in Thread, MonitorStep(t)
    PROVE  Keeps(t)
<1>1. CASE program = "semaphore" /\ (release(t) \/ acquire(t))
  <2>1. /\ Setting(1 .. 5, {"mut"}, {"cv"})
        /\ \A u \in Thread : Holds(u, {14, 19, 20, 30}, {"mut"})
    BY <1>1 DEF LockInv, SetUp, LocksHeld
  <2>2. /\ program' = program /\ Frees(t) /\ Setting(1 .. 5, {"mut"}, {"cv"})'
        /\ \A u \in Thread : Holds(u, {14, 19, 20, 30}, {"mut"})'
    <3>1. CASE release(t)
      BY <1>1, <2>1, <3>1 DEF release, Lock, Step, NotifyAll, Unlock, LockAll,
           Goto, Wake, Holds, Frees, Setting, At, Thread, Free, Nobody, End, Sleeping
    <3>2. CASE acquire(t)
      BY <1>1, <2>1, <3>2 DEF acquire, Lock, WaitUntil, Unlock, LockAll, Await,
           SleepOn, Goto, Step, Holds, Frees, Setting, At, Thread, Free, Nobody, End,
           Sleeping
    <3> QED
      BY <1>1, <3>1, <3>2
  <2> QED
    BY <1>1, <2>2 DEF Keeps, LockInv, SetUp, LocksHeld, AgentsStand, Setting,
         Thread
<1>2. CASE program = "binary_semaphore" /\ BinarySemaphoreThreads(t)
  <2>1. program' = program /\ owner' = owner
    BY <1>2 DEF BinarySemaphoreThreads, Step, Await, Goto
  <2> QED
    BY <1>2, <2>1, OthersKeep DEF Lockers
<1>3. CASE program = "counter" /\ CounterThreads(t)
  <2>1. /\ Setting(1 .. 3, {"mtx_"}, {"cond_"})
        /\ \A u \in Thread : Holds(u, {15, 17, 18, 20, 50}, {"mtx_"})
    BY <1>3 DEF LockInv, SetUp, LocksHeld
  <2>2. /\ program' = program /\ Frees(t) /\ Setting(1 .. 3, {"mtx_"}, {"cond_"})'
        /\ \A u \in Thread : Holds(u, {15, 17, 18, 20, 50}, {"mtx_"})'
    <3>1. CASE increment(t)
      BY <1>3, <2>1, <3>1 DEF increment, Lock, Step, Test, NotifyAll, Unlock,
           LockAll, Goto, Wake, Holds, Frees, Setting, At, Thread, Free, Nobody, End,
           Sleeping
    <3>2. CASE CounterThreads(t) /\ ~increment(t)
      BY <1>3, <2>1, <3>2 DEF CounterThreads, wait_for_threshold, Step, wait, Goto,
           Lock, WaitUntil, Unlock, LockAll, Await, SleepOn, Holds, Frees, Setting, At,
           Thread, Free, Nobody, End, Sleeping
    <3> QED
      BY <1>3, <3>1, <3>2 DEF CounterThreads
  <2> QED
    BY <1>3, <2>2 DEF Keeps, LockInv, SetUp, LocksHeld, AgentsStand, Setting,
         Thread
<1>4. CASE program = "str_monitor" /\ str_monitor(t)
  <2>1. program' = program /\ owner' = owner
    BY <1>4 DEF str_monitor, Step, MonitorCall, Guarded, Goto
  <2> QED
    BY <1>4, <2>1, OthersKeep DEF Lockers
<1>5. CASE program = "predicate_coordination"
          /\ (predicate_reader(t) \/ predicate_writer(t))
  <2>1. /\ Setting(1 .. 4, {"mut"}, {"cond_var"})
        /\ \A u \in Thread : Holds(u, {25, 38}, {"mut"})
    BY <1>5 DEF LockInv, SetUp, LocksHeld
  <2>2. /\ program' = program /\ Frees(t) /\ Setting(1 .. 4, {"mut"}, {"cond_var"})'
        /\ \A u \in Thread : Holds(u, {25, 38}, {"mut"})'
    BY <1>5, <2>1 DEF predicate_reader, predicate_writer, Lock, WaitUntil, Unlock,
         NotifyAll, LockAll, Await, SleepOn, Goto, Wake, Step, Holds, Frees, Setting,
         At, Thread, Free, Nobody, End, Sleeping
  <2> QED
    BY <1>5, <2>2 DEF Keeps, LockInv, SetUp, LocksHeld, AgentsStand, Setting,
         Thread
<1>6. CASE program = "condtional_coordination" /\ (reader(t) \/ writer(t))
  <2>1. /\ Setting(1 .. 2, {"mut"}, {"cond_var"})
        /\ \A u \in Thread : Holds(u, {20, 23, 35}, {"mut"})
    BY <1>6 DEF LockInv, SetUp, LocksHeld
  <2>2. /\ program' = program /\ Frees(t) /\ Setting(1 .. 2, {"mut"}, {"cond_var"})'
        /\ \A u \in Thread : Holds(u, {20, 23, 35}, {"mut"})'
    BY <1>6, <2>1 DEF reader, writer, Lock, SleepOn, Unlock, NotifyOne, LockAll,
         Goto, Step, Wake, Holds, Frees, Setting, At, Thread, Free, Nobody, End,
         Sleeping
  <2> QED
    BY <1>6, <2>2 DEF Keeps, LockInv, SetUp, LocksHeld, AgentsStand, Setting,
         Thread
<1>7. CASE program = "navigation" /\ (keep_moving(t) \/
          ask_driver_to_wake_up_time_t(t))
  <2>1. /\ Setting(1 .. 2, {"mut"}, {"cv"})
        /\ \A u \in Thread : Holds(u, {27, 28, 270}, {"mut"})
    BY <1>7 DEF LockInv, SetUp, LocksHeld
  <2>2. /\ program' = program /\ Frees(t) /\ Setting(1 .. 2, {"mut"}, {"cv"})'
        /\ \A u \in Thread : Holds(u, {27, 28, 270}, {"mut"})'
    BY <1>7, <2>1 DEF keep_moving, ask_driver_to_wake_up_time_t, Step, Test,
         NotifyOne, Lock, SleepOn, Unlock, Goto, Wake, LockAll, Holds, Frees, Setting,
         At, Thread, Free, Nobody, End, Sleeping
  <2> QED
    BY <1>7, <2>2 DEF Keeps, LockInv, SetUp, LocksHeld, AgentsStand, Setting,
         Thread
<1>8. CASE program = "thread_coordination"
          /\ (fetch_data(t) \/ progress_bar(t) \/ process_data(t))
  <2>1. /\ Setting(1 .. 3, {"data_mutex", "completed_mutex"}, {})
        /\ \A u \in Thread : Holds(u, {25, 45, 46, 51, 71, 72, 77}, {"data_mutex"})
    BY <1>8 DEF LockInv, SetUp, LocksHeld
  <2>2. /\ program' = program /\ Frees(t) /\ Setting(1 .. 3, {"data_mutex", "completed_mutex"}, {})'
        /\ \A u \in Thread : Holds(u, {25, 45, 46, 51, 71, 72, 77}, {"data_mutex"})'
    <3>1. CASE fetch_data(t)
      BY <1>8, <2>1, <3>1, SMTT(20) DEF fetch_data, Step, Lock, Unlock, Guarded, Goto,
           LockAll, Holds, Frees, Setting, At, Thread, Free, Nobody, End, Sleeping
    <3>2. CASE progress_bar(t)
      BY <1>8, <2>1, <3>2, SMTT(20) DEF progress_bar, Lock, Test, Unlock, Guarded, LockAll,
           Step, Goto, Holds, Frees, Setting, At, Thread, Free, Nobody, End, Sleeping
    <3>3. CASE process_data(t)
      BY <1>8, <2>1, <3>3 DEF process_data, Lock, Test, Unlock, Guarded, LockAll,
           Step, Goto, Holds, Frees, Setting, At, Thread, Free, Nobody, End, Sleeping
    <3> QED
      BY <1>8, <3>1, <3>2, <3>3
  <2> QED
    BY <1>8, <2>2 DEF Keeps, LockInv, SetUp, LocksHeld, AgentsStand, Setting,
         Thread
<1>9. CASE program = "coordination" /\ restaurant_announcement(t)
  <2>1. /\ Setting(1 .. 4, {"coordination_mutex"}, {"turn_signal"})
        /\ \A u \in Thread : Holds(u, {50, 64, 66}, {"coordination_mutex"})
    BY <1>9 DEF LockInv, SetUp, LocksHeld
  <2>2. /\ program' = program /\ Frees(t)
        /\ Setting(1 .. 4, {"coordination_mutex"}, {"turn_signal"})'
        /\ \A u \in Thread : Holds(u, {50, 64, 66}, {"coordination_mutex"})'
    BY <1>9, <2>1 DEF restaurant_announcement, Step, ordered_print, Goto, Lock,
         WaitUntil, NotifyAll, Unlock, LockAll, Await, SleepOn, Wake, Holds, Frees,
         Setting, At, Thread, Free, Nobody, End, Sleeping
  <2> QED
    BY <1>9, <2>2 DEF Keeps, LockInv, SetUp, LocksHeld, AgentsStand, Setting,
         Thread
<1>10. CASE program = "race_condition_latch" /\ (multiplier_1(t) \/
          adder_1(t))
  <2>1. /\ Setting(1 .. 4, {"borrower"}, {})
        /\ \A u \in Thread : Holds(u, {22, 34}, {"borrower"})
    BY <1>10 DEF LockInv, SetUp, LocksHeld
  <2>2. /\ program' = program /\ Frees(t) /\ Setting(1 .. 4, {"borrower"}, {})'
        /\ \A u \in Thread : Holds(u, {22, 34}, {"borrower"})'
    BY <1>10, <2>1 DEF multiplier_1, adder_1, Await, Lock, Unlock, Step, LockAll,
         Goto, Holds, Frees, Setting, At, Thread, Free, Nobody, End, Sleeping
  <2> QED
    BY <1>10, <2>2 DEF Keeps, LockInv, SetUp, LocksHeld, AgentsStand, Setting,
         Thread
<1>11. CASE program = "cv_soup" /\ hungry_person(t)
  <2>1. /\ Setting(1 .. 5, {"slow_cooker_lid"}, {"soup_taken"})
        /\ \A u \in Thread : Holds(u, {20}, {"slow_cooker_lid"})
    BY <1>11 DEF LockInv, SetUp, LocksHeld
  <2>2. /\ program' = program /\ Frees(t) /\ Setting(1 .. 5, {"slow_cooker_lid"}, {"soup_taken"})'
        /\ \A u \in Thread : Holds(u, {20}, {"slow_cooker_lid"})'
    BY <1>11, <2>1 DEF hungry_person, Test, Lock, WaitUntil, Unlock, NotifyOne,
         Step, LockAll, Await, SleepOn, Goto, Wake, Holds, Frees, Setting, At, Thread,
         Free, Nobody, End, Sleeping
  <2> QED
    BY <1>11, <2>2 DEF Keeps, LockInv, SetUp, LocksHeld, AgentsStand, Setting,
         Thread
<1>12. CASE program = "producer_consumer_queue" /\ (queue_producer(t) \/
          queue_consumer(t))
  <2>1. /\ Setting(1 .. 3, {"ladle"}, {"element_served"})
        /\ \A u \in Thread : Holds(u, {11, 22}, {"ladle"})
    BY <1>12 DEF LockInv, SetUp, LocksHeld
  <2>2. /\ program' = program /\ Frees(t) /\ Setting(1 .. 3, {"ladle"}, {"element_served"})'
        /\ \A u \in Thread : Holds(u, {11, 22}, {"ladle"})'
    BY <1>12, <2>1 DEF queue_producer, queue_consumer, Step, serve_queue,
         take_element, Goto, Lock, Unlock, WaitUntil, LockAll, Await, SleepOn, Holds,
         Frees, Setting, At, Thread, Free, Nobody, End, Sleeping
  <2> QED
    BY <1>12, <2>2 DEF Keeps, LockInv, SetUp, LocksHeld, AgentsStand, Setting,
         Thread
<1>13. CASE program \in {"thread_safe_queue", "thread_safe_queue_pop"}
          /\ (push(t) \/ pop(t) \/ wait_pop(t))
  <2>1. /\ Setting(1 .. 5, {"mut"}, {"cv"})
        /\ \A u \in Thread : Holds(u, {13, 15, 42}, {"mut"})
    BY <1>13 DEF LockInv, SetUp, LocksHeld
  <2>2. /\ program' = program /\ Frees(t) /\ Setting(1 .. 5, {"mut"}, {"cv"})'
        /\ \A u \in Thread : Holds(u, {13, 15, 42}, {"mut"})'
    BY <1>13, <2>1 DEF push, pop, wait_pop, Lock, NotifyOne, Unlock, Guarded,
         WaitUntil, LockAll, Step, Wake, Goto, Await, SleepOn, Holds, Frees, Setting,
         At, Thread, Free, Nobody, End, Sleeping
  <2> QED
    BY <1>13, <2>2 DEF Keeps, LockInv, SetUp, LocksHeld, AgentsStand, Setting,
         Thread
<1>14. CASE program = "thread_safe_stack" /\ (stack_push(t) \/ stack_pop(t))
  <2>1. program' = program /\ owner' = owner
    BY <1>14 DEF stack_push, stack_pop, Guarded, Step, Goto
  <2> QED
    BY <1>14, <2>1, OthersKeep DEF Lockers
<1> QED
  BY <1>1, <1>2, <1>3, <1>4, <1>5, <1>6, <1>7, <1>8, <1>9, <1>10, <1>11, <1>12,
       <1>13, <1>14 DEF MonitorStep

\* The programs of atomics.
LEMMA EventKeeps ==
    ASSUME LockInv, NEW t \in Thread, EventStep(t)
    PROVE  Keeps(t)
<1>1. CASE program = "lazy_initialization" /\ worker(t)
  <2>1. /\ Setting(1 .. 2, {"instanceMutex", "smartMutex"}, {})
        /\ \A u \in Thread : Holds(u, {48}, {"instanceMutex"})
        /\ \A u \in Thread : Holds(u, {87}, {"smartMutex"})
    BY <1>1 DEF LockInv, SetUp, LocksHeld
  <2>2. /\ program' = program /\ Frees(t) /\ Setting(1 .. 2, {"instanceMutex", "smartMutex"}, {})'
        /\ \A u \in Thread : Holds(u, {48}, {"instanceMutex"})'
        /\ \A u \in Thread : Holds(u, {87}, {"smartMutex"})'
    BY <1>1, <2>1 DEF worker, getTestInstance_DCLP, getTestInstance_CallOnce,
         getInstance, getTestInstance_Smart, Test, Lock, Unlock, Step, CallOnce,
         LockAll, Goto, Await, Holds, Frees, Setting, At, Thread, Free, Nobody, End,
         Sleeping
  <2> QED
    BY <1>1, <2>2 DEF Keeps, LockInv, SetUp, LocksHeld, AgentsStand, Setting,
         Thread
<1>2. CASE program = "call_once" /\ call_once_process(t)
  <2>1. program' = program /\ owner' = owner
    BY <1>2 DEF call_once_process, CallOnce, Step, Await, Goto
  <2> QED
    BY <1>2, <2>1, OthersKeep DEF Lockers
<1>3. CASE program = "singleton" /\ singleton_task(t)
  <2>1. program' = program /\ owner' = owner
    BY <1>3 DEF singleton_task, get_singleton, Step, CallOnce, Goto, Await
  <2> QED
    BY <1>3, <2>1, OthersKeep DEF Lockers
<1>4. CASE program = "double_check" /\ double_check_process(t)
  <2>1. /\ Setting(1 .. 3, {"process_mutex"}, {})
        /\ \A u \in Thread : Holds(u, {19, 21, 24}, {"process_mutex"})
    BY <1>4 DEF LockInv, SetUp, LocksHeld
  <2>2. /\ program' = program /\ Frees(t) /\ Setting(1 .. 3, {"process_mutex"}, {})'
        /\ \A u \in Thread : Holds(u, {19, 21, 24}, {"process_mutex"})'
    BY <1>4, <2>1 DEF double_check_process, Step, Lock, Unlock, Goto, LockAll,
         Holds, Frees, Setting, At, Thread, Free, Nobody, End, Sleeping
  <2> QED
    BY <1>4, <2>2 DEF Keeps, LockInv, SetUp, LocksHeld, AgentsStand, Setting,
         Thread
<1>5. CASE program = "atomic_double_checked" /\ atomic_process(t)
  <2>1. /\ Setting(1 .. 3, {"mut"}, {})
        /\ \A u \in Thread : Holds(u, {21, 22, 24}, {"mut"})
    BY <1>5 DEF LockInv, SetUp, LocksHeld
  <2>2. /\ program' = program /\ Frees(t) /\ Setting(1 .. 3, {"mut"}, {})'
        /\ \A u \in Thread : Holds(u, {21, 22, 24}, {"mut"})'
    BY <1>5, <2>1 DEF atomic_process, Test, Lock, Step, Unlock, LockAll, Goto,
         Holds, Frees, Setting, At, Thread, Free, Nobody, End, Sleeping
  <2> QED
    BY <1>5, <2>2 DEF Keeps, LockInv, SetUp, LocksHeld, AgentsStand, Setting,
         Thread
<1>6. CASE program \in {"one_shot_event", "one_shot_event_twice"}
          /\ (signaler(t) \/ waiter(t))
  <2>1. program' = program /\ owner' = owner
    BY <1>6 DEF signaler, waiter, Step, NotifyOne, Test, Await, FallAsleep, Goto,
         Wake
  <2> QED
    BY <1>6, <2>1, OthersKeep DEF Lockers
<1>7. CASE program = "spin_lock" /\ spin_task(t)
  <2>1. /\ Setting(1 .. 4, {"lock_cout"}, {})
        /\ \A u \in Thread : Holds(u, {18, 21}, {"lock_cout"})
    BY <1>7 DEF LockInv, SetUp, LocksHeld
  <2>2. /\ program' = program /\ Frees(t) /\ Setting(1 .. 4, {"lock_cout"}, {})'
        /\ \A u \in Thread : Holds(u, {18, 21}, {"lock_cout"})'
    BY <1>7, <2>1 DEF spin_task, TryLock, Step, Unlock, LockAll, Goto, Holds,
         Frees, Setting, At, Thread, Free, Nobody, End, Sleeping
  <2> QED
    BY <1>7, <2>2 DEF Keeps, LockInv, SetUp, LocksHeld, AgentsStand, Setting,
         Thread
<1>8. CASE program = "atomics_class" /\ (countem(t) \/ swarm_main(t))
  <2>1. program' = program /\ owner' = owner
    BY <1>8 DEF countem, swarm_main, Await, Test, Step, Goto
  <2> QED
    BY <1>8, <2>1, OthersKeep DEF Lockers
<1>9. CASE program = "basic_ops" /\ basic_ops(t)
  <2>1. program' = program /\ owner' = owner
    BY <1>9 DEF basic_ops, Step, Goto
  <2> QED
    BY <1>9, <2>1, OthersKeep DEF Lockers
<1>10. CASE program = "basic_counter" /\ counter_worker(t)
  <2>1. program' = program /\ owner' = owner
    BY <1>10 DEF counter_worker, Test, Step, Goto
  <2> QED
    BY <1>10, <2>1, OthersKeep DEF Lockers
<1>11. CASE program = "counter_pool" /\ pool_worker(t)
  <2>1. program' = program /\ owner' = owner
    BY <1>11 DEF pool_worker, Test, Step, Goto
  <2> QED
    BY <1>11, <2>1, OthersKeep DEF Lockers
<1>12. CASE program = "config_manager" /\ (config_reader(t) \/
          config_writer(t))
  <2>1. program' = program /\ owner' = owner
    BY <1>12 DEF config_reader, config_writer, Test, Step, update, Goto
  <2> QED
    BY <1>12, <2>1, OthersKeep DEF Lockers
<1>13. CASE program = "lock_free_stack"
          /\ (stack_main(t) \/ stack_destructor(t) \/ stack_worker(t))
  <2>1. program' = program /\ owner' = owner
    BY <1>13 DEF stack_main, stack_destructor, stack_worker, Await, Step,
         stack_push_node, Goto, push_succeeds
  <2> QED
    BY <1>13, <2>1, OthersKeep DEF Lockers
<1> QED
  BY <1>1, <1>2, <1>3, <1>4, <1>5, <1>6, <1>7, <1>8, <1>9, <1>10, <1>11, <1>12,
       <1>13 DEF EventStep

\* The programs of futures.
LEMMA FutureKeeps ==
    ASSUME LockInv, NEW t \in Thread, FutureStep(t)
    PROVE  Keeps(t)
<1>1. CASE program = "multiple_waiting_threads" /\ (produce(t) \/ consume(t))
  <2>1. /\ Setting(1 .. 3, {"mut"}, {})
        /\ \A u \in Thread : Holds(u, {26}, {"mut"})
    BY <1>1 DEF LockInv, SetUp, LocksHeld
  <2>2. /\ program' = program /\ Frees(t) /\ Setting(1 .. 3, {"mut"}, {})'
        /\ \A u \in Thread : Holds(u, {26}, {"mut"})'
    BY <1>1, <2>1 DEF produce, consume, Fulfil, Get, Lock, Unlock, Await, LockAll,
         Goto, Step, Holds, Frees, Setting, At, Thread, Free, Nobody, End, Sleeping
  <2> QED
    BY <1>1, <2>2 DEF Keeps, LockInv, SetUp, LocksHeld, AgentsStand, Setting,
         Thread
<1>2. CASE program = "packet" /\ (packet_producer(t) \/ packet_consumer(t))
  <2>1. program' = program /\ owner' = owner
    BY <1>2 DEF packet_producer, packet_consumer, Fulfil, Get, Await, Step, Goto
  <2> QED
    BY <1>2, <2>1, OthersKeep DEF Lockers
<1>3. CASE program = "throwing_producer" /\ (throwing_produce(t) \/
          catching_consume(t))
  <2>1. program' = program /\ owner' = owner
    BY <1>3 DEF throwing_produce, catching_consume, Step, Fulfil, Get, Test, Goto,
         Await
  <2> QED
    BY <1>3, <2>1, OthersKeep DEF Lockers
<1>4. CASE program = "server_fetching_data"
          /\ (fetch_server_data(t) \/ fetch_server_data_with_error(t) \/ server_main(t))
  <2>1. program' = program /\ owner' = owner
    BY <1>4 DEF fetch_server_data, fetch_server_data_with_error, server_main, Step,
         Fulfil, Started, Report, Get, Join, Start, Goto, Await
  <2> QED
    BY <1>4, <2>1, OthersKeep DEF Lockers
<1>5. CASE program = "package_task_test"
          /\ (task_thread(t) \/ packaged_add(t) \/ own_task(t))
  <2>1. program' = program /\ owner' = owner
    BY <1>5 DEF task_thread, packaged_add, own_task, Start, Get, Started, Fulfil,
         Step, Await, Goto
  <2> QED
    BY <1>5, <2>1, OthersKeep DEF Lockers
<1>6. CASE program = "packaged_task" /\ (p_task(t) \/ display_result(t))
  <2>1. program' = program /\ owner' = owner
    BY <1>6 DEF p_task, display_result, Fulfil, Get, Await, Step, Goto
  <2> QED
    BY <1>6, <2>1, OthersKeep DEF Lockers
<1>7. CASE program = "asynk_task_launch"
          /\ (compute_value(t) \/ process_value(t) \/ launching_main(t))
  <2>1. program' = program /\ owner' = owner
    BY <1>7 DEF compute_value, process_value, launching_main, Started, Fulfil,
         launch_async_task, Get, Await, Start, Step, Goto
  <2> QED
    BY <1>7, <2>1, OthersKeep DEF Lockers
<1>8. CASE program = "futures_demo" /\ (count_objects(t) \/ asking_main(t))
  <2>1. program' = program /\ owner' = owner
    BY <1>8 DEF count_objects, asking_main, Fulfil, Get, Await, Step, Goto
  <2> QED
    BY <1>8, <2>1, OthersKeep DEF Lockers
<1>9. CASE program = "futures_promise" /\ (fibonacci(t) \/ promising_main(t))
  <2>1. program' = program /\ owner' = owner
    BY <1>9 DEF fibonacci, promising_main, Get, Fulfil, Await, Step, Goto
  <2> QED
    BY <1>9, <2>1, OthersKeep DEF Lockers
<1>10. CASE program = "promise_exception" /\ (calculate_square_root(t) \/
          print_result(t))
  <2>1. program' = program /\ owner' = owner
    BY <1>10 DEF calculate_square_root, print_result, Step, Fulfil, Get, Goto,
         Await
  <2> QED
    BY <1>10, <2>1, OthersKeep DEF Lockers
<1>11. CASE program = "fibonacci" /\ (fibonacci_of(t) \/ waiting_main(t))
  <2>1. program' = program /\ owner' = owner
    BY <1>11 DEF fibonacci_of, waiting_main, Fulfil, Test, Get, Await, Step, Goto
  <2> QED
    BY <1>11, <2>1, OthersKeep DEF Lockers
<1>12. CASE program = "concurrent_tasks" /\ (square(t) \/ gathering_main(t))
  <2>1. program' = program /\ owner' = owner
    BY <1>12 DEF square, gathering_main, Step, next, Await, Goto
  <2> QED
    BY <1>12, <2>1, OthersKeep DEF Lockers
<1>13. CASE program = "arithmetic" /\ (run_code(t) \/ printing(t))
  <2>1. program' = program /\ owner' = owner
    BY <1>13 DEF run_code, printing, Get, Step, Fulfil, Await, Goto
  <2> QED
    BY <1>13, <2>1, OthersKeep DEF Lockers
<1>14. CASE program = "launch_opts" /\ (func(t) \/ launched_task(t))
  <2>1. program' = program /\ owner' = owner
    BY <1>14 DEF func, launched_task, Step, Fulfil, Await, Started, Goto
  <2> QED
    BY <1>14, <2>1, OthersKeep DEF Lockers
<1>15. CASE program = "countdown" /\ countdown_main(t)
  <2>1. program' = program /\ owner' = owner
    BY <1>15 DEF countdown_main, next, Step, Goto
  <2> QED
    BY <1>15, <2>1, OthersKeep DEF Lockers
<1>16. CASE program = "count_to" /\ count_main(t)
  <2>1. program' = program /\ owner' = owner
    BY <1>16 DEF count_main, Step, Goto
  <2> QED
    BY <1>16, <2>1, OthersKeep DEF Lockers
<1>17. CASE program = "lazy_evaluation" /\ lazy_main(t)
  <2>1. program' = program /\ owner' = owner
    BY <1>17 DEF lazy_main, Step, Goto
  <2> QED
    BY <1>17, <2>1, OthersKeep DEF Lockers
<1> QED
  BY <1>1, <1>2, <1>3, <1>4, <1>5, <1>6, <1>7, <1>8, <1>9, <1>10, <1>11, <1>12,
       <1>13, <1>14, <1>15, <1>16, <1>17 DEF FutureStep

\* The programs with stop tokens.
LEMMA SchedulerKeeps ==
    ASSUME LockInv, NEW t \in Thread, SchedulerStep(t)
    PROVE  Keeps(t)
<1>1. CASE program = "jthread_1"
          /\ (producerLoop(t) \/ workerLoop(t) \/ monitorLoop(t) \/ scheduler_main(t))
  <2>1. /\ Setting(1 .. 5, {"mutex_", "resultMutex_"}, {"cv_"})
        /\ \A u \in Thread : Holds(u, {34}, {"mutex_"})
        /\ \A u \in Thread : Holds(u, {122, 142, 143}, {"resultMutex_"})
    BY <1>1 DEF LockInv, SetUp, LocksHeld
  <2>2. /\ program' = program /\ Frees(t) /\ Setting(1 .. 5, {"mutex_", "resultMutex_"}, {"cv_"})'
        /\ \A u \in Thread : Holds(u, {34}, {"mutex_"})'
        /\ \A u \in Thread : Holds(u, {122, 142, 143}, {"resultMutex_"})'
    <3>1. CASE producerLoop(t)
      BY <1>1, <2>1, <3>1, SMTT(20) DEF producerLoop, Step, push_job, Goto, Guarded,
           NotifyOne, Wake, Holds, Frees, Setting, At, Thread, Free, Nobody, End,
           Sleeping, stop_requested
    <3>2. CASE pop_job(t, 121, End)
      BY <1>1, <2>1, <3>2, SMTT(20) DEF pop_job, Lock, WaitUntil, Unlock, LockAll, Await,
           SleepOn, Goto, Step, Holds, Frees, Setting, At, Thread, Free, Nobody, End,
           Sleeping, stop_requested
    <3>3. CASE workerLoop(t) /\ ~pop_job(t, 121, End)
      BY <1>1, <2>1, <3>3 DEF workerLoop, Lock, Unlock, LockAll, Goto, Holds,
           Frees, Setting, At, Thread, Free, Nobody, End, Sleeping, stop_requested
    <3>4. CASE monitorLoop(t)
      BY <1>1, <2>1, <3>4 DEF monitorLoop, Test, Lock, Guarded, Unlock, Step,
           LockAll, Goto, Holds, Frees, Setting, At, Thread, Free, Nobody, End,
           Sleeping, stop_requested
    <3>5. CASE scheduler_main(t)
      BY <1>1, <2>1, <3>5 DEF scheduler_main, Step, RequestStop, joined,
           workers_destroyed, Goto, Await, stopped, Wake, Holds, Frees, Setting, At,
           Thread, Free, Nobody, End, Sleeping, stop_requested
    <3> QED
      BY <1>1, <3>1, <3>2, <3>3, <3>4, <3>5 DEF workerLoop
  <2> QED
    BY <1>1, <2>2 DEF Keeps, LockInv, SetUp, LocksHeld, AgentsStand, Setting,
         Thread
<1>2. CASE program = "jthread_2" /\ (assigned_job(t) \/ alternate_job(t) \/
          jthread_main(t))
  <2>1. program' = program /\ owner' = owner
    BY <1>2 DEF assigned_job, alternate_job, jthread_main, Test, Step, RequestStop,
         Await, Goto
  <2> QED
    BY <1>2, <2>1, OthersKeep DEF Lockers
<1> QED
  BY <1>1, <1>2 DEF SchedulerStep

\* The programs of the GPU.
LEMMA KernelKeeps ==
    ASSUME LockInv, NEW t \in Thread, KernelStep(t)
    PROVE  Keeps(t)
<1>1. CASE program = "vector_add" /\ IF t = 1 THEN vector_add_main(t) ELSE
          vector_add(t)
  <2>1. program' = program /\ owner' = owner
    BY <1>1 DEF vector_add_main, vector_add, GiveUp, Launch, Finish, Item, Step,
         Await, Goto
  <2> QED
    BY <1>1, <2>1, OthersKeep DEF Lockers
<1>2. CASE program = "saxpy" /\ IF t = 1 THEN saxpy_main(t) ELSE saxpy(t)
  <2>1. program' = program /\ owner' = owner
    BY <1>2 DEF saxpy_main, saxpy, GiveUp, Launch, Finish, Report, Item, Step,
         Await, Goto
  <2> QED
    BY <1>2, <2>1, OthersKeep DEF Lockers
<1>3. CASE program = "non_linear_transform"
          /\ IF t = 1 THEN nonlinear_main(t) ELSE nonlinear(t)
  <2>1. program' = program /\ owner' = owner
    BY <1>3 DEF nonlinear_main, nonlinear, GiveUp, Launch, Finish, Report, Item,
         Step, Await, Goto
  <2> QED
    BY <1>3, <2>1, OthersKeep DEF Lockers
<1>4. CASE program = "convolution_1d" /\ IF t = 1 THEN stencil_main(t) ELSE
          stencil1d(t)
  <2>1. program' = program /\ owner' = owner
    BY <1>4 DEF stencil_main, stencil1d, GiveUp, Launch, Finish, Report, Item,
         Step, Await, Goto
  <2> QED
    BY <1>4, <2>1, OthersKeep DEF Lockers
<1>5. CASE program = "fvm_solver" /\ fvm_main(t)
  <2>1. program' = program /\ owner' = owner
    BY <1>5 DEF fvm_main, Step, Goto
  <2> QED
    BY <1>5, <2>1, OthersKeep DEF Lockers
<1>6. CASE program = "parallel_reduction"
          /\ IF t = 1 THEN reduction_main(t) ELSE mul(t) \/ reduce(t)
  <2>1. program' = program /\ owner' = owner
    BY <1>6 DEF reduction_main, mul, reduce, GiveUp, Launch, Finish, Report, Item,
         Await, Step, Goto
  <2> QED
    BY <1>6, <2>1, OthersKeep DEF Lockers
<1>7. CASE program = "vec_addition"
          /\ IF t = 1 THEN vec_addition_main(t) ELSE cuda_vector_add(t)
  <2>1. program' = program /\ owner' = owner
    BY <1>7 DEF vec_addition_main, cuda_vector_add, Launch, Finish, Item, Step,
         Await, Goto
  <2> QED
    BY <1>7, <2>1, OthersKeep DEF Lockers
<1>8. CASE program = "block_thread_indexing"
          /\ IF t = 1 THEN indexing_main(t) ELSE indexed_vector_add(t)
  <2>1. program' = program /\ owner' = owner
    BY <1>8 DEF indexing_main, indexed_vector_add, Launch, Finish, Item, Step,
         Await, Goto
  <2> QED
    BY <1>8, <2>1, OthersKeep DEF Lockers
<1>9. CASE program = "double_vec" /\ IF t = 1 THEN double_solve(t) ELSE
          double_kernel(t)
  <2>1. program' = program /\ owner' = owner
    BY <1>9 DEF double_solve, double_kernel, solve, Kernel, Launch, Finish, Item,
         Step, Await, Goto
  <2> QED
    BY <1>9, <2>1, OthersKeep DEF Lockers
<1>10. CASE program = "zero_fill" /\ IF t = 1 THEN zero_solve(t) ELSE
          zero_kernel(t)
  <2>1. program' = program /\ owner' = owner
    BY <1>10 DEF zero_solve, zero_kernel, solve, Kernel, Launch, Finish, Item,
         Step, Await, Goto
  <2> QED
    BY <1>10, <2>1, OthersKeep DEF Lockers
<1>11. CASE program = "invert_rgba" /\ IF t = 1 THEN invert_solve(t) ELSE
          invert_kernel(t)
  <2>1. program' = program /\ owner' = owner
    BY <1>11 DEF invert_solve, invert_kernel, solve, Kernel, Launch, Finish, Item,
         Step, Await, Goto
  <2> QED
    BY <1>11, <2>1, OthersKeep DEF Lockers
<1>12. CASE program = "tiled_matmul"
          /\ IF t = 1 THEN tiled_main(t) ELSE load_tile(t) \/ use_tile(t) \/ shuffle(t)
  <2>1. program' = program /\ owner' = owner
    BY <1>12 DEF tiled_main, load_tile, use_tile, shuffle, Step, Finish, Item,
         Goto, Await
  <2> QED
    BY <1>12, <2>1, OthersKeep DEF Lockers
<1>13. CASE program = "select" /\ IF t = 1 THEN select_main(t) ELSE
          select_item(t)
  <2>1. program' = program /\ owner' = owner
    BY <1>13 DEF select_main, select_item, Step, Test, Await, Goto
  <2> QED
    BY <1>13, <2>1, OthersKeep DEF Lockers
<1>14. CASE program = "daxpy" /\ daxpy_main(t)
  <2>1. program' = program /\ owner' = owner
    BY <1>14 DEF daxpy_main, Step, Goto
  <2> QED
    BY <1>14, <2>1, OthersKeep DEF Lockers
<1> QED
  BY <1>1, <1>2, <1>3, <1>4, <1>5, <1>6, <1>7, <1>8, <1>9, <1>10, <1>11, <1>12,
       <1>13, <1>14 DEF KernelStep

\* The programs that share data out.
LEMMA DataKeeps ==
    ASSUME LockInv, NEW t \in Thread, DataStep(t)
    PROVE  Keeps(t)
<1>1. CASE program = "merge_sort" /\ (sorting_main(t) \/ parallelMergeSort(t))
  <2>1. program' = program /\ owner' = owner
    BY <1>1 DEF sorting_main, parallelMergeSort, Step, Born, Unborn, Await, Goto
  <2> QED
    BY <1>1, <2>1, OthersKeep DEF Lockers
<1>2. CASE program = "parallel_accumulate" /\ parallel_accumulate(t)
  <2>1. program' = program /\ owner' = owner
    BY <1>2 DEF parallel_accumulate, Born, Unborn, Step, Spawn, Await, Goto
  <2> QED
    BY <1>2, <2>1, OthersKeep DEF Lockers
<1>3. CASE program = "measure_speed" /\ (parallel_sum_(t) \/
          measuring_main(t))
  <2>1. program' = program /\ owner' = owner
    BY <1>3 DEF parallel_sum_, measuring_main, Born, Step, Await, Goto
  <2> QED
    BY <1>3, <2>1, OthersKeep DEF Lockers
<1>4. CASE program = "parallel_sum" /\ (parallel_sum(t) \/ partial_sum(t))
  <2>1. program' = program /\ owner' = owner
    BY <1>4 DEF parallel_sum, partial_sum, Step, Await, Born, Unborn, Goto
  <2> QED
    BY <1>4, <2>1, OthersKeep DEF Lockers
<1>5. CASE program = "vector_parallel_sum" /\ (add_parallel(t) \/ quarter(t))
  <2>1. program' = program /\ owner' = owner
    BY <1>5 DEF add_parallel, quarter, Step, Await, Born, Goto
  <2> QED
    BY <1>5, <2>1, OthersKeep DEF Lockers
<1>6. CASE program = "prime_sieve" /\ (parallel_sieve(t) \/ sieve_worker(t))
  <2>1. program' = program /\ owner' = owner
    BY <1>6 DEF parallel_sieve, sieve_worker, Step, Await, Born, Goto
  <2> QED
    BY <1>6, <2>1, OthersKeep DEF Lockers
<1>7. CASE program = "data_race" /\ increment_counter(t)
  <2>1. program' = program /\ owner' = owner
    BY <1>7 DEF increment_counter, Step, Goto
  <2> QED
    BY <1>7, <2>1, OthersKeep DEF Lockers
<1>8. CASE program = "exec_policies" /\ (count_position(t) \/
          policies_main(t))
  <2>1. program' = program /\ owner' = owner
    BY <1>8 DEF count_position, policies_main, Step, Await, Goto
  <2> QED
    BY <1>8, <2>1, OthersKeep DEF Lockers
<1>9. CASE program = "basics" /\ (actions_lambda(t) \/ basics_main(t))
  <2>1. program' = program /\ owner' = owner
    BY <1>9 DEF actions_lambda, basics_main, Step, Await, Goto
  <2> QED
    BY <1>9, <2>1, OthersKeep DEF Lockers
<1>10. CASE program = "managing_thread" /\ (managing_main(t) \/
          managed_thread(t))
  <2>1. program' = program /\ owner' = owner
    BY <1>10 DEF managing_main, managed_thread, Step, Goto
  <2> QED
    BY <1>10, <2>1, OthersKeep DEF Lockers
<1>11. CASE program = "thread_unroll" /\ apply(t)
  <2>1. program' = program /\ owner' = owner
    BY <1>11 DEF apply, Born, Step, Await, Goto
  <2> QED
    BY <1>11, <2>1, OthersKeep DEF Lockers
<1>12. CASE program = "for_reduction" /\ for_reduction(t)
  <2>1. program' = program /\ owner' = owner
    BY <1>12 DEF for_reduction, Loop, Step, Joins, Goto, Await
  <2> QED
    BY <1>12, <2>1, OthersKeep DEF Lockers
<1>13. CASE program = "reduction" /\ matrix_sum(t)
  <2>1. program' = program /\ owner' = owner
    BY <1>13 DEF matrix_sum, Loop, Step, Joins, Goto, Await
  <2> QED
    BY <1>13, <2>1, OthersKeep DEF Lockers
<1>14. CASE program = "histogram" /\ histogram_region(t)
  <2>1. \/ \E new, from, to :
               /\ Step(t, from, new, to)
               /\ <<from, to>> \in {<<25, 25>>, <<25, 26>>, <<26, 29>>, <<30, 32>>,
                                    <<32, 30>>, <<35, End>>}
        \/ Lock(t, 29, "critical", 30)
        \/ Unlock(t, 30, {"critical"}, mem, 35)
    BY <1>14 DEF histogram_region, Loop, Joins, Await, End
  <2>2. ASSUME NEW new, NEW from, NEW to, Step(t, from, new, to),
               \/ from \notin {30, 32} /\ to \notin {30, 32}
               \/ from \in {30, 32} /\ to \in {30, 32}
        PROVE  Keeps(t)
    BY <1>14, <2>2 DEF Step, Goto,
          LockInv, SetUp, LocksHeld, AgentsStand, Setting, Holds, Frees, Keeps, At, Thread, Free,
          Nobody, End, Sleeping
  <2>3. CASE Lock(t, 29, "critical", 30)
    BY <1>14, <2>3 DEF Lock, LockAll, Goto,
          LockInv, SetUp, LocksHeld, AgentsStand, Setting, Holds, Frees, Keeps, At, Thread, Free,
          Nobody, End, Sleeping
  <2>4. CASE Unlock(t, 30, {"critical"}, mem, 35)
    BY <1>14, <2>4 DEF Unlock, Goto,
          LockInv, SetUp, LocksHeld, AgentsStand, Setting, Holds, Frees, Keeps, At, Thread, Free,
          Nobody, End, Sleeping
  <2> QED
    BY <2>1, <2>2, <2>3, <2>4 DEF End
<1>15. CASE program = "matrix_multiplication" /\ multiply_region(t)
  <2>1. program' = program /\ owner' = owner
    BY <1>15 DEF multiply_region, Loop, Joins, Step, Await, Goto
  <2> QED
    BY <1>15, <2>1, OthersKeep DEF Lockers
<1>16. CASE program = "pi_monteCarlo" /\ pi_region(t)
  <2>1. program' = program /\ owner' = owner
    BY <1>16 DEF pi_region, Step, Joins, Goto, Await
  <2> QED
    BY <1>16, <2>1, OthersKeep DEF Lockers
<1>17. CASE program = "loops" /\ loops(t)
  <2>1. program' = program /\ owner' = owner
    BY <1>17 DEF loops, Loop, Joins, Step, Await, Goto
  <2> QED
    BY <1>17, <2>1, OthersKeep DEF Lockers
<1>18. CASE program = "parallel_region" /\ parallel_region(t)
  <2>1. program' = program /\ owner' = owner
    BY <1>18 DEF parallel_region, Loop, Joins, Step, Await, Goto
  <2> QED
    BY <1>18, <2>1, OthersKeep DEF Lockers
<1>19. CASE program = "unrolling" /\ unrolled(t)
  <2>1. program' = program /\ owner' = owner
    BY <1>19 DEF unrolled, Loop, Joins, Step, Await, Goto
  <2> QED
    BY <1>19, <2>1, OthersKeep DEF Lockers
<1>20. CASE program = "thread_join" /\ thread_join(t)
  <2>1. program' = program /\ owner' = owner
    BY <1>20 DEF thread_join, Step, Joins, Goto, Await
  <2> QED
    BY <1>20, <2>1, OthersKeep DEF Lockers
<1> QED
  BY <1>1, <1>2, <1>3, <1>4, <1>5, <1>6, <1>7, <1>8, <1>9, <1>10, <1>11, <1>12,
       <1>13, <1>14, <1>15, <1>16, <1>17, <1>18, <1>19, <1>20 DEF DataStep

\* A step of a thread of any program.
LEMMA ThreadKeeps ==
    ASSUME LockInv, NEW t \in Thread, ThreadStep(t)
    PROVE  Keeps(t)
BY LockKeeps, MonitorKeeps, EventKeeps, FutureKeeps, SchedulerKeeps, KernelKeeps, DataKeeps
   DEF ThreadStep

\* What main() sets up.
LEMMA OthersBoot == program \notin Lockers => LockInv
BY DEF LockInv, SetUp, LocksHeld, AgentsStand, Lockers

LEMMA LockBoot == Boots(LockMains) => LockInv
<1> SUFFICES ASSUME NEW p \in DOMAIN LockMains, Boot(p, LockMains[p]) PROVE LockInv
  BY DEF Boots
<1>1. CASE p = "abandoned_lock"
  <2>1. /\ program = p /\ pc = <<8, 8>>
        /\ owner = [m \in {"chopsticks"} |-> Nobody] /\ asleep = [c \in {} |-> {}]
    BY <1>1 DEF Boot, LockMains, AbandonedLock, Main
  <2> QED
    BY <1>1, <2>1 DEF LockInv, SetUp, LocksHeld, AgentsStand, Setting, Holds,
         Thread
<1>2. CASE p = "scoped_lock_abandoned"
  <2>1. /\ program = p /\ pc = <<8, 8>>
        /\ owner = [m \in {"chopsticks"} |-> Nobody] /\ asleep = [c \in {} |-> {}]
    BY <1>2 DEF Boot, LockMains, ScopedLockAbandoned, Main
  <2> QED
    BY <1>2, <2>1 DEF LockInv, SetUp, LocksHeld, AgentsStand, Setting, Holds,
         Thread
<1>3. CASE p = "starvation"
  <2>1. /\ program = p /\ pc = <<10, 10, 10>>
        /\ owner = [m \in {"chopsticks"} |-> Nobody] /\ asleep = [c \in {} |-> {}]
    BY <1>3 DEF Boot, LockMains, Starvation, Main
  <2> QED
    BY <1>3, <2>1 DEF LockInv, SetUp, LocksHeld, AgentsStand, Setting, Holds,
         Thread
<1>4. CASE p = "dead_lock_philosophers"
  <2>1. /\ program = p /\ pc = <<10, 10>>
        /\ owner = [m \in {"a", "b"} |-> Nobody] /\ asleep = [c \in {} |-> {}]
    BY <1>4 DEF Boot, LockMains, DeadLockPhilosophers, Main
  <2> QED
    BY <1>4, <2>1 DEF LockInv, SetUp, LocksHeld, AgentsStand, Setting, Holds,
         Thread
<1>5. CASE p = "livelock_philosophers"
  <2>1. /\ program = p /\ pc = <<10, 10, 10, 10>>
        /\ owner = [m \in {"a", "b"} |-> Nobody] /\ asleep = [c \in {} |-> {}]
    BY <1>5 DEF Boot, LockMains, LivelockPhilosophers, Main
  <2> QED
    BY <1>5, <2>1 DEF LockInv, SetUp, LocksHeld, AgentsStand, Setting, Holds,
         Thread
<1>6. CASE p = "scoped_lock_dead_lock"
  <2>1. /\ program = p /\ pc = <<61, 61, 61>>
        /\ owner = [m \in {"database", "cache", "network"} |-> Nobody] /\ asleep = [c \in {} |-> {}]
        /\ mem = [database |-> 0, cache |-> 0, network |-> 0,
                  i |-> <<0, 0, 0>>, f |-> <<20, 34, 48>>]
    BY <1>6 DEF Boot, LockMains, ScopedLockDeadLock, Main
  <2> QED
    BY <1>6, <2>1 DEF LockInv, SetUp, LocksHeld, AgentsStand, Setting, Holds,
         Thread
<1>7. CASE p = "deadlock_1"
  <2>1. /\ program = p /\ pc = <<14, 28>>
        /\ owner = [m \in {"m1", "m2"} |-> Nobody] /\ asleep = [c \in {} |-> {}]
    BY <1>7 DEF Boot, LockMains, Deadlock1, Main
  <2> QED
    BY <1>7, <2>1 DEF LockInv, SetUp, LocksHeld, AgentsStand, Setting, Holds,
         Thread
<1>8. CASE p = "deadlock_2"
  <2>1. /\ program = p /\ pc = <<18, 18>>
        /\ owner = [m \in {"m1", "m2"} |-> Nobody] /\ asleep = [c \in {} |-> {}]
    BY <1>8 DEF Boot, LockMains, Deadlock2, Main
  <2> QED
    BY <1>8, <2>1 DEF LockInv, SetUp, LocksHeld, AgentsStand, Setting, Holds,
         Thread
<1>9. CASE p = "dining_philosophers"
  <2>1. /\ program = p /\ pc = <<46, 46, 46, 46, 46>>
        /\ owner = [m \in forks |-> Nobody] /\ asleep = [c \in {} |-> {}]
    BY <1>9 DEF Boot, LockMains, DiningPhilosophers, forks, Main
  <2> QED
    BY <1>9, <2>1 DEF LockInv, SetUp, LocksHeld, AgentsStand, Setting, Holds,
         Thread
<1>10. CASE p = "try_lock_dining_philosophers"
  <2>1. /\ program = p /\ pc = <<53, 53, 53, 53, 53>>
        /\ owner = [m \in forks |-> Nobody] /\ asleep = [c \in {} |-> {}]
    BY <1>10 DEF Boot, LockMains, TryLockDiningPhilosophers, forks, Main
  <2> QED
    BY <1>10, <2>1 DEF LockInv, SetUp, LocksHeld, AgentsStand, Setting, Holds,
         Thread
<1>11. CASE p = "mutex_example"
  <2>1. /\ program = p /\ pc = <<46, 46, 46, 46>>
        /\ owner = [m \in {1, 2} |-> Nobody] /\ asleep = [c \in {} |-> {}]
    BY <1>11 DEF Boot, LockMains, MutexExample, Main
  <2> QED
    BY <1>11, <2>1 DEF LockInv, SetUp, LocksHeld, AgentsStand, Setting, Holds,
         Thread
<1>12. CASE p = "mutex_example_1"
  <2>1. /\ program = p /\ pc = <<10, 10>>
        /\ owner = [m \in {"pencil"} |-> Nobody] /\ asleep = [c \in {} |-> {}]
    BY <1>12 DEF Boot, LockMains, Shoppers, Main
  <2> QED
    BY <1>12, <2>1 DEF LockInv, SetUp, LocksHeld, AgentsStand, Setting, Holds,
         Thread
<1>13. CASE p = "atomic_example"
  <2>1. /\ program = p /\ pc = <<13, 13>>
        /\ owner = [m \in {"pencil"} |-> Nobody] /\ asleep = [c \in {} |-> {}]
    BY <1>13 DEF Boot, LockMains, AtomicShoppers, Main
  <2> QED
    BY <1>13, <2>1 DEF LockInv, SetUp, LocksHeld, AgentsStand, Setting, Holds,
         Thread
<1>14. CASE p = "objects"
  <2>1. /\ program = p /\ pc = <<39, 39, 39, 39, 39>>
        /\ owner = [m \in {"mtx"} |-> Nobody] /\ asleep = [c \in {} |-> {}]
    BY <1>14 DEF Boot, LockMains, Objects, Main
  <2> QED
    BY <1>14, <2>1 DEF LockInv, SetUp, LocksHeld, AgentsStand, Setting, Holds,
         Thread
<1>15. CASE p = "unique_mtx"
  <2>1. /\ program = p /\ pc = <<12, 12, 12>>
        /\ owner = [m \in {"print_mutex"} |-> Nobody] /\ asleep = [c \in {} |-> {}]
    BY <1>15 DEF Boot, LockMains, UniqueMutex, Main
  <2> QED
    BY <1>15, <2>1 DEF LockInv, SetUp, LocksHeld, AgentsStand, Setting, Holds,
         Thread
<1>16. CASE p = "unique_mtx2"
  <2>1. /\ program = p /\ pc = <<12, 25>>
        /\ owner = [m \in {"mtx"} |-> Nobody] /\ asleep = [c \in {} |-> {}]
    BY <1>16 DEF Boot, LockMains, TimedMutex, Main
  <2> QED
    BY <1>16, <2>1 DEF LockInv, SetUp, LocksHeld, AgentsStand, Setting, Holds,
         Thread
<1>17. CASE p = "read_write"
  <2>1. /\ program = p /\ pc = <<18, 13, 13, 18>>
        /\ owner = [m \in {"shrd_mut"} |-> Nobody] /\ asleep = [c \in {} |-> {}]
    BY <1>17 DEF Boot, LockMains, ReadWrite, Main
  <2> QED
    BY <1>17, <2>1 DEF LockInv, SetUp, LocksHeld, AgentsStand, Setting, Holds,
         Thread
<1>18. CASE p = "recursive_mutex"
  <2>1. /\ program = p /\ pc = <<9, 9, 9, 9, 9>>
        /\ owner = [m \in {"rm"} |-> Nobody] /\ asleep = [c \in {} |-> {}]
    BY <1>18 DEF Boot, LockMains, RecursiveMutex, Main
  <2> QED
    BY <1>18, <2>1 DEF LockInv, SetUp, LocksHeld, AgentsStand, Setting, Holds,
         Thread
<1>19. CASE p = "shared_mutex"
  <2>1. /\ program = p /\ pc = <<16, 16, 25, 25>>
        /\ owner = [m \in {"ptr"} |-> Nobody] /\ asleep = [c \in {} |-> {}]
    BY <1>19 DEF Boot, LockMains, SharedMutex, Main
  <2> QED
    BY <1>19, <2>1 DEF LockInv, SetUp, LocksHeld, AgentsStand, Setting, Holds,
         Thread
<1>20. CASE p = "producer_consumer"
  <2>1. /\ program = p /\ pc = <<33, 42>>
        /\ owner = [m \in {"p_mtx"} |-> Nobody] /\ asleep = [c \in {} |-> {}]
    BY <1>20 DEF Boot, LockMains, ProducerConsumer, Main
  <2> QED
    BY <1>20, <2>1 DEF LockInv, SetUp, LocksHeld, AgentsStand, Setting, Holds,
         Thread
<1> QED
  BY <1>1, <1>2, <1>3, <1>4, <1>5, <1>6, <1>7, <1>8, <1>9, <1>10, <1>11, <1>12,
       <1>13, <1>14, <1>15, <1>16, <1>17, <1>18, <1>19, <1>20, OthersBoot DEF Boot,
       LockMains, Lockers

LEMMA MonitorBoot == Boots(MonitorMains) => LockInv
<1> SUFFICES ASSUME NEW p \in DOMAIN MonitorMains, Boot(p, MonitorMains[p]) PROVE LockInv
  BY DEF Boots
<1>1. CASE p = "semaphore"
  <2>1. /\ program = p /\ pc = <<11, 23, 23, 11, 11>>
        /\ owner = [m \in {"mut"} |-> Nobody] /\ asleep = [c \in {"cv"} |-> {}]
    BY <1>1 DEF Boot, MonitorMains, SemaphoreMain, Main
  <2> QED
    BY <1>1, <2>1 DEF LockInv, SetUp, LocksHeld, AgentsStand, Setting, Holds,
         Thread
<1>2. CASE p = "counter"
  <2>1. /\ program = p /\ pc = <<48, 147, 147>>
        /\ owner = [m \in {"mtx_"} |-> Nobody] /\ asleep = [c \in {"cond_"} |-> {}]
    BY <1>2 DEF Boot, MonitorMains, CounterMain, Main
  <2> QED
    BY <1>2, <2>1 DEF LockInv, SetUp, LocksHeld, AgentsStand, Setting, Holds,
         Thread
<1>3. CASE p = "predicate_coordination"
  <2>1. /\ program = p /\ pc = <<32, 18, 18, 18>>
        /\ owner = [m \in {"mut"} |-> Nobody] /\ asleep = [c \in {"cond_var"} |-> {}]
    BY <1>3 DEF Boot, MonitorMains, PredicateMain, Main
  <2> QED
    BY <1>3, <2>1 DEF LockInv, SetUp, LocksHeld, AgentsStand, Setting, Holds,
         Thread
<1>4. CASE p = "condtional_coordination"
  <2>1. /\ program = p /\ pc = <<16, 29>>
        /\ owner = [m \in {"mut"} |-> Nobody] /\ asleep = [c \in {"cond_var"} |-> {}]
    BY <1>4 DEF Boot, MonitorMains, NoPredicateMain, Main
  <2> QED
    BY <1>4, <2>1 DEF LockInv, SetUp, LocksHeld, AgentsStand, Setting, Holds,
         Thread
<1>5. CASE p = "navigation"
  <2>1. /\ program = p /\ pc = <<18, 26>>
        /\ owner = [m \in {"mut"} |-> Nobody] /\ asleep = [c \in {"cv"} |-> {}]
    BY <1>5 DEF Boot, MonitorMains, run_communication, Main
  <2> QED
    BY <1>5, <2>1 DEF LockInv, SetUp, LocksHeld, AgentsStand, Setting, Holds,
         Thread
<1>6. CASE p = "thread_coordination"
  <2>1. /\ program = p /\ pc = <<19, 43, 69>>
        /\ owner = [m \in {"data_mutex", "completed_mutex"} |-> Nobody]
        /\ asleep = [c \in {} |-> {}]
    BY <1>6 DEF Boot, MonitorMains, ThreadCoordination, Main
  <2> QED
    BY <1>6, <2>1 DEF LockInv, SetUp, LocksHeld, AgentsStand, Setting, Holds,
         Thread
<1>7. CASE p = "coordination"
  <2>1. /\ program = p /\ pc = <<73, 73, 73, 73>>
        /\ owner = [m \in {"coordination_mutex"} |-> Nobody]
        /\ asleep = [c \in {"turn_signal"} |-> {}]
    BY <1>7 DEF Boot, MonitorMains, Restaurants, Main
  <2> QED
    BY <1>7, <2>1 DEF LockInv, SetUp, LocksHeld, AgentsStand, Setting, Holds,
         Thread
<1>8. CASE p = "race_condition_latch"
  <2>1. /\ program = p /\ pc = <<19, 33, 19, 33>>
        /\ owner = [m \in {"borrower"} |-> Nobody] /\ asleep = [c \in {} |-> {}]
    BY <1>8 DEF Boot, MonitorMains, Latch, Main
  <2> QED
    BY <1>8, <2>1 DEF LockInv, SetUp, LocksHeld, AgentsStand, Setting, Holds,
         Thread
<1>9. CASE p = "cv_soup"
  <2>1. /\ program = p /\ pc = <<13, 13, 13, 13, 13>>
        /\ owner = [m \in {"slow_cooker_lid"} |-> Nobody] /\ asleep = [c \in {"soup_taken"} |-> {}]
    BY <1>9 DEF Boot, MonitorMains, Soup, Main
  <2> QED
    BY <1>9, <2>1 DEF LockInv, SetUp, LocksHeld, AgentsStand, Setting, Holds,
         Thread
<1>10. CASE p = "producer_consumer_queue"
  <2>1. /\ program = p /\ pc = <<36, 17, 17>>
        /\ owner = [m \in {"ladle"} |-> Nobody] /\ asleep = [c \in {"element_served"} |-> {}]
    BY <1>10 DEF Boot, MonitorMains, ServerLine, Main
  <2> QED
    BY <1>10, <2>1 DEF LockInv, SetUp, LocksHeld, AgentsStand, Setting, Holds,
         Thread
<1>11. CASE p = "thread_safe_queue"
  <2>1. /\ program = p /\ pc = <<12, 12, 12, 38, 38>>
        /\ owner = [m \in {"mut"} |-> Nobody] /\ asleep = [c \in {"cv"} |-> {}]
    BY <1>11 DEF Boot, MonitorMains, SafeQueueClients, Main
  <2> QED
    BY <1>11, <2>1 DEF LockInv, SetUp, LocksHeld, AgentsStand, Setting, Holds,
         Thread
<1>12. CASE p = "thread_safe_queue_pop"
  <2>1. /\ program = p /\ pc = <<12, 12, 12, 38, 25>>
        /\ owner = [m \in {"mut"} |-> Nobody] /\ asleep = [c \in {"cv"} |-> {}]
    BY <1>12 DEF Boot, MonitorMains, SafeQueueWithPop, Main
  <2> QED
    BY <1>12, <2>1 DEF LockInv, SetUp, LocksHeld, AgentsStand, Setting, Holds,
         Thread
<1> QED
  BY <1>1, <1>2, <1>3, <1>4, <1>5, <1>6, <1>7, <1>8, <1>9, <1>10, <1>11, <1>12,
       OthersBoot DEF Boot, MonitorMains, Lockers

LEMMA EventBoot == Boots(EventMains) => LockInv
<1> SUFFICES ASSUME NEW p \in DOMAIN EventMains, Boot(p, EventMains[p]) PROVE LockInv
  BY DEF Boots
<1>1. CASE p = "lazy_initialization"
  <2>1. /\ program = p /\ pc = <<46, 46>>
        /\ owner = [m \in {"instanceMutex", "smartMutex"} |-> Nobody] /\ asleep = [c \in {} |-> {}]
    BY <1>1 DEF Boot, EventMains, LazyInitialization, Main
  <2> QED
    BY <1>1, <2>1 DEF LockInv, SetUp, LocksHeld, AgentsStand, Setting, Holds,
         Thread
<1>2. CASE p = "double_check"
  <2>1. /\ program = p /\ pc = <<15, 15, 15>>
        /\ owner = [m \in {"process_mutex"} |-> Nobody] /\ asleep = [c \in {} |-> {}]
    BY <1>2 DEF Boot, EventMains, DoubleCheck, Main
  <2> QED
    BY <1>2, <2>1 DEF LockInv, SetUp, LocksHeld, AgentsStand, Setting, Holds,
         Thread
<1>3. CASE p = "atomic_double_checked"
  <2>1. /\ program = p /\ pc = <<18, 18, 18>>
        /\ owner = [m \in {"mut"} |-> Nobody] /\ asleep = [c \in {} |-> {}]
    BY <1>3 DEF Boot, EventMains, AtomicDoubleChecked, Main
  <2> QED
    BY <1>3, <2>1 DEF LockInv, SetUp, LocksHeld, AgentsStand, Setting, Holds,
         Thread
<1>4. CASE p = "spin_lock"
  <2>1. /\ program = p /\ pc = <<10, 10, 10, 10>>
        /\ owner = [m \in {"lock_cout"} |-> Nobody] /\ asleep = [c \in {} |-> {}]
    BY <1>4 DEF Boot, EventMains, SpinLock, Main
  <2> QED
    BY <1>4, <2>1 DEF LockInv, SetUp, LocksHeld, AgentsStand, Setting, Holds,
         Thread
<1> QED
  BY <1>1, <1>2, <1>3, <1>4, OthersBoot DEF Boot, EventMains, Lockers

LEMMA FutureBoot == Boots(FutureMains) => LockInv
<1> SUFFICES ASSUME NEW p \in DOMAIN FutureMains, Boot(p, FutureMains[p]) PROVE LockInv
  BY DEF Boots
<1>1. CASE p = "multiple_waiting_threads"
  <2>1. /\ program = p /\ pc = <<15, 21, 21>>
        /\ owner = [m \in {"mut"} |-> Nobody] /\ asleep = [c \in {} |-> {}]
    BY <1>1 DEF Boot, FutureMains, SharedFuture, Main
  <2> QED
    BY <1>1, <2>1 DEF LockInv, SetUp, LocksHeld, AgentsStand, Setting, Holds,
         Thread
<1> QED
  BY <1>1, OthersBoot DEF Boot, FutureMains, Lockers

LEMMA SchedulerBoot == Boots(SchedulerMains) => LockInv
<1> SUFFICES ASSUME NEW p \in DOMAIN SchedulerMains, Boot(p, SchedulerMains[p]) PROVE LockInv
  BY DEF Boots
<1>1. CASE p = "jthread_1"
  <2>1. /\ program = p /\ pc = <<158, 93, 135, 28, 28>>
        /\ owner = [m \in {"mutex_", "resultMutex_"} |-> Nobody] /\ asleep = [c \in {"cv_"} |-> {}]
    BY <1>1 DEF Boot, SchedulerMains, Scheduler, Main, End
  <2> QED
    BY <1>1, <2>1 DEF LockInv, SetUp, LocksHeld, AgentsStand, Setting, Holds,
         Thread
<1> QED
  BY <1>1, OthersBoot DEF Boot, SchedulerMains, Lockers

LEMMA KernelBoot == Boots(KernelMains) => LockInv
<1> SUFFICES ASSUME NEW p \in DOMAIN KernelMains, Boot(p, KernelMains[p]) PROVE LockInv
  BY DEF Boots
<1> QED
  BY OthersBoot DEF Boot, KernelMains, Lockers

LEMMA DataBoot == Boots(DataMains) => LockInv
<1> SUFFICES ASSUME NEW p \in DOMAIN DataMains, Boot(p, DataMains[p]) PROVE LockInv
  BY DEF Boots
<1>1. CASE p = "histogram"
  <2>1. /\ program = p /\ pc = [t \in 1 .. Team |-> 25]
        /\ owner = [m \in {"critical"} |-> Nobody] /\ asleep = [c \in {} |-> {}]
    BY <1>1 DEF Boot, DataMains, Histogram, Region, Main
  <2> QED
    BY <1>1, <2>1 DEF LockInv, SetUp, LocksHeld, AgentsStand, Setting, Holds,
         Thread
<1> QED
  BY <1>1, OthersBoot DEF Boot, DataMains, Lockers

LEMMA LockStart == Init => LockInv
BY LockBoot, MonitorBoot, EventBoot, FutureBoot, SchedulerBoot, KernelBoot, DataBoot DEF Init

LEMMA LockNext == LockInv /\ [Next]_vars => LockInv' /\ program' = program
<1> SUFFICES ASSUME LockInv, [Next]_vars PROVE LockInv' /\ program' = program
  OBVIOUS
<1>1. CASE UNCHANGED vars
  BY <1>1 DEF vars, machineVars, LockInv, SetUp, LocksHeld, AgentsStand, Setting, Holds, Thread
<1>2. CASE SpuriousWakeup
  BY <1>2 DEF SpuriousWakeup, LockInv, SetUp, LocksHeld, AgentsStand, Setting, Holds, Thread
<1>3. CASE \E t \in Thread : ThreadStep(t)
  BY <1>3, ThreadKeeps DEF Keeps
<1> QED
  BY <1>1, <1>2, <1>3 DEF Next

\* Every critical section of the programs is entered with its mutex and left with it.
THEOREM LocksInvariant == Spec => []LockInv
BY LockStart, LockNext, PTL DEF Spec

\* No thread frees a mutex that another holds, over all the unlock()s, lock guards and
\* early returns of the programs.
THEOREM HoldersRelease == Spec => OnlyHolderReleases
<1>1. LockInv /\ [Next]_vars =>
        [program # "philosophers_scoped_lock" =>
           \A m \in DOMAIN owner :
              owner[m] # Nobody /\ owner'[m] # owner[m] =>
                 /\ owner'[m] = Nobody
                 /\ pc'[owner[m]] # pc[owner[m]] \/ asleep' # asleep]_vars
  <2> SUFFICES ASSUME LockInv, Next, program # "philosophers_scoped_lock",
                      NEW m \in DOMAIN owner, owner[m] # Nobody, owner'[m] # owner[m]
               PROVE  /\ owner'[m] = Nobody
                      /\ pc'[owner[m]] # pc[owner[m]] \/ asleep' # asleep
    OBVIOUS
  <2>1. PICK t \in Thread : ThreadStep(t)
    BY DEF Next, SpuriousWakeup
  <2> QED
    BY <2>1, ThreadKeeps DEF Keeps, Frees
<1> QED
  BY <1>1, LocksInvariant, PTL DEF Spec, OnlyHolderReleases

-----------------------------------------------------------------------------
\* Which of the steps is a program's, and which of the beginnings.

LEMMA StepOf ==
  ASSUME NEW t, ThreadStep(t)
  PROVE  /\ program = "dining_philosophers" => dine(t)
         /\ program = "try_lock_dining_philosophers" => try_lock_dine(t)
         /\ program = "read_write" => write(t) \/ read(t)
         /\ program = "atomics_class" => countem(t) \/ swarm_main(t)
         /\ program = "call_once" => call_once_process(t)
         /\ program = "singleton" => singleton_task(t)
         /\ program = "double_check" => double_check_process(t)
         /\ program = "atomic_double_checked" => atomic_process(t)
         /\ program = "lazy_initialization" => worker(t)
         /\ program = "jthread_1" =>
              producerLoop(t) \/ workerLoop(t) \/ monitorLoop(t) \/ scheduler_main(t)
         /\ program = "barrier" => agent_routine(t)
         /\ program = "coordination" => restaurant_announcement(t)
         /\ program = "predicate_coordination" => predicate_reader(t) \/ predicate_writer(t)
         /\ program = "counter" => CounterThreads(t)
         /\ program = "config_manager" => config_reader(t) \/ config_writer(t)
BY DEF ThreadStep, LockStep, MonitorStep, EventStep, FutureStep, SchedulerStep, KernelStep,
       DataStep

LEMMA BootOf ==
  ASSUME NEW Mains, Boots(Mains)
  PROVE  program \in DOMAIN Mains /\ Boot(program, Mains[program])
BY DEF Boots, Boot

LEMMA StartOf ==
  ASSUME Init
  PROVE  /\ program = "dining_philosophers" => Boot(program, DiningPhilosophers)
         /\ program = "try_lock_dining_philosophers" => Boot(program, TryLockDiningPhilosophers)
         /\ program = "read_write" => Boot(program, ReadWrite)
         /\ program = "atomics_class" => Boot(program, Swarm)
         /\ program = "call_once" => Boot(program, CallOnceMain)
         /\ program = "singleton" => Boot(program, SingletonMain)
         /\ program = "double_check" => Boot(program, DoubleCheck)
         /\ program = "atomic_double_checked" => Boot(program, AtomicDoubleChecked)
         /\ program = "lazy_initialization" => Boot(program, LazyInitialization)
         /\ program = "coordination" => Boot(program, Restaurants)
         /\ program = "barrier" => Boot(program, Barrier)
         /\ program = "config_manager" => Boot(program, ConfigMain)
         /\ program = "predicate_coordination" => Boot(program, PredicateMain)
         /\ program = "counter" => Boot(program, CounterMain)
         /\ program = "jthread_1" => Boot(program, Scheduler)
<1>1. CASE Boots(LockMains)
  BY <1>1, BootOf DEF LockMains
<1>2. CASE Boots(MonitorMains)
  BY <1>2, BootOf DEF MonitorMains
<1>3. CASE Boots(EventMains)
  BY <1>3, BootOf DEF EventMains
<1>4. CASE Boots(FutureMains)
  BY <1>4, BootOf DEF FutureMains
<1>5. CASE Boots(SchedulerMains)
  BY <1>5, BootOf DEF SchedulerMains
<1>6. CASE Boots(KernelMains)
  BY <1>6, BootOf DEF KernelMains
<1>7. CASE Boots(DataMains)
  BY <1>7, BootOf DEF DataMains
<1> QED
  BY <1>1, <1>2, <1>3, <1>4, <1>5, <1>6, <1>7 DEF Init

-----------------------------------------------------------------------------
\* Mutual exclusion without a mutex, or with more than one

\* The shared data have these names.
Fields(names) == names \subseteq DOMAIN mem

\* One of the two programs eats at line 56, the other at line 58.
ForksInv ==
    /\ program = "dining_philosophers" => \A t \in Thread : pc[t] # 58
    /\ program = "try_lock_dining_philosophers" => \A t \in Thread : pc[t] # 56

\* The shared lock of shared_mutex.cpp: nobody writes while somebody reads.
ReadersInv ==
    /\ Fields({"readers", "x"})
    /\ mem.readers # {} => owner["shrd_mut"] = Nobody

\* The flag `winner` is up once somebody has won, and before anybody has stopped.
SwarmInv ==
    /\ Thread = 1 .. 4 /\ Fields({"ready", "winner", "won", "g_count", "i"})
    /\ mem.winner \in BOOLEAN
    /\ ~mem.winner => mem.won = {}
    /\ mem.winner => \E u \in Thread : mem.won = {u}
    /\ pc[1] \in {52, End}
    /\ \A t \in 2 .. 4 : pc[t] \in {33, 34, 35, 36, 38, End} /\ (Ended(t) => mem.winner)

\* What mutual exclusion rests on beside the critical sections.
ExclusiveInv ==
    /\ ForksInv
    /\ program = "read_write" => ReadersInv
    /\ program = "atomics_class" => SwarmInv

LEMMA ForksKept ==
  ASSUME LockInv, ForksInv, NEW t \in Thread, ThreadStep(t), program' = program
  PROVE  ForksInv'
BY StepOf DEF ForksInv, LockInv, SetUp, Setting, dine, try_lock_dine, TryLock, LockAll, Step,
              Unlock, Goto, Thread, End

LEMMA ReadersKept ==
  ASSUME LockInv, program = "read_write", ReadersInv,
         NEW t \in Thread, ThreadStep(t), program' = program
  PROVE  ReadersInv'
<1>1. Setting(1 .. 4, {"shrd_mut"}, {}) /\ (write(t) \/ read(t))
  BY StepOf DEF LockInv, SetUp
<1> QED
  BY <1>1 DEF ReadersInv, Fields, Setting, write, read, Lock, LockAll, Unlock, Guarded, Step,
              Free, Nobody

LEMMA SwarmKept ==
  ASSUME program = "atomics_class", SwarmInv,
         NEW t \in Thread, ThreadStep(t), program' = program
  PROVE  SwarmInv'
<1>1. countem(t) \/ swarm_main(t)
  BY StepOf
<1> USE DEF SwarmInv, Fields, Goto, At, Thread, Ended, End
<1>2. CASE swarm_main(t)
  BY <1>2 DEF swarm_main, Step
<1>3. CASE Step(t, 38, [mem EXCEPT !.winner = TRUE,
                                    !.won = IF mem.winner THEN @ ELSE @ \cup {t}], End)
  <2>1. mem.won = {} \/ \E u \in Thread : mem.won = {u}
    BY DEF Step
  <2> QED
    BY <1>3, <2>1 DEF Step
<1>4. CASE Step(t, 36, [mem EXCEPT !.g_count = @ + 1, !.i[t] = @ + 1], 34)
  BY <1>4 DEF Step
<1>5. CASE \/ Await(t, 33, mem.ready, mem, 34)
           \/ Test(t, 34, mem.i[t] < Rounds, 35, 38)
           \/ Test(t, 35, mem.winner, End, 36)
  BY <1>5 DEF Await, Test, Step
<1> QED
  BY <1>1, <1>2, <1>3, <1>4, <1>5 DEF countem

LEMMA ExclusiveStart == Init => ExclusiveInv
<1> SUFFICES ASSUME Init PROVE ExclusiveInv
  OBVIOUS
<1>1. CASE program = "dining_philosophers"
  BY <1>1, StartOf DEF Boot, Main, DiningPhilosophers, ExclusiveInv, ForksInv, Thread
<1>2. CASE program = "try_lock_dining_philosophers"
  <2>1. pc = <<53, 53, 53, 53, 53>>
    BY <1>2, StartOf DEF Boot, Main, TryLockDiningPhilosophers
  <2>2. \A t \in Thread : pc[t] = 53
    BY <2>1 DEF Thread
  <2>3. ForksInv
    BY <1>2, <2>2 DEF ForksInv
  <2> QED
    BY <1>2, <2>3 DEF ExclusiveInv
<1>3. CASE program = "read_write"
  BY <1>3, StartOf DEF Boot, Main, ReadWrite, ExclusiveInv, ForksInv, ReadersInv, Fields
<1>4. CASE program = "atomics_class"
  <2>1. /\ pc = <<52, 33, 33, 33>>
        /\ mem = [ready |-> FALSE, winner |-> FALSE, won |-> {}, g_count |-> 0,
                  i |-> <<0, 0, 0, 0>>]
    BY <1>4, StartOf DEF Boot, Main, Swarm
  <2>2. SwarmInv
    BY <2>1 DEF SwarmInv, Fields, Thread, Ended, End
  <2> QED
    BY <1>4, <2>2 DEF ExclusiveInv, ForksInv
<1> QED
  BY <1>1, <1>2, <1>3, <1>4 DEF ExclusiveInv, ForksInv

LEMMA ExclusiveNext == LockInv /\ ExclusiveInv /\ [Next]_vars => ExclusiveInv'
<1> SUFFICES ASSUME LockInv, ExclusiveInv, [Next]_vars PROVE ExclusiveInv'
  OBVIOUS
<1>1. program' = program
  BY LockNext
<1>2. CASE UNCHANGED <<pc, owner, mem>>
  BY <1>1, <1>2 DEF ExclusiveInv, ForksInv, ReadersInv, SwarmInv, Fields, Thread, Ended
<1>3. CASE \E t \in Thread : ThreadStep(t)
  BY <1>1, <1>3, ForksKept, ReadersKept, SwarmKept DEF ExclusiveInv
<1> QED
  BY <1>2, <1>3 DEF Next, SpuriousWakeup, vars, machineVars

\* Those who eat beside each other do not eat at once, a writer is alone, and the spin
\* lock, the critical section and the flag of the swarm let one thread through; for
\* every number of rounds and every team of OpenMP.
THEOREM OneAtATime == Spec => []Exclusive
<1>1. LockInv /\ ExclusiveInv => Exclusive
  <2> SUFFICES ASSUME LockInv, ExclusiveInv PROVE Exclusive
    OBVIOUS
  <2>1. program = "dead_lock_philosophers" => OneAt({14, 16})
    BY DEF LockInv, SetUp, Setting, LocksHeld, Holds, OneAt, Opposite
  <2>2. program \in {"dining_philosophers", "try_lock_dining_philosophers"} =>
          \A t, u \in Thread :
             pc[t] \in {56, 58} /\ pc[u] \in {56, 58} /\ Neighbours(t, u) => t = u
    BY DEF LockInv, LocksHeld, Holds, ExclusiveInv, ForksInv, Neighbours
  <2>3. program = "read_write" => (mem.readers # {} => owner["shrd_mut"] = Nobody)
    BY DEF ExclusiveInv, ReadersInv
  <2>4. program = "spin_lock" => OneAt({18, 21})
    BY DEF LockInv, LocksHeld, Holds, OneAt
  <2>5. program = "histogram" => OneAt({30, 32})
    BY DEF LockInv, LocksHeld, Holds, OneAt
  <2>6. program = "atomics_class" =>
          Cardinality(mem.won) <= 1 /\ (AllEnded => mem.won # {})
    <3> SUFFICES ASSUME program = "atomics_class"
                 PROVE  Cardinality(mem.won) <= 1 /\ (AllEnded => mem.won # {})
      OBVIOUS
    <3>1. mem.won = {} \/ \E u \in Thread : mem.won = {u}
      BY DEF ExclusiveInv, SwarmInv
    <3>2. Cardinality(mem.won) <= 1
      <4>1. Cardinality({}) = 0
        BY FS_EmptySet
      <4>2. \A u : Cardinality({u}) = 1
        BY FS_Singleton
      <4> DEFINE won == mem.won
      <4> HIDE DEF won
      <4>3. won = {} \/ \E u \in Thread : won = {u}
        BY <3>1 DEF won
      <4>4. Cardinality(won) = 0 \/ Cardinality(won) = 1
        BY <4>1, <4>2, <4>3
      <4> QED
        BY <4>4 DEF won
    <3>3. AllEnded => mem.won # {}
      BY DEF ExclusiveInv, SwarmInv, AllEnded
    <3> QED
      BY <3>2, <3>3
  <2> QED
    BY <2>1, <2>2, <2>3, <2>4, <2>5, <2>6 DEF Exclusive
<1> QED
  BY <1>1, LocksInvariant, LockStart, LockNext, ExclusiveStart, ExclusiveNext, PTL DEF Spec

-----------------------------------------------------------------------------
\* One object

\* The flag of call_once(), and the object that its initialiser makes.
CallOnceInv ==
    /\ Thread = 1 .. 2 /\ DOMAIN mem = {"made", "p_test", "ptest_flag", "used"}
    /\ DOMAIN mem.used = Thread
    /\ mem.ptest_flag \in {"new", "running", "done"}
    /\ mem.made = (IF mem.ptest_flag = "done" THEN 1 ELSE 0) /\ mem.p_test = mem.made
    /\ OneAt({22})
    /\ \A t \in Thread :
          /\ pc[t] \in {21, 22, 24, End}
          /\ pc[t] = 22 => mem.ptest_flag = "running"
          /\ pc[t] \in {24, End} => mem.ptest_flag = "done"
          /\ Ended(t) => mem.used[t] = 1

\* The guard of a local static, which is its call_once().
SingletonInv ==
    /\ Thread = 1 .. 3 /\ DOMAIN mem = {"made", "single", "single_guard", "used"}
    /\ DOMAIN mem.used = Thread
    /\ mem.single_guard \in {"new", "running", "done"}
    /\ mem.made = (IF mem.single_guard = "done" THEN 1 ELSE 0) /\ mem.single = mem.made
    /\ OneAt({4})
    /\ \A t \in Thread :
          /\ pc[t] \in {3, 4, 5, 8, End}
          /\ pc[t] = 4 => mem.single_guard = "running"
          /\ pc[t] \in {5, 8, End} => mem.single_guard = "done"
          /\ pc[t] \in {8, End} => mem.used[t] = 1

\* Double-checked locking: who has looked twice makes the object.
DoubleCheckInv ==
    /\ Thread = 1 .. 3 /\ DOMAIN mem = {"made", "ptr", "used"}
    /\ DOMAIN mem.used = Thread
    /\ mem.made \in {0, 1} /\ mem.ptr = mem.made
    /\ \A t \in Thread :
          /\ pc[t] \in {15, 17, 19, 21, 24, End}
          /\ pc[t] = 21 => mem.ptr = 0
          /\ pc[t] \in {24, End} => mem.used[t] = 1

\* The same with an atomic pointer: who finds none twice, under the lock, makes it.
AtomicDoubleCheckedInv ==
    /\ Thread = 1 .. 3 /\ DOMAIN mem = {"made", "p_test", "used"}
    /\ DOMAIN mem.used = Thread
    /\ mem.made \in {0, 1} /\ mem.p_test = mem.made
    /\ \A t \in Thread :
          /\ pc[t] \in {18, 19, 21, 22, 24, 26, End}
          /\ pc[t] = 22 => mem.p_test = 0
          /\ pc[t] \in {24, 26, End} => mem.p_test = 1
          /\ Ended(t) => mem.used[t] = 1

\* The four objects are made in the order of the four ways.
LazyInv ==
    /\ Thread = 1 .. 2
    /\ DOMAIN mem = {"made", "pInstance", "testInitFlag", "instance", "instance_guard",
                     "pSmartInstance", "t1", "t2", "t3", "t4"}
    /\ \A local \in {mem.t1, mem.t2, mem.t3, mem.t4} : DOMAIN local = Thread
    /\ mem.made \in 0 .. 4
    /\ mem.testInitFlag \in {"new", "running", "done"}
    /\ mem.instance_guard \in {"new", "running", "done"}
    /\ mem.pInstance = (IF mem.made <= 2 THEN mem.made ELSE 2)
    /\ mem.instance = (IF mem.made <= 2 THEN 0 ELSE 3)
    /\ mem.pSmartInstance = (IF mem.made <= 3 THEN 0 ELSE 4)
    /\ mem.testInitFlag = "done" <=> mem.made >= 2
    /\ mem.instance_guard = "done" <=> mem.made >= 3
    /\ OneAt({58}) /\ OneAt({68})
    /\ \A t \in Thread :
          /\ pc[t] \in {46, 47, 48, 52, 57, 58, 60, 67, 68, 69, 85, 86, 87, 91, End}
          /\ pc[t] \notin {46, 47, 48} => mem.made >= 1
          /\ pc[t] = 58 => mem.testInitFlag = "running"
          /\ pc[t] \in {60, 67, 68, 69, 85, 86, 87, 91, End} => mem.made >= 2
          /\ pc[t] = 68 => mem.instance_guard = "running"
          /\ pc[t] \in {69, 85, 86, 87, 91, End} => mem.made >= 3
          /\ pc[t] \in {91, End} => mem.made = 4
          /\ pc[t] \notin {46, 47, 48, 52} => mem.t1[t] \in {1, 2}
          /\ pc[t] \in {67, 68, 69, 85, 86, 87, 91, End} => mem.t2[t] = 2
          /\ pc[t] \in {85, 86, 87, 91, End} => mem.t3[t] = 3
          /\ Ended(t) => mem.t4[t] = 4

\* What of each program says how many objects it has made so far.
OnceInv ==
    /\ program = "call_once" => CallOnceInv
    /\ program = "singleton" => SingletonInv
    /\ program = "double_check" => DoubleCheckInv
    /\ program = "atomic_double_checked" => AtomicDoubleCheckedInv
    /\ program = "lazy_initialization" => LazyInv

\* To make an object is to count it, to point to it and to set its flag.
LEMMA MadeOnce ==
  ASSUME NEW m, NEW pointer, NEW flag, {"made", pointer, flag} \subseteq DOMAIN m,
         pointer # "made", flag # "made", flag # pointer,
         NEW n, n = [Made(m, pointer) EXCEPT ![flag] = "done"]
  PROVE  /\ n.made = m.made + 1 /\ n[pointer] = m.made + 1 /\ n[flag] = "done"
         /\ DOMAIN n = DOMAIN m
         /\ \A x \in DOMAIN m \ {"made", pointer, flag} : n[x] = m[x]
BY DEF Made

LEMMA CallOnceKept ==
  ASSUME CallOnceInv, NEW t \in Thread, call_once_process(t)
  PROVE  CallOnceInv'
<1> USE DEF CallOnceInv, Step, Goto, At, Thread, Ended, End, OneAt
<1>1. CASE mem.ptest_flag = "done" /\ Step(t, 21, mem, 24)
  BY <1>1
<1>2. CASE mem.ptest_flag = "new" /\ Step(t, 21, [mem EXCEPT !.ptest_flag = "running"], 22)
  BY <1>2
<1>3. CASE Step(t, 22, [Made(mem, "p_test") EXCEPT !.ptest_flag = "done"], 24)
  <2>1. /\ mem'.p_test = 1 /\ mem'.made = 1 /\ mem'.ptest_flag = "done"
        /\ mem'.used = mem.used /\ DOMAIN mem' = DOMAIN mem
    BY <1>3 DEF Made
  <2> QED
    BY <1>3, <2>1
<1>4. CASE Step(t, 24, [mem EXCEPT !.used[t] = mem.p_test], End)
  BY <1>4
<1> QED
  BY <1>1, <1>2, <1>3, <1>4 DEF call_once_process, CallOnce, Await

LEMMA SingletonKept ==
  ASSUME SingletonInv, NEW t \in Thread, singleton_task(t)
  PROVE  SingletonInv'
<1> USE DEF SingletonInv, Step, Goto, At, Thread, Ended, End, OneAt
<1>1. CASE mem.single_guard = "done" /\ Step(t, 3, mem, 5)
  BY <1>1
<1>2. CASE mem.single_guard = "new" /\ Step(t, 3, [mem EXCEPT !.single_guard = "running"], 4)
  BY <1>2
<1>3. CASE Step(t, 4, [Made(mem, "single") EXCEPT !.single_guard = "done"], 5)
  <2>1. /\ mem'.single = 1 /\ mem'.made = 1 /\ mem'.single_guard = "done"
        /\ mem'.used = mem.used /\ DOMAIN mem' = DOMAIN mem
    BY <1>3 DEF Made
  <2> QED
    BY <1>3, <2>1
<1>4. CASE Step(t, 5, [mem EXCEPT !.used[t] = mem.single], 8)
  BY <1>4
<1>5. CASE Step(t, 8, mem, End)
  BY <1>5
<1> QED
  BY <1>1, <1>2, <1>3, <1>4, <1>5 DEF singleton_task, get_singleton, CallOnce, Await

LEMMA DoubleCheckKept ==
  ASSUME LockInv, program = "double_check", DoubleCheckInv,
         NEW t \in Thread, double_check_process(t)
  PROVE  DoubleCheckInv'
<1>1. OneAt({19, 21, 24})
  BY DEF LockInv, LocksHeld, Holds, OneAt
<1> USE DEF DoubleCheckInv, Goto, At, Thread, Ended, End, nullptr
<1>2. CASE Step(t, 15, [mem EXCEPT !.used[t] = mem.ptr], IF mem.ptr = nullptr THEN 17 ELSE End)
  BY <1>2 DEF Step
<1>3. CASE Lock(t, 17, "process_mutex", 19)
  BY <1>3 DEF Lock, LockAll
<1>4. CASE Step(t, 19, [mem EXCEPT !.used[t] = mem.ptr], IF mem.ptr = nullptr THEN 21 ELSE 24)
  BY <1>4 DEF Step
<1>5. CASE Step(t, 21, [Made(mem, "ptr") EXCEPT !.used[t] = Made(mem, "ptr").ptr], 24)
  <2>1. /\ mem'.ptr = 1 /\ mem'.made = 1 /\ mem'.used = [mem.used EXCEPT ![t] = 1]
        /\ DOMAIN mem' = DOMAIN mem
    BY <1>5 DEF Made, Step
  <2> QED
    BY <1>1, <1>5, <2>1 DEF Step, OneAt
<1>6. CASE Unlock(t, 24, {"process_mutex"}, mem, End)
  BY <1>6 DEF Unlock
<1> QED
  BY <1>2, <1>3, <1>4, <1>5, <1>6 DEF double_check_process

LEMMA AtomicDoubleCheckedKept ==
  ASSUME LockInv, program = "atomic_double_checked", AtomicDoubleCheckedInv,
         NEW t \in Thread, atomic_process(t)
  PROVE  AtomicDoubleCheckedInv'
<1>1. OneAt({21, 22, 24})
  BY DEF LockInv, LocksHeld, Holds, OneAt
<1> USE DEF AtomicDoubleCheckedInv, Goto, At, Thread, Ended, End, nullptr
<1>2. CASE Test(t, 18, mem.p_test = nullptr, 19, 26)
  BY <1>2 DEF Test, Step
<1>3. CASE Lock(t, 19, "mut", 21)
  BY <1>3 DEF Lock, LockAll
<1>4. CASE Test(t, 21, mem.p_test = nullptr, 22, 24)
  BY <1>4 DEF Test, Step
<1>5. CASE Step(t, 22, Made(mem, "p_test"), 24)
  <2>1. /\ mem'.p_test = 1 /\ mem'.made = 1 /\ mem'.used = mem.used
        /\ DOMAIN mem' = DOMAIN mem
    BY <1>5 DEF Made, Step
  <2> QED
    BY <1>1, <1>5, <2>1 DEF Step, OneAt
<1>6. CASE Unlock(t, 24, {"mut"}, mem, 26)
  BY <1>6 DEF Unlock
<1>7. CASE Step(t, 26, [mem EXCEPT !.used[t] = mem.p_test], End)
  BY <1>7 DEF Step
<1> QED
  BY <1>2, <1>3, <1>4, <1>5, <1>6, <1>7 DEF atomic_process

LEMMA LazyKept ==
  ASSUME LazyInv, NEW t \in Thread, worker(t)
  PROVE  LazyInv'
<1> USE DEF LazyInv, Goto, At, Thread, Ended, End, OneAt, nullptr
<1>1. CASE getTestInstance_DCLP(t, 57)
  <2>1. CASE Test(t, 46, mem.pInstance = nullptr, 47, 52)
    BY <2>1 DEF Test, Step
  <2>2. CASE Lock(t, 47, "instanceMutex", 48)
    BY <2>2 DEF Lock, LockAll
  <2>3. CASE mem.pInstance # nullptr /\ Unlock(t, 48, {"instanceMutex"}, mem, 52)
    BY <2>3 DEF Unlock
  <2>4. CASE /\ mem.pInstance = nullptr
             /\ Unlock(t, 48, {"instanceMutex"}, Made(mem, "pInstance"), 52)
    <3>1. /\ mem'.made = 1 /\ mem'.pInstance = 1 /\ DOMAIN mem' = DOMAIN mem
          /\ \A x \in DOMAIN mem \ {"made", "pInstance"} : mem'[x] = mem[x]
      BY <2>4 DEF Made, Unlock
    <3> QED
      BY <2>4, <3>1 DEF Unlock
  <2>5. CASE Step(t, 52, [mem EXCEPT !.t1[t] = mem.pInstance], 57)
    BY <2>5 DEF Step
  <2> QED
    BY <1>1, <2>1, <2>2, <2>3, <2>4, <2>5 DEF getTestInstance_DCLP
<1>2. CASE getTestInstance_CallOnce(t, 67)
  <2>1. CASE mem.testInitFlag = "done" /\ Step(t, 57, mem, 60)
    BY <2>1 DEF Step
  <2>2. CASE /\ mem.testInitFlag = "new"
             /\ Step(t, 57, [mem EXCEPT !.testInitFlag = "running"], 58)
    BY <2>2 DEF Step
  <2>3. CASE Step(t, 58, [Made(mem, "pInstance") EXCEPT !.testInitFlag = "done"], 60)
    <3>1. mem.made = 1
      BY <2>3 DEF Step
    <3>2. /\ mem'.made = 2 /\ mem'.pInstance = 2 /\ mem'.testInitFlag = "done"
          /\ DOMAIN mem' = DOMAIN mem
          /\ \A x \in DOMAIN mem \ {"made", "pInstance", "testInitFlag"} : mem'[x] = mem[x]
      BY <2>3, <3>1, MadeOnce DEF Step
    <3> QED
      BY <2>3, <3>2 DEF Step
  <2>4. CASE Step(t, 60, [mem EXCEPT !.t2[t] = mem.pInstance], 67)
    BY <2>4 DEF Step
  <2> QED
    BY <1>2, <2>1, <2>2, <2>3, <2>4 DEF getTestInstance_CallOnce, CallOnce, Await
<1>3. CASE getInstance(t, 85)
  <2>1. CASE mem.instance_guard = "done" /\ Step(t, 67, mem, 69)
    BY <2>1 DEF Step
  <2>2. CASE /\ mem.instance_guard = "new"
             /\ Step(t, 67, [mem EXCEPT !.instance_guard = "running"], 68)
    BY <2>2 DEF Step
  <2>3. CASE Step(t, 68, [Made(mem, "instance") EXCEPT !.instance_guard = "done"], 69)
    <3>1. mem.made = 2
      BY <2>3 DEF Step
    <3>2. /\ mem'.made = 3 /\ mem'.instance = 3 /\ mem'.instance_guard = "done"
          /\ DOMAIN mem' = DOMAIN mem
          /\ \A x \in DOMAIN mem \ {"made", "instance", "instance_guard"} : mem'[x] = mem[x]
      BY <2>3, <3>1, MadeOnce DEF Step
    <3> QED
      BY <2>3, <3>2 DEF Step
  <2>4. CASE Step(t, 69, [mem EXCEPT !.t3[t] = mem.instance], 85)
    BY <2>4 DEF Step
  <2> QED
    BY <1>3, <2>1, <2>2, <2>3, <2>4 DEF getInstance, CallOnce, Await
<1>4. CASE getTestInstance_Smart(t, End)
  <2>1. CASE Test(t, 85, mem.pSmartInstance = nullptr, 86, 91)
    BY <2>1 DEF Test, Step
  <2>2. CASE Lock(t, 86, "smartMutex", 87)
    BY <2>2 DEF Lock, LockAll
  <2>3. CASE mem.pSmartInstance # nullptr /\ Unlock(t, 87, {"smartMutex"}, mem, 91)
    BY <2>3 DEF Unlock
  <2>4. CASE /\ mem.pSmartInstance = nullptr
             /\ Unlock(t, 87, {"smartMutex"}, Made(mem, "pSmartInstance"), 91)
    <3>1. /\ mem'.made = 4 /\ mem'.pSmartInstance = 4 /\ DOMAIN mem' = DOMAIN mem
          /\ \A x \in DOMAIN mem \ {"made", "pSmartInstance"} : mem'[x] = mem[x]
      BY <2>4 DEF Made, Unlock
    <3> QED
      BY <2>4, <3>1 DEF Unlock
  <2>5. CASE Step(t, 91, [mem EXCEPT !.t4[t] = mem.pSmartInstance], End)
    BY <2>5 DEF Step
  <2> QED
    BY <1>4, <2>1, <2>2, <2>3, <2>4, <2>5 DEF getTestInstance_Smart
<1> QED
  BY <1>1, <1>2, <1>3, <1>4 DEF worker

LEMMA OnceStart == Init => OnceInv
<1> SUFFICES ASSUME Init PROVE OnceInv
  OBVIOUS
<1> USE DEF Boot, Main, Thread, Ended, End, OneAt
<1>1. ASSUME program = "call_once" PROVE CallOnceInv
  <2>1. /\ pc = <<21, 21>>
        /\ mem = [made |-> 0, p_test |-> nullptr, ptest_flag |-> "new", used |-> <<0, 0>>]
    BY <1>1, StartOf DEF CallOnceMain
  <2> QED
    BY <2>1 DEF CallOnceInv, nullptr
<1>2. ASSUME program = "singleton" PROVE SingletonInv
  <2>1. /\ pc = <<3, 3, 3>>
        /\ mem = [made |-> 0, single |-> nullptr, single_guard |-> "new", used |-> <<0, 0, 0>>]
    BY <1>2, StartOf DEF SingletonMain
  <2> QED
    BY <2>1 DEF SingletonInv, nullptr
<1>3. ASSUME program = "double_check" PROVE DoubleCheckInv
  <2>1. pc = <<15, 15, 15>> /\ mem = [made |-> 0, ptr |-> nullptr, used |-> <<0, 0, 0>>]
    BY <1>3, StartOf DEF DoubleCheck
  <2> QED
    BY <2>1 DEF DoubleCheckInv, nullptr
<1>4. ASSUME program = "atomic_double_checked" PROVE AtomicDoubleCheckedInv
  <2>1. pc = <<18, 18, 18>> /\ mem = [made |-> 0, p_test |-> nullptr, used |-> <<0, 0, 0>>]
    BY <1>4, StartOf DEF AtomicDoubleChecked
  <2> QED
    BY <2>1 DEF AtomicDoubleCheckedInv, nullptr
<1>5. ASSUME program = "lazy_initialization" PROVE LazyInv
  <2>1. /\ pc = <<46, 46>>
        /\ mem = [made |-> 0, pInstance |-> nullptr, testInitFlag |-> "new",
                  instance |-> nullptr, instance_guard |-> "new", pSmartInstance |-> nullptr,
                  t1 |-> <<0, 0>>, t2 |-> <<0, 0>>, t3 |-> <<0, 0>>, t4 |-> <<0, 0>>]
    BY <1>5, StartOf DEF LazyInitialization
  <2> QED
    BY <2>1 DEF LazyInv, nullptr
<1> QED
  BY <1>1, <1>2, <1>3, <1>4, <1>5 DEF OnceInv

LEMMA OnceNext == LockInv /\ OnceInv /\ [Next]_vars => OnceInv'
<1> SUFFICES ASSUME LockInv, OnceInv, [Next]_vars PROVE OnceInv'
  OBVIOUS
<1>1. program' = program
  BY LockNext
<1>2. CASE UNCHANGED <<pc, owner, mem>>
  BY <1>1, <1>2 DEF OnceInv, CallOnceInv, SingletonInv, DoubleCheckInv, AtomicDoubleCheckedInv,
     LazyInv, OneAt, Thread, Ended
<1>3. CASE \E t \in Thread : ThreadStep(t)
  <2> PICK t \in Thread : ThreadStep(t)
    BY <1>3
  <2>1. program = "call_once" => CallOnceInv'
    BY StepOf, CallOnceKept DEF OnceInv
  <2>2. program = "singleton" => SingletonInv'
    BY StepOf, SingletonKept DEF OnceInv
  <2>3. program = "double_check" => DoubleCheckInv'
    BY StepOf, DoubleCheckKept DEF OnceInv
  <2>4. program = "atomic_double_checked" => AtomicDoubleCheckedInv'
    BY StepOf, AtomicDoubleCheckedKept DEF OnceInv
  <2>5. program = "lazy_initialization" => LazyInv'
    BY StepOf, LazyKept DEF OnceInv
  <2> QED
    BY <1>1, <2>1, <2>2, <2>3, <2>4, <2>5 DEF OnceInv
<1> QED
  BY <1>2, <1>3 DEF Next, SpuriousWakeup, vars, machineVars

\* However many threads find no instance, one is made and each of them gets it
\* (call_once, the static of the singleton, both forms of double-checked locking), and
\* the four ways of Lazy Initialization/source.cpp make one object each.
THEOREM OneIsMade == Spec => []OneInstance
<1>1. OnceInv => OneInstance
  <2> SUFFICES ASSUME OnceInv PROVE OneInstance
    OBVIOUS
  <2>1. program \in {"call_once", "singleton", "double_check", "atomic_double_checked"} =>
          mem.made <= 1 /\ \A t \in Thread : Ended(t) => mem.used[t] = 1
    BY DEF OnceInv, CallOnceInv, SingletonInv, DoubleCheckInv, AtomicDoubleCheckedInv, Ended
  <2>2. ASSUME program = "lazy_initialization"
        PROVE  /\ mem.made <= 4
               /\ \A t, u \in Thread : Ended(t) /\ Ended(u) =>
                /\ mem.t2[t] = mem.t2[u] /\ mem.t3[t] = mem.t3[u] /\ mem.t4[t] = mem.t4[u]
                /\ mem.t1[t] \in {1, mem.t2[t]}
                /\ Cardinality({nullptr, mem.t2[t], mem.t3[t], mem.t4[t]}) = 4
    <3>1. Cardinality({0, 2, 3, 4}) = 4
      <4>1. IsFiniteSet({}) /\ Cardinality({}) = 0
        BY FS_EmptySet
      <4>2. IsFiniteSet({} \cup {0}) /\ Cardinality({} \cup {0}) = 1
        BY <4>1, FS_AddElement
      <4>3. IsFiniteSet({} \cup {0} \cup {2}) /\ Cardinality({} \cup {0} \cup {2}) = 2
        BY <4>2, FS_AddElement
      <4>4. /\ IsFiniteSet({} \cup {0} \cup {2} \cup {3})
            /\ Cardinality({} \cup {0} \cup {2} \cup {3}) = 3
        BY <4>3, FS_AddElement
      <4>5. Cardinality({} \cup {0} \cup {2} \cup {3} \cup {4}) = 4
        BY <4>4, FS_AddElement
      <4>6. {} \cup {0} \cup {2} \cup {3} \cup {4} = {0, 2, 3, 4}
        OBVIOUS
      <4> QED
        BY <4>5, <4>6
    <3>2. LazyInv
      BY <2>2 DEF OnceInv
    <3>3. ASSUME NEW t \in Thread, Ended(t)
          PROVE  mem.t1[t] \in {1, 2} /\ mem.t2[t] = 2 /\ mem.t3[t] = 3 /\ mem.t4[t] = 4
      BY <3>2, <3>3 DEF LazyInv, Ended, End
    <3> QED
      BY <3>1, <3>2, <3>3 DEF LazyInv, nullptr
  <2> QED
    BY <2>1, <2>2 DEF OneInstance
<1> QED
  BY <1>1, LocksInvariant, LockStart, LockNext, OnceStart, OnceNext, PTL DEF Spec

-----------------------------------------------------------------------------
\* Order

\* What scheduler_main destroys before the threads that use it.
Results == {"resultMutex_", "completed_", "checksum_"}

\* The scheduler's main() destroys the queue when the others are joined.
LateInv ==
    /\ Thread = 1 .. 5
    /\ DOMAIN mem = {"queue_", "job", "id", "completed_", "checksum_", "stop", "gone", "late"}
    /\ pc[1] \in {158, 153, 1153, 152, 1152, 151, 1151, 2151, 3151, 149, End}
    /\ pc[2] \in {93, 21, 24, End}
    /\ pc[3] \in {135, 139, 142, 143, End}
    /\ \A t \in {4, 5} : pc[t] \in {28, 30, 34, 121, 122, End}
    /\ pc[1] \notin {158, 153, 1153} => Ended(3)
    /\ pc[1] \notin {158, 153, 1153, 152, 1152} => Ended(2)
    /\ pc[1] \in {2151, 3151, 149, End} => Ended(4)
    /\ pc[1] \in {149, End} => Ended(5)
    /\ ~Ended(1) => mem.gone \subseteq Results
    /\ mem.late \subseteq Results

\* Four agents at a barrier: those who wait for this phase are counted, and the
\* others have done as many supersteps as there were phases, or will.
Waits(t) == IF pc[t] = 34 /\ mem.token[t] = mem.phase THEN 1 ELSE 0
BarrierInv ==
    /\ Thread = 1 .. 4
    /\ DOMAIN mem = {"global_superstep", "arrived", "phase", "token", "superstep"}
    /\ mem.phase \in Nat /\ mem.token \in [Thread -> Int] /\ mem.superstep \in [Thread -> Int]
    /\ mem.arrived = Waits(1) + Waits(2) + Waits(3) + Waits(4)
    /\ \A t \in Thread :
          /\ pc[t] \in {27, 33, 34, End}
          /\ pc[t] # 34 => mem.superstep[t] = mem.phase
          /\ pc[t] = 34 => /\ mem.superstep[t] = mem.token[t]
                           /\ mem.token[t] \in {mem.phase - 1, mem.phase}

\* The announcement of the one whose turn it is comes before the turn of the next.
TurnInv ==
    /\ Thread = 1 .. 4 /\ DOMAIN mem = {"next_thread_to_execute", "announced"}
    /\ mem.announced \in Seq(Nat) /\ mem.next_thread_to_execute \in Nat
    /\ \A k \in 1 .. Len(mem.announced) : mem.announced[k] = k
    /\ Len(mem.announced) = (IF \E u \in Thread : pc[u] = 64
                             THEN mem.next_thread_to_execute
                             ELSE mem.next_thread_to_execute - 1)
    /\ \A t \in Thread : /\ pc[t] \in {73, 44, 47, 50, 64, 66, End}
                         /\ pc[t] \in {50, 64} => mem.next_thread_to_execute = t

\* Who has come through the wait has found the condition, set with the data.
PredicateInv ==
    /\ Thread = 1 .. 4
    /\ DOMAIN mem = {"s_data", "condition", "seen"} /\ DOMAIN mem.seen = Thread
    /\ mem.condition => mem.s_data = "modified"
    /\ pc[1] \in {32, 38, 46, End}
    /\ \A t \in 2 .. 4 : /\ pc[t] \in {18, 22, 25, End}
                         /\ pc[t] = 25 => mem.condition
                         /\ Ended(t) => mem.seen[t] = "modified"

\* The counter never falls, so that who has found the threshold leaves with it.
ThresholdInv ==
    /\ Thread = 1 .. 3 /\ DOMAIN mem = {"value_", "i"} /\ mem.value_ \in Nat
    /\ pc[1] \in {48, 49, 50, End}
    /\ \A t \in 2 .. 3 : pc[t] \in {147, 14, 15, 17, 18, 20, End}
    /\ pc[1] \in {50, End} => mem.value_ >= threshold_

\* The configurations made are the first of three, and the reader has a pointer to
\* one that was made.
Configs == << [level |-> 0, mode |-> "init"], [level |-> 1, mode |-> "alpha"],
              [level |-> 2, mode |-> "beta"] >>
Modes == {<<0, "init">>, <<1, "alpha">>, <<2, "beta">>}
\* What has been read of the configurations before the c-th is whole, or a level only.
GoodSeen(seen, c) ==
    /\ seen \in Seq((0 .. 2) \X {"init", "alpha", "beta", "?"})
    /\ \A k \in 1 .. Len(seen) :
          /\ seen[k][1] <= c - 1
          /\ seen[k] \in Modes \/ seen[k] = <<seen[k][1], "?">>
          /\ k > 1 => seen[k - 1][1] <= seen[k][1]

\* The configurations that update() has made so far.
Written(cfgs) ==
    /\ cfgs \in Seq([level : Nat, mode : {"init", "alpha", "beta"}]) /\ Len(cfgs) \in 1 .. 3
    /\ \A k \in 1 .. Len(cfgs) : cfgs[k] = Configs[k]

ConfigInv ==
    /\ Thread = 1 .. 2 /\ DOMAIN mem = {"cfgs", "cfg", "c", "seen"}
    /\ pc[1] \in {36, 37, 38, 39, End} /\ pc[2] \in {46, 146, 48, 148, End}
    /\ Written(mem.cfgs)
    /\ Len(mem.cfgs) = (IF pc[2] = 46 THEN 1 ELSE IF pc[2] \in {146, 48} THEN 2 ELSE 3)
    /\ mem.cfg = (IF pc[2] \in {46, 146} THEN 1 ELSE IF pc[2] \in {48, 148} THEN 2 ELSE 3)
    /\ mem.c \in 1 .. mem.cfg
    /\ GoodSeen(mem.seen, mem.c)
    /\ pc[1] = 39 => Len(mem.seen) > 0 /\ mem.seen[Len(mem.seen)] = <<mem.c - 1, "?">>

\* What of each program its order rests on.
OrderInv ==
    /\ program = "coordination" => TurnInv
    /\ program = "barrier" => BarrierInv
    /\ program = "config_manager" => ConfigInv
    /\ program = "predicate_coordination" => PredicateInv
    /\ program = "counter" => ThresholdInv
    /\ program = "jthread_1" => LateInv

LEMMA FourThreads == Cardinality(1 .. 4) = 4
<1>1. \A a, b \in Int : a <= b => Cardinality(a .. b) = b - a + 1
  BY FS_Interval
<1>2. ASSUME NEW m, NEW n, m = 1, n = 4 PROVE Cardinality(m .. n) = 4
  <2>1. m \in Int /\ n \in Int /\ m <= n /\ n - m + 1 = 4
    BY <1>2
  <2>2. Cardinality(m .. n) = n - m + 1
    BY <1>1, <2>1, Zenon
  <2> QED
    BY <2>1, <2>2, Zenon
<1> QED
  BY <1>2, Zenon

LEMMA BarrierKept ==
  ASSUME BarrierInv, NEW t \in Thread, agent_routine(t)
  PROVE  BarrierInv'
<1> USE DEF BarrierInv, Goto, At, Thread, Ended, End
<1>1. Cardinality(Thread) = 4
  BY FourThreads
<1>2. CASE Test(t, 27, mem.superstep[t] < Rounds, 33, End)
  BY <1>2 DEF Test, Step, Waits
<1>3. CASE /\ mem.arrived = 3
           /\ Step(t, 33, on_completion([mem EXCEPT !.arrived = 0, !.phase = @ + 1,
                                                    !.superstep[t] = @ + 1]), 27)
  <2>1. pc[t] = 33 /\ \A u \in Thread \ {t} : pc[u] = 34 /\ mem.token[u] = mem.phase
    BY <1>3 DEF Step, Waits
  <2>2. /\ DOMAIN mem' = DOMAIN mem /\ mem'.arrived = 0 /\ mem'.phase = mem.phase + 1
        /\ mem'.token = mem.token /\ mem'.superstep = [mem.superstep EXCEPT ![t] = @ + 1]
    BY <1>3 DEF Step, on_completion
  <2>3. pc' = [pc EXCEPT ![t] = 27]
    BY <1>3 DEF Step
  <2>4. \A u \in Thread : Waits(u)' = 0
    BY <2>1, <2>2, <2>3 DEF Waits
  <2>5. mem'.arrived = Waits(1)' + Waits(2)' + Waits(3)' + Waits(4)'
    BY <2>2, <2>4
  <2> QED
    BY <2>1, <2>2, <2>3, <2>5
<1>4. CASE /\ mem.arrived # 3
           /\ Step(t, 33, [mem EXCEPT !.arrived = @ + 1, !.token[t] = mem.phase], 34)
  <2>1. pc[t] = 33 /\ pc' = [pc EXCEPT ![t] = 34]
    BY <1>4 DEF Step
  <2>2. /\ DOMAIN mem' = DOMAIN mem /\ mem'.arrived = mem.arrived + 1 /\ mem'.phase = mem.phase
        /\ mem'.token = [mem.token EXCEPT ![t] = mem.phase] /\ mem'.superstep = mem.superstep
    BY <1>4 DEF Step
  <2>3. Waits(t) = 0 /\ Waits(t)' = 1 /\ \A u \in Thread \ {t} : Waits(u)' = Waits(u)
    BY <2>1, <2>2 DEF Waits
  <2>4. mem'.arrived = Waits(1)' + Waits(2)' + Waits(3)' + Waits(4)'
    BY <2>2, <2>3 DEF Waits
  <2> QED
    BY <2>1, <2>2, <2>4
<1>5. CASE Await(t, 34, mem.phase # mem.token[t], [mem EXCEPT !.superstep[t] = @ + 1], 27)
  BY <1>5 DEF Await, Step, Waits
<1> QED
  BY <1>1, <1>2, <1>3, <1>4, <1>5 DEF agent_routine, arrive_and_wait

LEMMA PredicateKept ==
  ASSUME PredicateInv, NEW t \in Thread, predicate_reader(t) \/ predicate_writer(t)
  PROVE  PredicateInv'
<1> USE DEF PredicateInv, Goto, At, Thread, Ended, End
<1>1. CASE \/ Lock(t, 18, "mut", 22) \/ Lock(t, 32, "mut", 38) \/ Lock(t, 22, "mut", 22)
  BY <1>1 DEF Lock, LockAll
<1>2. CASE SleepOn(t, 22, "cond_var", "mut", 22)
  BY <1>2 DEF SleepOn
<1>3. CASE mem.condition /\ Step(t, 22, mem, 25)
  BY <1>3 DEF Step
<1>4. CASE Unlock(t, 25, {"mut"}, [mem EXCEPT !.seen[t] = mem.s_data], End)
  BY <1>4 DEF Unlock
<1>5. CASE Unlock(t, 38, {"mut"}, [mem EXCEPT !.s_data = "modified", !.condition = TRUE], 46)
  BY <1>5 DEF Unlock
<1>6. CASE NotifyAll(t, 46, "cond_var", mem, End)
  BY <1>6 DEF NotifyAll, Wake
<1> QED
  BY <1>1, <1>2, <1>3, <1>4, <1>5, <1>6 DEF predicate_reader, predicate_writer, WaitUntil, Await

LEMMA ThresholdKept ==
  ASSUME ThresholdInv, NEW t \in Thread, CounterThreads(t)
  PROVE  ThresholdInv'
<1> USE DEF ThresholdInv, Goto, At, Thread, Ended, End
<1>0. threshold_ \in Nat
  BY RoundsAssumption DEF threshold_
<1>1. CASE \E from, m, to : /\ Lock(t, from, m, to)
                            /\ <<from, to>> \in {<<48, 49>>, <<49, 49>>, <<14, 15>>}
  BY <1>1 DEF Lock, LockAll
<1>2. CASE SleepOn(t, 49, "cond_", "mtx_", 49)
  BY <1>2 DEF SleepOn
<1>3. CASE mem.value_ >= threshold_ /\ Step(t, 49, mem, 50)
  BY <1>3 DEF Step
<1>4. CASE Unlock(t, 50, {"mtx_"}, mem, End) \/ Unlock(t, 20, {"mtx_"}, mem, 147)
  BY <1>4 DEF Unlock
<1>5. CASE Step(t, 15, [mem EXCEPT !.value_ = @ + 1], 17)
  BY <1>0, <1>5 DEF Step
<1>6. CASE Test(t, 17, mem.value_ >= threshold_, 18, 20)
  BY <1>6 DEF Test, Step
<1>7. CASE NotifyAll(t, 18, "cond_", mem, 20)
  BY <1>7 DEF NotifyAll, Wake
<1>8. CASE Step(t, 147, [mem EXCEPT !.i[t] = @ + 1], IF mem.i[t] < Rounds THEN 14 ELSE End)
  BY <1>8 DEF Step
<1> QED
  BY <1>1, <1>2, <1>3, <1>4, <1>5, <1>6, <1>7, <1>8
     DEF CounterThreads, wait_for_threshold, wait, increment, WaitUntil, Await

LEMMA TurnKept ==
  ASSUME LockInv, program = "coordination", TurnInv,
         NEW t \in Thread, restaurant_announcement(t)
  PROVE  TurnInv'
<1>1. OneAt({50, 64, 66})
  BY DEF LockInv, LocksHeld, Holds, OneAt
<1> USE DEF TurnInv, Goto, At, Thread, Ended, End
<1>2. CASE Step(t, 73, mem, 44)
  BY <1>2 DEF Step
<1>3. CASE Lock(t, 44, "coordination_mutex", 47)
  BY <1>3 DEF Lock, LockAll
<1>9. CASE Lock(t, 47, "coordination_mutex", 47)
  BY <1>9 DEF Lock, LockAll
<1>4. CASE SleepOn(t, 47, "turn_signal", "coordination_mutex", 47)
  BY <1>4 DEF SleepOn
<1>5. CASE mem.next_thread_to_execute = t /\ Step(t, 47, mem, 50)
  BY <1>5 DEF Step
<1>6. CASE Step(t, 50, [mem EXCEPT !.announced = Append(@, t)], 64)
  <2>1. /\ pc[t] = 50 /\ pc' = [pc EXCEPT ![t] = 64] /\ \A u \in Thread : pc[u] # 64
    BY <1>1, <1>6 DEF Step, OneAt
  <2>2. /\ mem.announced \in Seq(Nat) /\ t \in Nat /\ Len(mem.announced) = t - 1
        /\ \A k \in 1 .. t - 1 : mem.announced[k] = k
    BY <2>1
  <2>3. /\ DOMAIN mem' = DOMAIN mem /\ mem'.announced = Append(mem.announced, t)
        /\ mem'.next_thread_to_execute = mem.next_thread_to_execute
    BY <1>6 DEF Step
  <2>4. /\ mem'.announced \in Seq(Nat) /\ Len(mem'.announced) = t
        /\ \A k \in 1 .. t : mem'.announced[k] = k
    <3> HIDE DEF TurnInv
    <3> QED
      BY <2>2, <2>3
  <2>5. /\ mem'.next_thread_to_execute = t /\ pc'[t] = 64
        /\ mem'.next_thread_to_execute \in Nat
    BY <2>1, <2>3
  <2>6. \A u \in Thread : /\ pc'[u] \in {73, 44, 47, 50, 64, 66, End}
                          /\ pc'[u] \in {50, 64} => u = t
    <3>1. \A u \in Thread : /\ pc[u] \in {73, 44, 47, 50, 64, 66, End}
                            /\ pc[u] \in {50, 64} => u = t
      BY <1>1, <2>1 DEF OneAt
    <3>2. pc'[t] = 64 /\ \A u \in Thread : u # t => pc'[u] = pc[u]
      BY <2>1
    <3> QED
      BY <3>1, <3>2
  <2>7. Thread' = 1 .. 4 /\ DOMAIN mem' = {"next_thread_to_execute", "announced"}
    BY <2>1, <2>3
  <2> QED
    BY <2>4, <2>5, <2>6, <2>7
<1>7. CASE NotifyAll(t, 64, "turn_signal", [mem EXCEPT !.next_thread_to_execute = @ + 1], 66)
  <2>1. /\ pc[t] = 64 /\ pc' = [pc EXCEPT ![t] = 66]
        /\ \A u \in Thread \ {t} : pc[u] \notin {50, 64}
    BY <1>1, <1>7 DEF NotifyAll, Wake, OneAt
  <2>2. Len(mem.announced) = t /\ mem.next_thread_to_execute = t
    BY <2>1
  <2>3. /\ DOMAIN mem' = DOMAIN mem /\ mem'.announced = mem.announced
        /\ mem'.next_thread_to_execute = t + 1
    BY <1>7, <2>2 DEF NotifyAll, Wake
  <2>4. \A u \in Thread : pc'[u] \in {73, 44, 47, 66, End}
    BY <2>1
  <2>5. /\ mem'.announced \in Seq(Nat) /\ Len(mem'.announced) = mem'.next_thread_to_execute - 1
        /\ mem'.next_thread_to_execute \in Nat
        /\ \A k \in 1 .. Len(mem'.announced) : mem'.announced[k] = k
    BY <2>2, <2>3
  <2>6. Thread' = 1 .. 4 /\ DOMAIN mem' = {"next_thread_to_execute", "announced"}
    BY <2>1, <2>3
  <2>7. \A u \in Thread' : pc'[u] \in {73, 44, 47, 66, End}
    BY <2>4, <2>6
  <2>8. ~\E u \in Thread' : pc'[u] = 64
    BY <2>7
  <2>9. \A u \in Thread' : /\ pc'[u] \in {73, 44, 47, 50, 64, 66, End}
                           /\ pc'[u] \in {50, 64} => mem'.next_thread_to_execute = u
    BY <2>7
  <2> HIDE DEF Thread, At, Goto, End, Ended
  <2> QED
    BY <2>5, <2>6, <2>8, <2>9
<1>8. CASE Unlock(t, 66, {"coordination_mutex"}, mem, End)
  BY <1>8 DEF Unlock
<1> QED
  BY <1>2, <1>3, <1>4, <1>5, <1>6, <1>7, <1>8, <1>9
     DEF restaurant_announcement, ordered_print, WaitUntil, Await

LEMMA LateKept ==
  ASSUME LateInv, NEW t \in Thread,
         producerLoop(t) \/ workerLoop(t) \/ monitorLoop(t) \/ scheduler_main(t)
  PROVE  LateInv'
<1> USE DEF LateInv, Results, Goto, At, Thread, Ended, End
<1>1. CASE producerLoop(t)
  <2>1. CASE Step(t, 93, mem, End)
    BY <2>1 DEF Step
  <2>2. CASE Step(t, 93, [mem EXCEPT !.id = @ + 1], 21)
    BY <2>2 DEF Step
  <2>3. CASE Step(t, 21, [Used(mem, {"queue_"}) EXCEPT !.queue_ = Append(@, mem.id)], 24)
    BY <2>3 DEF Step, Used
  <2>4. CASE NotifyOne(t, 24, "cv_", Used(mem, {"queue_"}), 93)
    <3>1. At(t, 24) /\ Goto(t, 93) /\ mem' = Used(mem, {"queue_"})
      BY <2>4 DEF NotifyOne, Wake, Step
    <3> QED
      BY <3>1 DEF Used
  <2> QED
    BY <1>1, <2>1, <2>2, <2>3, <2>4 DEF producerLoop, push_job, Guarded
<1>2. CASE workerLoop(t)
  <2>1. CASE \/ Lock(t, 28, "mutex_", 30) \/ Lock(t, 30, "mutex_", 30)
             \/ Lock(t, 121, "resultMutex_", 122)
    BY <2>1 DEF Lock, LockAll
  <2>2. CASE SleepOn(t, 30, "cv_", "mutex_", 30)
    BY <2>2 DEF SleepOn
  <2>3. CASE Step(t, 30, mem, 34)
    BY <2>3 DEF Step
  <2>4. CASE Unlock(t, 34, {"mutex_"}, Used(mem, {"queue_"}), End)
    BY <2>4 DEF Unlock, Used
  <2>5. CASE Unlock(t, 34, {"mutex_"},
                    [Used(mem, {"queue_"}) EXCEPT
                        !.queue_ = Tail(@), !.job[t] = Head(mem.queue_)], 121)
    BY <2>5 DEF Unlock, Used
  <2>6. CASE Unlock(t, 122, {"resultMutex_"},
              [Used(mem, {"resultMutex_", "completed_", "checksum_"}) EXCEPT
                  !.completed_ = @ + 1, !.checksum_ = Xor(@, {mem.job[t]})], 28)
    BY <2>6 DEF Unlock, Used
  <2> HIDE DEF LateInv, Results, Goto, At, Thread, Ended, End
  <2> QED
    BY <1>2, <2>1, <2>2, <2>3, <2>4, <2>5, <2>6 DEF workerLoop, pop_job, WaitUntil, Await
<1>3. CASE monitorLoop(t)
  <2>1. CASE Test(t, 135, stop_requested(t), End, 139)
    BY <2>1 DEF Test, Step
  <2>2. CASE Lock(t, 139, "resultMutex_", 142)
    BY <2>2 DEF Lock, LockAll
  <2>3. CASE Step(t, 142, Used(mem, {"queue_"}), 143)
    BY <2>3 DEF Step, Used
  <2>4. CASE Unlock(t, 143, {"resultMutex_"},
                    Used(mem, {"resultMutex_", "completed_", "checksum_"}), 135)
    BY <2>4 DEF Unlock, Used
  <2> QED
    BY <1>3, <2>1, <2>2, <2>3, <2>4 DEF monitorLoop, Guarded
<1>4. CASE scheduler_main(t)
  <2>1. CASE Step(t, 158,
                  [mem EXCEPT !.gone = {"completed_", "checksum_", "resultMutex_"}], 153)
    BY <2>1 DEF Step
  <2>2. CASE RequestStop(t, 153, 3, 1153) \/ RequestStop(t, 152, 2, 1152)
    BY <2>2 DEF RequestStop, Step
  <2>3. CASE joined(t, 1153, 3, 152) \/ joined(t, 1152, 2, 151)
    BY <2>3 DEF joined, Await, Step
  <2>4. CASE stopped(t, 151, 4, 1151) \/ stopped(t, 2151, 5, 3151)
    BY <2>4 DEF stopped, Wake
  <2>5. CASE joined(t, 1151, 4, 2151) \/ joined(t, 3151, 5, 149)
    BY <2>5 DEF joined, Await, Step
  <2>6. CASE Step(t, 149, [mem EXCEPT !.gone = @ \cup {"queue_"}], End)
    BY <2>6 DEF Step
  <2> QED
    BY <1>4, <2>1, <2>2, <2>3, <2>4, <2>5, <2>6 DEF scheduler_main, workers_destroyed
<1> QED
  BY <1>1, <1>2, <1>3, <1>4

LEMMA SeenLater ==
  ASSUME NEW seen, NEW c \in 1 .. 3, NEW d \in 1 .. 3, c <= d, GoodSeen(seen, c)
  PROVE  GoodSeen(seen, d)
<1>1. \A k \in 1 .. Len(seen) : seen[k][1] \in 0 .. 2
  BY DEF GoodSeen
<1> QED
  BY <1>1 DEF GoodSeen

LEMMA LevelSeen ==
  ASSUME NEW seen, NEW c \in 1 .. 3, GoodSeen(seen, c)
  PROVE  GoodSeen(Append(seen, <<c - 1, "?">>), c)
<1> DEFINE s == Append(seen, <<c - 1, "?">>)
<1>1. seen \in Seq((0 .. 2) \X {"init", "alpha", "beta", "?"})
  BY DEF GoodSeen
<1>2. s \in Seq((0 .. 2) \X {"init", "alpha", "beta", "?"})
  BY <1>1
<1>3. /\ Len(s) = Len(seen) + 1 /\ s[Len(seen) + 1] = <<c - 1, "?">>
      /\ \A k \in 1 .. Len(seen) : s[k] = seen[k]
  BY <1>1
<1> HIDE DEF s
<1>4. Len(seen) \in Nat /\ \A k \in 1 .. Len(s) : k = Len(s) \/ k \in 1 .. Len(seen)
  BY <1>1, <1>3
<1>5. s[Len(s)][1] = c - 1 /\ s[Len(s)] = <<s[Len(s)][1], "?">>
  BY <1>3, <1>4
<1> QED
  BY <1>2, <1>3, <1>4, <1>5 DEF GoodSeen

LEMMA ModeSeen ==
  ASSUME NEW seen, NEW c \in 1 .. 3, GoodSeen(seen, c), Len(seen) > 0,
         seen[Len(seen)] = <<c - 1, "?">>
  PROVE  GoodSeen([seen EXCEPT ![Len(seen)][2] = Configs[c].mode], c)
<1> DEFINE n == Len(seen)
           last == <<c - 1, Configs[c].mode>>
           s == [seen EXCEPT ![n] = last]
<1>1. seen \in Seq((0 .. 2) \X {"init", "alpha", "beta", "?"})
  BY DEF GoodSeen
<1>2. n \in 1 .. n
  BY <1>1
<1>3. [seen EXCEPT ![Len(seen)][2] = Configs[c].mode] = s
  <2>1. [seen[n] EXCEPT ![2] = Configs[c].mode] = last
    OBVIOUS
  <2> HIDE DEF last
  <2>2. [seen EXCEPT ![n][2] = Configs[c].mode]
          = [seen EXCEPT ![n] = [seen[n] EXCEPT ![2] = Configs[c].mode]]
    OBVIOUS
  <2> QED
    BY <2>1, <2>2
<1>4. last \in (0 .. 2) \X {"init", "alpha", "beta", "?"} /\ last \in Modes /\ last[1] = c - 1
  BY DEF Configs, Modes
<1> HIDE DEF last
<1>5. /\ s \in Seq((0 .. 2) \X {"init", "alpha", "beta", "?"}) /\ Len(s) = n /\ s[n] = last
      /\ \A k \in 1 .. n : k # n => s[k] = seen[k]
  BY <1>1, <1>2, <1>4
<1> HIDE DEF s
<1>6. seen[n][1] = c - 1
  OBVIOUS
<1>7. \A k \in 1 .. Len(s) : s[k][1] = seen[k][1]
  BY <1>4, <1>5, <1>6
<1>8. \A k \in 1 .. Len(s) : s[k] \in Modes \/ s[k] = <<s[k][1], "?">>
  BY <1>4, <1>5 DEF GoodSeen
<1>9. \A k \in 1 .. Len(s) : s[k][1] <= c - 1 /\ (k > 1 => s[k - 1][1] <= s[k][1])
  BY <1>1, <1>5, <1>7 DEF GoodSeen
<1>10. GoodSeen(s, c)
  BY <1>5, <1>8, <1>9 DEF GoodSeen
<1> QED
  BY <1>3, <1>10

LEMMA WrittenMore ==
  ASSUME NEW cfgs, NEW config, Written(cfgs), Len(cfgs) < 3, config = Configs[Len(cfgs) + 1]
  PROVE  Written(Append(cfgs, config)) /\ Len(Append(cfgs, config)) = Len(cfgs) + 1
<1>1. config \in [level : Nat, mode : {"init", "alpha", "beta"}]
  BY DEF Written, Configs
<1>2. /\ Append(cfgs, config) \in Seq([level : Nat, mode : {"init", "alpha", "beta"}])
      /\ Len(Append(cfgs, config)) = Len(cfgs) + 1
      /\ \A k \in 1 .. Len(cfgs) : Append(cfgs, config)[k] = cfgs[k]
      /\ Append(cfgs, config)[Len(cfgs) + 1] = config
  BY <1>1 DEF Written
<1> QED
  BY <1>2 DEF Written

LEMMA ConfigKept ==
  ASSUME ConfigInv, NEW t \in Thread, config_reader(t) \/ config_writer(t)
  PROVE  ConfigInv'
<1> USE DEF ConfigInv, Goto, At, Thread, Ended, End
<1>1. CASE Test(t, 36, Len(mem.seen) < Rounds, 37, End)
  BY <1>1 DEF Test, Step
<1>2. CASE Step(t, 37, [mem EXCEPT !.c = mem.cfg], 38)
  <2>1. mem.c \in 1 .. 3 /\ mem.cfg \in 1 .. 3 /\ mem.c <= mem.cfg
    OBVIOUS
  <2>2. GoodSeen(mem.seen, mem.cfg)
    BY <2>1, SeenLater
  <2> QED
    BY <1>2, <2>1, <2>2 DEF Step
<1>3. CASE Step(t, 38, [mem EXCEPT !.seen = Append(@, <<mem.cfgs[mem.c].level, "?">>)], 39)
  <2>1. t = 1 /\ mem.c \in 1 .. 3 /\ mem.cfgs[mem.c].level = mem.c - 1
    <3>1. t = 1 /\ mem.c \in 1 .. 3 /\ mem.c \in 1 .. Len(mem.cfgs)
      BY <1>3 DEF Step
    <3>3. mem.cfgs[mem.c] = Configs[mem.c]
      BY <3>1 DEF Written
    <3>2. \A c \in 1 .. 3 : Configs[c].level = c - 1
      BY DEF Configs
    <3> QED
      BY <3>1, <3>2, <3>3
  <2>2. mem' = [mem EXCEPT !.seen = Append(@, <<mem.c - 1, "?">>)]
    BY <1>3, <2>1 DEF Step
  <2>3. /\ DOMAIN mem' = DOMAIN mem /\ mem'.seen = Append(mem.seen, <<mem.c - 1, "?">>)
        /\ mem'.cfgs = mem.cfgs /\ mem'.cfg = mem.cfg /\ mem'.c = mem.c
    BY <2>2
  <2>4. /\ Len(mem'.seen) = Len(mem.seen) + 1 /\ Len(mem.seen) \in Nat
        /\ mem'.seen[Len(mem.seen) + 1] = <<mem.c - 1, "?">>
    BY <2>3 DEF GoodSeen
  <2>5. GoodSeen(mem'.seen, mem'.c)
    <3>1. GoodSeen(Append(mem.seen, <<mem.c - 1, "?">>), mem.c)
      <4>1. mem.c \in 1 .. 3 /\ GoodSeen(mem.seen, mem.c)
        BY <2>1
      <4> QED
        BY <4>1, LevelSeen, Zenon
    <3>2. mem'.c = mem.c /\ mem'.seen = Append(mem.seen, <<mem.c - 1, "?">>)
      BY <2>3
    <3> QED
      BY <3>1, <3>2, Zenon
  <2> QED
    BY <1>3, <2>1, <2>3, <2>4, <2>5 DEF Step
<1>4. CASE Step(t, 39, [mem EXCEPT !.seen[Len(mem.seen)][2] = mem.cfgs[mem.c].mode], 36)
  <2>1. t = 1 /\ mem.c \in 1 .. 3 /\ mem.cfgs[mem.c] = Configs[mem.c]
    BY <1>4 DEF Step, Written
  <2>2. /\ DOMAIN mem' = DOMAIN mem
        /\ mem'.seen = [mem.seen EXCEPT ![Len(mem.seen)][2] = Configs[mem.c].mode]
        /\ mem'.cfgs = mem.cfgs /\ mem'.cfg = mem.cfg /\ mem'.c = mem.c
    BY <1>4, <2>1 DEF Step
  <2>3. /\ Len(mem.seen) > 0 /\ mem.seen[Len(mem.seen)] = <<mem.c - 1, "?">>
        /\ GoodSeen(mem.seen, mem.c)
    BY <1>4 DEF Step
  <2>4. GoodSeen([mem.seen EXCEPT ![Len(mem.seen)][2] = Configs[mem.c].mode], mem.c)
    BY <2>1, <2>3, ModeSeen, Zenon
  <2>5. GoodSeen(mem'.seen, mem'.c)
    <3>1. /\ mem'.c = mem.c
          /\ mem'.seen = [mem.seen EXCEPT ![Len(mem.seen)][2] = Configs[mem.c].mode]
      BY <2>2
    <3> QED
      BY <3>1, <2>4, Zenon
  <2> QED
    BY <1>4, <2>1, <2>2, <2>5 DEF Step
<1>5. CASE config_writer(t)
  <2>1. CASE Step(t, 46, [mem EXCEPT !.cfgs = Append(@, [level |-> 1, mode |-> "alpha"])], 146)
    <3>1. Written(mem.cfgs) /\ Len(mem.cfgs) = 1
      BY <2>1 DEF Step
    <3>2. Written(mem.cfgs) /\ Len(mem.cfgs) < 3 /\ Len(mem.cfgs) + 1 = 2
      <4> HIDE DEF ConfigInv
      <4>1. \A n : n = 1 => n < 3 /\ n + 1 = 2
        OBVIOUS
      <4> QED
        BY <3>1, <4>1, Zenon
    <3>3. [level |-> 1, mode |-> "alpha"] = Configs[2]
      BY DEF Configs
    <3>4. [level |-> 1, mode |-> "alpha"] = Configs[Len(mem.cfgs) + 1]
      BY <3>2, <3>3, Zenon
    <3>5. /\ Written(Append(mem.cfgs, [level |-> 1, mode |-> "alpha"]))
          /\ Len(Append(mem.cfgs, [level |-> 1, mode |-> "alpha"])) = Len(mem.cfgs) + 1
      <4> DEFINE config == [level |-> 1, mode |-> "alpha"]
      <4> HIDE DEF config, ConfigInv, Goto, At, Thread, Ended, End
      <4>1. config = Configs[Len(mem.cfgs) + 1]
        BY <3>4 DEF config
      <4>2. Written(Append(mem.cfgs, config)) /\ Len(Append(mem.cfgs, config)) = Len(mem.cfgs) + 1
        BY <3>2, <4>1, WrittenMore, Zenon
      <4> QED
        BY <4>2 DEF config
    <3>6. mem'.cfgs = Append(mem.cfgs, [level |-> 1, mode |-> "alpha"])
      BY <2>1 DEF Step
    <3>7. Written(mem'.cfgs) /\ Len(mem'.cfgs) = 2
      BY <3>2, <3>5, <3>6, Zenon
    <3> QED
      BY <2>1, <3>7 DEF Step
  <2>2. CASE Step(t, 48, [mem EXCEPT !.cfgs = Append(@, [level |-> 2, mode |-> "beta"])], 148)
    <3>1. Written(mem.cfgs) /\ Len(mem.cfgs) = 2
      BY <2>2 DEF Step
    <3>2. Written(mem.cfgs) /\ Len(mem.cfgs) < 3 /\ Len(mem.cfgs) + 1 = 3
      <4> HIDE DEF ConfigInv
      <4>1. \A n : n = 2 => n < 3 /\ n + 1 = 3
        OBVIOUS
      <4> QED
        BY <3>1, <4>1, Zenon
    <3>3. [level |-> 2, mode |-> "beta"] = Configs[3]
      BY DEF Configs
    <3>4. [level |-> 2, mode |-> "beta"] = Configs[Len(mem.cfgs) + 1]
      BY <3>2, <3>3, Zenon
    <3>5. /\ Written(Append(mem.cfgs, [level |-> 2, mode |-> "beta"]))
          /\ Len(Append(mem.cfgs, [level |-> 2, mode |-> "beta"])) = Len(mem.cfgs) + 1
      <4> DEFINE config == [level |-> 2, mode |-> "beta"]
      <4> HIDE DEF config, ConfigInv, Goto, At, Thread, Ended, End
      <4>1. config = Configs[Len(mem.cfgs) + 1]
        BY <3>4 DEF config
      <4>2. Written(Append(mem.cfgs, config)) /\ Len(Append(mem.cfgs, config)) = Len(mem.cfgs) + 1
        BY <3>2, <4>1, WrittenMore, Zenon
      <4> QED
        BY <4>2 DEF config
    <3>6. mem'.cfgs = Append(mem.cfgs, [level |-> 2, mode |-> "beta"])
      BY <2>2 DEF Step
    <3>7. Written(mem'.cfgs) /\ Len(mem'.cfgs) = 3
      BY <3>2, <3>5, <3>6, Zenon
    <3> QED
      BY <2>2, <3>7 DEF Step
  <2>3. CASE Step(t, 146, [mem EXCEPT !.cfg = Len(mem.cfgs)], 48)
    BY <2>3 DEF Step
  <2>4. CASE Step(t, 148, [mem EXCEPT !.cfg = Len(mem.cfgs)], End)
    BY <2>4 DEF Step
  <2> QED
    BY <1>5, <2>1, <2>2, <2>3, <2>4 DEF config_writer, update
<1> QED
  BY <1>1, <1>2, <1>3, <1>4, <1>5 DEF config_reader

LEMMA OrderStart == Init => OrderInv
<1> SUFFICES ASSUME Init PROVE OrderInv
  OBVIOUS
<1> USE DEF Boot, Main, Thread, Ended, End
<1>1. ASSUME program = "coordination" PROVE TurnInv
  <2>1. pc = <<73, 73, 73, 73>> /\ mem = [next_thread_to_execute |-> 1, announced |-> <<>>]
    BY <1>1, StartOf DEF Restaurants
  <2> QED
    BY <2>1 DEF TurnInv
<1>2. ASSUME program = "barrier" PROVE BarrierInv
  <2>1. /\ pc = <<27, 27, 27, 27>>
        /\ mem = [global_superstep |-> 0, arrived |-> 0, phase |-> 0,
                  token |-> <<0, 0, 0, 0>>, superstep |-> <<0, 0, 0, 0>>]
    BY <1>2, StartOf DEF Barrier
  <2> QED
    BY <2>1 DEF BarrierInv, Waits
<1>3. ASSUME program = "config_manager" PROVE ConfigInv
  <2>1. /\ pc = <<36, 46>>
        /\ mem = [cfgs |-> <<[level |-> 0, mode |-> "init"]>>, cfg |-> 1, c |-> 1,
                  seen |-> <<>>]
    BY <1>3, StartOf DEF ConfigMain
  <2>2. GoodSeen(<<>>, 1)
    BY DEF GoodSeen
  <2>3. Written(<<[level |-> 0, mode |-> "init"]>>)
    BY DEF Written, Configs
  <2> QED
    BY <2>1, <2>2, <2>3 DEF ConfigInv
<1>4. ASSUME program = "predicate_coordination" PROVE PredicateInv
  <2>1. /\ pc = <<32, 18, 18, 18>>
        /\ mem = [s_data |-> "empty", condition |-> FALSE,
                  seen |-> <<"nothing", "nothing", "nothing", "nothing">>]
    BY <1>4, StartOf DEF PredicateMain
  <2> QED
    BY <2>1 DEF PredicateInv
<1>5. ASSUME program = "counter" PROVE ThresholdInv
  <2>1. pc = <<48, 147, 147>> /\ mem = [value_ |-> 0, i |-> <<0, 0, 0>>]
    BY <1>5, StartOf DEF CounterMain
  <2> QED
    BY <2>1 DEF ThresholdInv
<1>6. ASSUME program = "jthread_1" PROVE LateInv
  <2>1. /\ pc = <<158, 93, 135, 28, 28>>
        /\ mem = [queue_ |-> <<>>, job |-> <<0, 0, 0, 0, 0>>, id |-> 0, completed_ |-> 0,
                  checksum_ |-> {}, stop |-> {}, gone |-> {}, late |-> {}]
    BY <1>6, StartOf DEF Scheduler
  <2> QED
    BY <2>1 DEF LateInv
<1> QED
  BY <1>1, <1>2, <1>3, <1>4, <1>5, <1>6 DEF OrderInv

LEMMA OrderNext == LockInv /\ OrderInv /\ [Next]_vars => OrderInv'
<1> SUFFICES ASSUME LockInv, OrderInv, [Next]_vars PROVE OrderInv'
  OBVIOUS
<1>1. program' = program
  BY LockNext
<1>2. CASE UNCHANGED <<pc, owner, mem>>
  <2>1. /\ TurnInv => TurnInv'
        /\ PredicateInv => PredicateInv'
        /\ ThresholdInv => ThresholdInv'
    BY <1>2 DEF TurnInv, PredicateInv, ThresholdInv, Thread, Ended
  <2>2. BarrierInv => BarrierInv'
    BY <1>2 DEF BarrierInv, Waits, Thread
  <2>3. ConfigInv => ConfigInv'
    BY <1>2 DEF ConfigInv, Thread
  <2>4. LateInv => LateInv'
    BY <1>2 DEF LateInv, Thread, Ended
  <2> QED
    BY <1>1, <2>1, <2>2, <2>3, <2>4 DEF OrderInv
<1>3. CASE \E t \in Thread : ThreadStep(t)
  <2> PICK t \in Thread : ThreadStep(t)
    BY <1>3
  <2>1. program = "coordination" => TurnInv'
    BY StepOf, TurnKept DEF OrderInv
  <2>2. program = "barrier" => BarrierInv'
    BY StepOf, BarrierKept DEF OrderInv
  <2>3. program = "config_manager" => ConfigInv'
    BY StepOf, ConfigKept DEF OrderInv
  <2>4. program = "predicate_coordination" => PredicateInv'
    BY StepOf, PredicateKept DEF OrderInv
  <2>5. program = "counter" => ThresholdInv'
    BY StepOf, ThresholdKept DEF OrderInv
  <2>6. program = "jthread_1" => LateInv'
    BY StepOf, LateKept DEF OrderInv
  <2> QED
    BY <1>1, <2>1, <2>2, <2>3, <2>4, <2>5, <2>6 DEF OrderInv
<1> QED
  BY <1>2, <1>3 DEF Next, SpuriousWakeup, vars, machineVars

\* The order that coordination.cpp, barrier.cpp, the configuration manager, the predicate
\* and the bounded counter promise, for loops of any length.
THEOREM OrderIsKept == Spec => []OrderKept
<1>1. OrderInv => OrderKept
  <2> SUFFICES ASSUME OrderInv PROVE OrderKept
    OBVIOUS
  <2>1. program = "coordination" => \A k \in DOMAIN mem.announced : mem.announced[k] = k
    BY DEF OrderInv, TurnInv
  <2>2. program = "barrier" =>
          \A t, u \in Thread : mem.superstep[t] \in mem.superstep[u] - 1 .. mem.superstep[u] + 1
    <3> SUFFICES ASSUME BarrierInv, NEW t \in Thread, NEW u \in Thread
                 PROVE  mem.superstep[t] \in mem.superstep[u] - 1 .. mem.superstep[u] + 1
      BY DEF OrderInv
    <3>1. \A v \in Thread : mem.superstep[v] \in {mem.phase - 1, mem.phase} /\ mem.phase \in Nat
      BY DEF BarrierInv
    <3> QED
      BY <3>1
  <2>3. program = "config_manager" =>
          \A k \in DOMAIN mem.seen :
             /\ mem.seen[k] \in {<<0, "init">>, <<1, "alpha">>, <<2, "beta">>,
                                 <<mem.seen[k][1], "?">>}
             /\ k > 1 => mem.seen[k - 1][1] <= mem.seen[k][1]
    <3> SUFFICES ASSUME ConfigInv, NEW k \in DOMAIN mem.seen
                 PROVE  /\ mem.seen[k] \in Modes \/ mem.seen[k] = <<mem.seen[k][1], "?">>
                        /\ k > 1 => mem.seen[k - 1][1] <= mem.seen[k][1]
      BY DEF OrderInv, Modes
    <3>1. k \in 1 .. Len(mem.seen)
      BY DEF ConfigInv, GoodSeen
    <3> QED
      BY <3>1 DEF ConfigInv, GoodSeen
  <2>4. program = "predicate_coordination" =>
          \A t \in 2 .. 4 : Ended(t) => mem.seen[t] = "modified"
    BY DEF OrderInv, PredicateInv
  <2>5. program = "counter" => (Ended(1) => mem.value_ >= threshold_)
    BY DEF OrderInv, ThresholdInv, Ended
  <2> QED
    BY <2>1, <2>2, <2>3, <2>4, <2>5 DEF OrderKept
<1> QED
  BY <1>1, LocksInvariant, LockStart, LockNext, OrderStart, OrderNext, PTL DEF Spec

\* scheduler_main (jthread_1.cpp) destroys the queue after the last thread that uses it
\* has ended; only the results are used after they are gone.
THEOREM QueueOutlivesThreads == Spec => []OnlyResultsUsedLate
<1>1. OrderInv => OnlyResultsUsedLate
  BY DEF OrderInv, LateInv, Results, OnlyResultsUsedLate
<1> QED
  BY <1>1, LocksInvariant, LockStart, LockNext, OrderStart, OrderNext, PTL DEF Spec

-----------------------------------------------------------------------------
\* Nothing lost and nothing twice

\* mutex_example.cpp: the two accounts have what they began with.
AccountsInv ==
    /\ Thread = 1 .. 4
    /\ DOMAIN mem = {"balance", "amount", "i"}
    /\ mem.balance \in [1 .. 2 -> Nat] /\ mem.balance[1] + mem.balance[2] = 2 * Balance
    /\ mem.amount \in [1 .. 4 -> Nat]

\* The numbers consumed, and those in the queue behind them, count from 0.
Successive(p, q) ==
    /\ p \in Seq(Nat) /\ q \in Seq(Nat)
    /\ \A k \in 1 .. Len(p) : p[k] = k - 1
    /\ \A k \in 1 .. Len(q) : q[k] = Len(p) + k - 1

LineInv ==
    /\ DOMAIN mem = {"q", "popped", "i", "finished"}
    /\ Successive(mem.popped, mem.q)
    /\ mem.i = Len(mem.popped) + Len(mem.q)

\* What three threads have pushed is in the queue or with the two that serve themselves,
\* and so with the stack.
ServedInv ==
    /\ Thread = 1 .. 5
    /\ DOMAIN mem = {"queue", "got"}
    /\ mem.queue \in Seq(1 .. 3) /\ mem.got \in [1 .. 5 -> 0 .. 3]
    /\ \A t \in 1 .. 3 : pc[t] \in {12, 13, 15, End}
    /\ \A t \in 4 .. 5 : /\ pc[t] \in {38, 39, 42, 25, End}
                         /\ ~Ended(t) => mem.got[t] = Null
                         /\ pc[t] = 42 => mem.queue # <<>>
    /\ EachOnce(Pushed({15, End}), Contents(mem.queue) \cup Served(4) \cup Served(5),
                Len(mem.queue) + Cardinality(Served(4)) + Cardinality(Served(5)))

StackedInv ==
    /\ Thread = 1 .. 5
    /\ DOMAIN mem = {"_stack", "got", "thrown"}
    /\ mem._stack \in Seq(1 .. 3) /\ mem.got \in [1 .. 5 -> 0 .. 3]
    /\ \A t \in 1 .. 3 : pc[t] \in {5, End}
    /\ \A t \in 4 .. 5 : pc[t] \in {19, End} /\ (~Ended(t) => mem.got[t] = Null)
    /\ EachOnce(Pushed({End}), Contents(mem._stack) \cup Served(4) \cup Served(5),
                Len(mem._stack) + Cardinality(Served(4)) + Cardinality(Served(5)))

\* Nothing is twice in the sequence.
Distinct(q) == \A k, l \in 1 .. Len(q) : q[k] = q[l] => k = l

\* The jobs of jthread_1.cpp: those numbered and queued, and the one a worker has taken and
\* not counted.
Issued == IF pc[2] = 21 THEN mem.id - 1 ELSE mem.id
Working(t) == pc[t] \in {121, 122}
InHand(t) == IF Working(t) THEN {mem.job[t]} ELSE {}
Size(hand) == IF hand = {} THEN 0 ELSE 1

\* n jobs are in the queue, in the two hands or in the checksum, none in two of them.
Accounted(n, queue, completed, checksum, hand, other) ==
    /\ queue \in Seq(1 .. n) /\ Distinct(queue) /\ completed \in Nat
    /\ checksum \cup Contents(queue) \cup hand \cup other = 1 .. n
    /\ checksum \cap Contents(queue) = {} /\ hand \cap other = {}
    /\ (hand \cup other) \cap (checksum \cup Contents(queue)) = {}
    /\ completed + Size(hand) + Size(other) + Len(queue) = n

JobsInv ==
    /\ mem.id \in Nat /\ mem.job \in [1 .. 5 -> Nat]
    /\ pc[2] = 21 => mem.id # 0
    /\ Accounted(Issued, mem.queue_, mem.completed_, mem.checksum_, InHand(4), InHand(5))
    /\ \A t \in {4, 5} : pc[t] = 34 => t \in mem.stop \/ mem.queue_ # <<>>

\* The nodes of the stack from its bottom to its top, and those that a thread has
\* made and not pushed: each node in one place. A node points to the one below it.
Top(list, k) == IF k = 0 THEN nullptr ELSE list[k]
Chained(links, list, head, hand, other) ==
    /\ links \in Seq(Nat) /\ list \in Seq(1 .. Len(links)) /\ Distinct(list)
    /\ \A k \in 1 .. Len(list) : links[list[k]] = Top(list, k - 1)
    /\ head = Top(list, Len(list))
    /\ Contents(list) \cup hand \cup other = 1 .. Len(links)
    /\ hand \cap other = {} /\ (hand \cup other) \cap Contents(list) = {}
    /\ Len(list) + Size(hand) + Size(other) = Len(links)

\* The node that a thread has made and not pushed, and the rounds that it is through.
Holding(t) == IF pc[t] \in {31, 32, 33} THEN {mem.newNode[t]} ELSE {}
Pushes(t) == IF pc[t] = 53 THEN mem.i[t] ELSE mem.i[t] - 1
PusherInv(t) ==
    /\ pc[t] \in {53, 28, 31, 32, 33, End}
    /\ pc[t] = 53 => mem.i[t] \in 0 .. Rounds
    /\ pc[t] \in {28, 31, 32, 33} => mem.i[t] \in 1 .. Rounds
    /\ pc[t] = End => mem.i[t] = Rounds + 1
    /\ pc[t] = 33 => mem.next[mem.newNode[t]] = mem.oldHead[t]

\* main() has come from the top past the nodes that it has counted or deleted.
CounterInv(list) ==
    /\ pc[1] \in {63, 68, 19, End}
    /\ pc[1] # 63 => Ended(2) /\ Ended(3)
    /\ pc[1] = 63 => mem.count = 0
    /\ pc[1] \in {63, 68} => mem.deleted = <<>>
    /\ pc[1] = 68 => /\ mem.count \in 0 .. Len(list)
                     /\ mem.node = Top(list, Len(list) - mem.count)
    /\ pc[1] \in {19, End} =>
          /\ mem.count = Len(list)
          /\ mem.deleted \in Seq(Nat) /\ Len(mem.deleted) <= Len(list)
          /\ mem.node = Top(list, Len(list) - Len(mem.deleted))
          /\ \A k \in 1 .. Len(mem.deleted) : mem.deleted[k] = list[Len(list) + 1 - k]
    /\ Ended(1) => Len(mem.deleted) = Len(list)

StackInv(list) ==
    /\ Thread = 1 .. 3
    /\ DOMAIN mem = {"next", "head", "newNode", "oldHead", "i", "node", "count", "deleted"}
    /\ Chained(mem.next, list, mem.head, Holding(2), Holding(3))
    /\ mem.newNode \in [1 .. 3 -> Nat] /\ mem.oldHead \in [1 .. 3 -> Nat]
    /\ mem.i \in [1 .. 3 -> Nat]
    /\ PusherInv(2) /\ PusherInv(3)
    /\ Len(list) = Pushes(2) + Pushes(3)
    /\ CounterInv(list)

\* What the programs keep that hand something from one thread to another.
KeptInv ==
    /\ program = "mutex_example" => AccountsInv
    /\ program = "producer_consumer" => LineInv
    /\ program \in {"thread_safe_queue", "thread_safe_queue_pop"} => ServedInv
    /\ program = "thread_safe_stack" => StackedInv
    /\ program = "jthread_1" => JobsInv
    /\ program = "lock_free_stack" => \E list \in Seq(Nat) : StackInv(list)

-----------------------------------------------------------------------------
\* Sums

\* A set of numbers that is not empty has a least one.
LEMMA LeastNumber ==
    ASSUME NEW T, T \subseteq Nat, T # {}
    PROVE  \E x \in T : \A y \in T : x <= y
<1>1. \E x \in T : \A y \in T : <<y, x>> \notin OpToRel(<, Nat)
  BY NatLessThanWellFounded, WFMin
<1>2. ASSUME NEW x \in T, NEW y \in T, <<y, x>> \notin OpToRel(<, Nat)
      PROVE  x <= y
  BY <1>2 DEF OpToRel
<1> QED
  BY <1>1, <1>2

\* p has the sums of the last terms of s: all of them at 0, none at Len(s).
Partial(s, p) ==
    /\ p \in [0 .. Len(s) -> Int]
    /\ p[Len(s)] = 0
    /\ \A k \in 1 .. Len(s) : p[k - 1] = s[k] + p[k]

LEMMA PartialSums ==
  ASSUME NEW s \in Seq(Int)
  PROVE  \E p : Partial(s, p)
<1> DEFINE Without(n) == \E r \in Seq(Int) : Len(r) = n /\ ~ \E p : Partial(r, p)
           Lengths == {n \in Nat : Without(n)}
<1> SUFFICES ASSUME Len(s) \in Lengths PROVE FALSE
  OBVIOUS
<1>1. PICK n \in Lengths : \A m \in Lengths : n <= m
  <2> HIDE DEF Lengths
  <2>1. Lengths \subseteq Nat
    BY DEF Lengths
  <2> QED
    BY <2>1, LeastNumber
<1>2. PICK r \in Seq(Int) : Len(r) = n /\ ~ \E p : Partial(r, p)
  BY <1>1
<1>3. n # 0
  <2> SUFFICES ASSUME n = 0 PROVE FALSE
    OBVIOUS
  <2>1. Partial(r, [k \in 0 .. 0 |-> 0])
    BY <1>2 DEF Partial
  <2> QED
    BY <1>2, <2>1
<1>4. /\ Tail(r) \in Seq(Int) /\ Len(Tail(r)) = n - 1 /\ n - 1 \in Nat
      /\ \A k \in 1 .. n - 1 : Tail(r)[k] = r[k + 1]
  BY <1>2, <1>3
<1>5. PICK p : Partial(Tail(r), p)
  <2>1. n - 1 \notin Lengths
    <3> HIDE DEF Lengths
    <3> QED
      BY <1>1, <1>2
  <2> QED
    BY <1>4, <2>1
<1> DEFINE q == [k \in 0 .. n |-> IF k = 0 THEN r[1] + p[0] ELSE p[k - 1]]
<1>6. Partial(r, q)
  <2>1. p \in [0 .. n - 1 -> Int] /\ p[n - 1] = 0
    BY <1>4, <1>5 DEF Partial
  <2>2. q \in [0 .. n -> Int] /\ q[n] = 0
    BY <1>2, <1>3, <2>1
  <2>3. ASSUME NEW k \in 1 .. n PROVE q[k - 1] = r[k] + q[k]
    <3>0. /\ k - 1 \in 0 .. n /\ k \in 0 .. n /\ q[0] = r[1] + p[0] /\ q[k] = p[k - 1]
          /\ k # 1 => q[k - 1] = p[(k - 1) - 1]
      BY <2>3
    <3>1. CASE k = 1
      BY <3>0, <3>1
    <3>2. CASE k # 1
      <4>1. k - 1 \in 1 .. n - 1 /\ Tail(r)[k - 1] = r[k]
        BY <1>4, <3>2
      <4>2. p[(k - 1) - 1] = Tail(r)[k - 1] + p[k - 1]
        BY <1>4, <1>5, <4>1 DEF Partial
      <4> QED
        BY <3>0, <3>2, <4>1, <4>2
    <3> QED
      BY <3>1, <3>2
  <2> HIDE DEF q
  <2> QED
    BY <1>2, <2>2, <2>3 DEF Partial
<1> QED
  BY <1>2, <1>6

LEMMA PartialSumsUnique ==
  ASSUME NEW s \in Seq(Int), NEW p, NEW q, Partial(s, p), Partial(s, q)
  PROVE  p[0] = q[0]
<1> DEFINE Differ == {n \in 0 .. Len(s) : p[Len(s) - n] # q[Len(s) - n]}
<1> SUFFICES ASSUME Len(s) \in Differ PROVE FALSE
  OBVIOUS
<1>1. PICK n \in Differ : \A m \in Differ : n <= m
  <2>1. Differ \subseteq Nat
    OBVIOUS
  <2> HIDE DEF Differ
  <2> QED
    BY <2>1, LeastNumber
<1>2. n # 0
  BY DEF Partial
<1>3. n - 1 \in 0 .. Len(s) /\ n - 1 \notin Differ
  <2>1. n \in 0 .. Len(s)
    OBVIOUS
  <2> HIDE DEF Differ
  <2> QED
    BY <1>1, <1>2, <2>1
<1>4. p[Len(s) - (n - 1)] = q[Len(s) - (n - 1)]
  BY <1>3
<1>5. Len(s) - (n - 1) \in 1 .. Len(s) /\ (Len(s) - (n - 1)) - 1 = Len(s) - n
  BY <1>2
<1>6. /\ p[Len(s) - n] = s[Len(s) - (n - 1)] + p[Len(s) - (n - 1)]
      /\ q[Len(s) - n] = s[Len(s) - (n - 1)] + q[Len(s) - (n - 1)]
  BY <1>5 DEF Partial
<1> QED
  BY <1>4, <1>6

\* The equation that SumOf is defined by has a solution.
SumsUp(f) == f = [s \in Seq(Int) |-> IF s = <<>> THEN 0 ELSE Head(s) + f[Tail(s)]]

LEMMA SumDefined == SumsUp(SumOf)
<1> DEFINE total == [s \in Seq(Int) |-> (CHOOSE p : Partial(s, p))[0]]
<1>1. ASSUME NEW s \in Seq(Int), NEW p, Partial(s, p) PROVE total[s] = p[0]
  <2>1. Partial(s, CHOOSE r : Partial(s, r))
    BY <1>1
  <2> QED
    BY <1>1, <2>1, PartialSumsUnique
<1>2. ASSUME NEW s \in Seq(Int)
      PROVE  total[s] = IF s = <<>> THEN 0 ELSE Head(s) + total[Tail(s)]
  <2>1. PICK p : Partial(s, p)
    BY PartialSums
  <2>2. total[s] = p[0]
    BY <1>1, <2>1
  <2>3. CASE s = <<>>
    BY <2>1, <2>2, <2>3 DEF Partial
  <2>4. CASE s # <<>>
    <3> DEFINE r == Tail(s)
               q == [k \in 0 .. Len(s) - 1 |-> p[k + 1]]
    <3>1. /\ r \in Seq(Int) /\ Len(s) \in Nat \ {0} /\ Len(r) = Len(s) - 1
          /\ Head(s) = s[1] /\ \A k \in 1 .. Len(s) - 1 : r[k] = s[k + 1]
      BY <2>4
    <3>2. p \in [0 .. Len(s) -> Int] /\ p[Len(s)] = 0
      BY <2>1 DEF Partial
    <3>3. \A k \in 1 .. Len(s) - 1 : q[k - 1] = r[k] + q[k]
      <4> SUFFICES ASSUME NEW k \in 1 .. Len(s) - 1 PROVE q[k - 1] = r[k] + q[k]
        OBVIOUS
      <4>1. k + 1 \in 1 .. Len(s) /\ (k + 1) - 1 = k /\ k - 1 \in 0 .. Len(s) - 1
            /\ (k - 1) + 1 = k /\ k \in 0 .. Len(s) - 1
        BY <3>1
      <4>2. p[(k + 1) - 1] = s[k + 1] + p[k + 1]
        BY <2>1, <4>1 DEF Partial
      <4> QED
        BY <3>1, <4>1, <4>2
    <3>4. q \in [0 .. Len(s) - 1 -> Int] /\ q[Len(s) - 1] = 0 /\ q[0] = p[1]
      BY <3>1, <3>2
    <3> HIDE DEF q, r
    <3>5. Partial(r, q)
      BY <3>1, <3>3, <3>4 DEF Partial
    <3>6. total[r] = q[0]
      BY <1>1, <3>1, <3>5
    <3>7. p[0] = s[1] + p[1]
      BY <2>1, <3>1 DEF Partial
    <3> QED
      BY <2>2, <2>4, <3>1, <3>4, <3>6, <3>7 DEF r
  <2> QED
    BY <2>3, <2>4
<1>3. SumsUp(total)
  <2>1. total = [s \in Seq(Int) |-> total[s]]
    OBVIOUS
  <2> HIDE DEF total
  <2> QED
    BY <1>2, <2>1 DEF SumsUp
<1>4. SumOf = CHOOSE f : SumsUp(f)
  BY DEF SumOf, SumsUp
<1> QED
  BY <1>3, <1>4

LEMMA SumOfTwo ==
  ASSUME NEW a \in Int, NEW b \in Int
  PROVE  SumOf[<<a, b>>] = a + b
<1>1. SumOf[<<>>] = 0 /\ SumOf[<<b>>] = b + SumOf[<<>>] /\ SumOf[<<a, b>>] = a + SumOf[<<b>>]
  <2>1. \A s \in Seq(Int) : SumOf[s] = IF s = <<>> THEN 0 ELSE Head(s) + SumOf[Tail(s)]
    BY SumDefined DEF SumsUp
  <2>2. <<>> \in Seq(Int) /\ <<b>> \in Seq(Int) /\ <<a, b>> \in Seq(Int)
    OBVIOUS
  <2>3. Head(<<b>>) = b /\ Tail(<<b>>) = <<>> /\ Head(<<a, b>>) = a /\ Tail(<<a, b>>) = <<b>>
    OBVIOUS
  <2> QED
    BY <2>1, <2>2, <2>3
<1> QED
  BY <1>1

\* An assignment to one element of an array, seen at that element and at the others.
LEMMA OneAssigned ==
  ASSUME NEW S, NEW V, NEW f \in [S -> V], NEW t \in S, NEW v \in V, NEW g,
         g = [f EXCEPT ![t] = v]
  PROVE  g \in [S -> V] /\ g[t] = v /\ \A o \in S : o # t => g[o] = f[o]
OBVIOUS

-----------------------------------------------------------------------------
\* What is in a sequence

LEMMA ContentsAppended ==
  ASSUME NEW S, NEW s \in Seq(S), NEW v \in S
  PROVE  /\ Append(s, v) \in Seq(S) /\ Len(Append(s, v)) = Len(s) + 1
         /\ Contents(Append(s, v)) = Contents(s) \cup {v}
<1>1. /\ Append(s, v) \in Seq(S) /\ Len(Append(s, v)) = Len(s) + 1
      /\ \A k \in 1 .. Len(s) : Append(s, v)[k] = s[k]
      /\ Append(s, v)[Len(s) + 1] = v
  OBVIOUS
<1>2. DOMAIN s = 1 .. Len(s) /\ DOMAIN Append(s, v) = 1 .. Len(s) + 1 /\ Len(s) \in Nat
  BY <1>1
<1>3. \A k \in 1 .. Len(s) : k \in 1 .. Len(s) + 1
  BY <1>2
<1>4. \A k \in 1 .. Len(s) + 1 : k \in 1 .. Len(s) \/ k = Len(s) + 1
  BY <1>2
<1>5. Len(s) + 1 \in 1 .. Len(s) + 1
  BY <1>2
<1> QED
  BY <1>1, <1>2, <1>3, <1>4, <1>5, Zenon DEF Contents

LEMMA ContentsBehindHead ==
  ASSUME NEW S, NEW s \in Seq(S), s # <<>>
  PROVE  /\ Tail(s) \in Seq(S) /\ Len(Tail(s)) = Len(s) - 1 /\ Len(s) \in Nat \ {0}
         /\ Head(s) \in S
         /\ Contents(s) = Contents(Tail(s)) \cup {Head(s)}
<1>1. /\ Tail(s) \in Seq(S) /\ Len(Tail(s)) = Len(s) - 1 /\ Len(s) \in Nat \ {0}
      /\ Head(s) = s[1] /\ s[1] \in S
      /\ \A k \in 1 .. Len(s) - 1 : Tail(s)[k] = s[k + 1]
  OBVIOUS
<1>2. DOMAIN s = 1 .. Len(s) /\ DOMAIN Tail(s) = 1 .. Len(s) - 1
  BY <1>1
<1>3. \A k \in 1 .. Len(s) - 1 : k + 1 \in DOMAIN s /\ Tail(s)[k] = s[k + 1]
  BY <1>1, <1>2
<1>4. \A k \in 1 .. Len(s) : k = 1 \/ (k - 1 \in DOMAIN Tail(s) /\ Tail(s)[k - 1] = s[k])
  BY <1>1, <1>2
<1>5. Contents(Tail(s)) \cup {Head(s)} \subseteq Contents(s)
  <2>1. 1 \in DOMAIN s
    BY <1>1, <1>2
  <2> QED
    BY <1>1, <1>2, <1>3, <2>1 DEF Contents
<1>6. ASSUME NEW k \in DOMAIN s PROVE s[k] \in Contents(Tail(s)) \cup {Head(s)}
  <2>1. k = 1 \/ (k - 1 \in DOMAIN Tail(s) /\ Tail(s)[k - 1] = s[k])
    BY <1>2, <1>4
  <2>2. \A l \in DOMAIN Tail(s) : Tail(s)[l] \in Contents(Tail(s))
    BY DEF Contents
  <2> QED
    BY <1>1, <2>1, <2>2
<1>7. Contents(s) \subseteq Contents(Tail(s)) \cup {Head(s)}
  BY <1>6 DEF Contents
<1> QED
  BY <1>1, <1>5, <1>7

LEMMA ContentsPrepended ==
  ASSUME NEW S, NEW s \in Seq(S), NEW v \in S
  PROVE  /\ <<v>> \o s \in Seq(S) /\ Len(<<v>> \o s) = Len(s) + 1
         /\ Contents(<<v>> \o s) = Contents(s) \cup {v}
<1> DEFINE r == <<v>> \o s
<1>1. <<v>> \in Seq(S)
  OBVIOUS
<1>2. /\ r \in Seq(S) /\ Len(r) = Len(s) + 1 /\ r[1] = v
      /\ \A k \in 1 .. Len(s) : r[k + 1] = s[k]
  BY <1>1
<1>3. DOMAIN s = 1 .. Len(s) /\ DOMAIN r = 1 .. Len(s) + 1 /\ Len(s) \in Nat
  BY <1>2
<1>4. \A k \in 1 .. Len(s) : k + 1 \in 1 .. Len(s) + 1
  BY <1>3
<1>5. \A k \in 1 .. Len(s) + 1 : k = 1 \/ (k - 1 \in 1 .. Len(s) /\ r[k] = s[k - 1])
  <2> SUFFICES ASSUME NEW k \in 1 .. Len(s) + 1, k # 1
               PROVE  k - 1 \in 1 .. Len(s) /\ r[k] = s[k - 1]
    OBVIOUS
  <2>1. k - 1 \in 1 .. Len(s) /\ (k - 1) + 1 = k
    BY <1>3
  <2> HIDE DEF r
  <2> QED
    BY <1>2, <2>1
<1>6. 1 \in 1 .. Len(s) + 1
  BY <1>3
<1> HIDE DEF r
<1>7. Contents(s) \cup {v} \subseteq Contents(r)
  BY <1>2, <1>3, <1>4, <1>6 DEF Contents
<1>8. ASSUME NEW k \in DOMAIN r PROVE r[k] \in Contents(s) \cup {v}
  <2>1. k = 1 \/ (k - 1 \in DOMAIN s /\ r[k] = s[k - 1])
    BY <1>3, <1>5
  <2>2. \A l \in DOMAIN s : s[l] \in Contents(s)
    BY DEF Contents
  <2> QED
    BY <1>2, <2>1, <2>2
<1>9. Contents(r) \subseteq Contents(s) \cup {v}
  BY <1>8 DEF Contents
<1> QED
  BY <1>2, <1>7, <1>9 DEF r

-----------------------------------------------------------------------------
\* The steps of the programs

LEMMA AccountsKept ==
  ASSUME AccountsInv, NEW t \in Thread, Transfer(t)
  PROVE  AccountsInv'
<1> USE DEF AccountsInv, Goto, Thread
<1>1. account1(t) \in 1 .. 2 /\ account2(t) = 3 - account1(t)
  BY DEF account1, account2
<1>2. CASE \E amount \in Amounts :
                Step(t, 46, [mem EXCEPT !.i[t] = @ + 1, !.amount[t] = amount], 48)
  <2>1. PICK amount \in Amounts :
                Step(t, 46, [mem EXCEPT !.i[t] = @ + 1, !.amount[t] = amount], 48)
    BY <1>2
  <2>2. /\ DOMAIN mem' = DOMAIN mem /\ mem'.balance = mem.balance
        /\ mem'.amount = [mem.amount EXCEPT ![t] = amount] /\ DOMAIN pc' = DOMAIN pc
    BY <2>1 DEF Step
  <2>3. amount \in Nat
    BY LockAssumption
  <2> QED
    BY <2>2, <2>3
<1>5. CASE Step(t, 46, mem, End)
  BY <1>5 DEF Step
<1>3. ASSUME NEW a \in 1 .. 2, NEW b \in 1 .. 2, a # b, NEW from, NEW success, NEW failure,
             transfer(t, from, a, b, success, failure)
      PROVE  AccountsInv'
  <2>1. CASE LockAll(t, from, {a, b}, from + 100)
    BY <2>1 DEF LockAll
  <2>2. CASE Unlock(t, from + 100, {a, b}, mem, failure)
    BY <2>2 DEF Unlock
  <2>3. CASE /\ mem.balance[a] >= mem.amount[t]
             /\ Unlock(t, from + 100, {a, b},
                       [mem EXCEPT !.balance[a] = @ - mem.amount[t],
                                   !.balance[b] = @ + mem.amount[t]], success)
    <3>1. /\ DOMAIN mem' = DOMAIN mem /\ mem'.amount = mem.amount
          /\ mem'.balance = [mem.balance EXCEPT ![a] = @ - mem.amount[t],
                                                ![b] = @ + mem.amount[t]]
          /\ DOMAIN pc' = DOMAIN pc
      BY <2>3 DEF Unlock
    <3>2. /\ mem.balance[a] \in Nat /\ mem.balance[b] \in Nat /\ mem.amount[t] \in Nat
          /\ mem.balance[a] - mem.amount[t] \in Nat
          /\ mem.balance[b] + mem.amount[t] \in Nat
      BY <2>3
    <3>3. /\ mem'.balance \in [1 .. 2 -> Nat]
          /\ mem'.balance[1] + mem'.balance[2] = 2 * Balance
      BY <1>3, <3>1, <3>2, LockAssumption
    <3> QED
      BY <3>1, <3>3
  <2> QED
    BY <1>3, <2>1, <2>2, <2>3 DEF transfer
<1>4. account2(t) \in 1 .. 2 /\ account1(t) # account2(t)
  BY <1>1
<1> QED
  BY <1>1, <1>2, <1>3, <1>4, <1>5 DEF Transfer

LEMMA LineStep ==
  ASSUME NEW p, NEW q, Successive(p, q)
  PROVE  /\ Len(p) + Len(q) \in Nat
         /\ Successive(p, Append(q, Len(p) + Len(q)))
         /\ Len(Append(q, Len(p) + Len(q))) = Len(q) + 1
         /\ q # <<>> => /\ Successive(Append(p, Head(q)), Tail(q))
                        /\ Len(Append(p, Head(q))) + Len(Tail(q)) = Len(p) + Len(q)
<1>1. p \in Seq(Nat) /\ q \in Seq(Nat) /\ Len(p) \in Nat /\ Len(q) \in Nat
  BY DEF Successive
<1>2. Successive(p, Append(q, Len(p) + Len(q))) /\ Len(Append(q, Len(p) + Len(q))) = Len(q) + 1
  <2> DEFINE v == Len(p) + Len(q)
             r == Append(q, v)
  <2>1. v \in Nat
    BY <1>1
  <2>2. /\ r \in Seq(Nat) /\ Len(r) = Len(q) + 1
        /\ \A k \in 1 .. Len(q) : r[k] = q[k]
        /\ r[Len(q) + 1] = v
    BY <1>1, <2>1
  <2> HIDE DEF r
  <2>3. \A k \in 1 .. Len(r) : k \in 1 .. Len(q) \/ k = Len(q) + 1
    BY <1>1, <2>2
  <2>4. \A k \in 1 .. Len(r) : r[k] = Len(p) + k - 1
    <3>1. \A k \in 1 .. Len(q) : q[k] = Len(p) + k - 1
      BY DEF Successive
    <3>2. r[Len(q) + 1] = Len(p) + (Len(q) + 1) - 1
      BY <1>1, <2>2 DEF v
    <3> QED
      BY <2>2, <2>3, <3>1, <3>2
  <2>5. Successive(p, r) /\ Len(r) = Len(q) + 1
    BY <1>1, <2>2, <2>4 DEF Successive
  <2> QED
    BY <2>5 DEF r
<1>3. ASSUME q # <<>>
      PROVE  /\ Successive(Append(p, Head(q)), Tail(q))
             /\ Len(Append(p, Head(q))) + Len(Tail(q)) = Len(p) + Len(q)
  <2> DEFINE r == Append(p, Head(q))
             u == Tail(q)
  <2>1. /\ u \in Seq(Nat) /\ Len(u) = Len(q) - 1 /\ Len(q) \in Nat \ {0}
        /\ Head(q) = q[1] /\ q[1] \in Nat
        /\ \A k \in 1 .. Len(q) - 1 : u[k] = q[k + 1]
    BY <1>1, <1>3
  <2>2. q[1] = Len(p)
    BY <1>1, <2>1 DEF Successive
  <2>3. /\ r \in Seq(Nat) /\ Len(r) = Len(p) + 1
        /\ \A k \in 1 .. Len(p) : r[k] = p[k]
        /\ r[Len(p) + 1] = Len(p)
    BY <1>1, <2>1, <2>2
  <2> HIDE DEF r, u
  <2>4. \A k \in 1 .. Len(r) : r[k] = k - 1
    <3>1. \A k \in 1 .. Len(p) : p[k] = k - 1
      BY DEF Successive
    <3>2. \A k \in 1 .. Len(r) : k \in 1 .. Len(p) \/ k = Len(p) + 1
      BY <1>1, <2>3
    <3>3. (Len(p) + 1) - 1 = Len(p)
      BY <1>1
    <3> QED
      BY <2>3, <3>1, <3>2, <3>3
  <2>5. \A k \in 1 .. Len(u) : u[k] = Len(r) + k - 1
    <3> SUFFICES ASSUME NEW k \in 1 .. Len(u) PROVE u[k] = Len(r) + k - 1
      OBVIOUS
    <3>1. k + 1 \in 1 .. Len(q) /\ u[k] = q[k + 1]
      BY <1>1, <2>1
    <3>2. q[k + 1] = Len(p) + (k + 1) - 1
      BY <3>1 DEF Successive
    <3> QED
      BY <1>1, <2>3, <3>1, <3>2
  <2>6. Successive(r, u) /\ Len(r) + Len(u) = Len(p) + Len(q)
    BY <1>1, <2>1, <2>3, <2>4, <2>5 DEF Successive
  <2> QED
    BY <2>6 DEF r, u
<1>4. Len(p) + Len(q) \in Nat
  BY <1>1
<1> QED
  BY <1>2, <1>3, <1>4, Zenon

LEMMA LineKept ==
  ASSUME LineInv, NEW t, producer(t) \/ consumer(t)
  PROVE  LineInv'
<1> USE DEF LineInv
<1>1. CASE Guarded(t, 33, "p_mtx", [mem EXCEPT !.q = Append(@, mem.i), !.i = @ + 1], 33)
  <2>1. /\ DOMAIN mem' = DOMAIN mem /\ mem'.popped = mem.popped
        /\ mem'.q = Append(mem.q, mem.i) /\ mem'.i = mem.i + 1
    BY <1>1 DEF Guarded, Step
  <2>2. /\ Successive(mem.popped, Append(mem.q, mem.i))
        /\ Len(Append(mem.q, mem.i)) = Len(mem.q) + 1
        /\ Len(mem.popped) \in Nat /\ Len(mem.q) \in Nat
    BY LineStep DEF Successive
  <2> QED
    BY <2>1, <2>2
<1>2. CASE Guarded(t, 33, "p_mtx", [mem EXCEPT !.finished = TRUE], End)
  BY <1>2 DEF Guarded, Step
<1>3. CASE \/ Test(t, 42, mem.finished, End, 44) \/ Lock(t, 44, "p_mtx", 45)
           \/ Unlock(t, 45, {"p_mtx"}, mem, 42)
  BY <1>3 DEF Test, Step, Lock, LockAll, Unlock
<1>4. CASE /\ mem.q # <<>>
           /\ Step(t, 45, [mem EXCEPT !.q = Tail(@), !.popped = Append(@, Head(mem.q))], 45)
  <2>1. /\ DOMAIN mem' = DOMAIN mem /\ mem'.i = mem.i
        /\ mem'.q = Tail(mem.q) /\ mem'.popped = Append(mem.popped, Head(mem.q))
    BY <1>4 DEF Step
  <2>2. /\ Successive(Append(mem.popped, Head(mem.q)), Tail(mem.q))
        /\ Len(Append(mem.popped, Head(mem.q))) + Len(Tail(mem.q)) = Len(mem.popped) + Len(mem.q)
    BY <1>4, LineStep
  <2> QED
    BY <2>1, <2>2
<1> QED
  BY <1>1, <1>2, <1>3, <1>4 DEF producer, consumer

\* What a thread has been served.
Got(got, t) == {got[t]} \ {Null}

LEMMA ServedCount ==
  ASSUME NEW got, NEW t
  PROVE  /\ got[t] = Null => Got(got, t) = {} /\ Cardinality(Got(got, t)) = 0
         /\ got[t] # Null => Got(got, t) = {got[t]} /\ Cardinality(Got(got, t)) = 1
<1>1. got[t] = Null => Got(got, t) = {}
  BY DEF Got
<1>2. got[t] # Null => Got(got, t) = {got[t]}
  BY DEF Got
<1> QED
  BY <1>1, <1>2, FS_EmptySet, FS_Singleton

\* An element goes from the container to who takes it.
LEMMA TakenOnce ==
  ASSUME NEW S, Null \notin S, NEW s \in Seq(S), s # <<>>, NEW elements,
         NEW got \in [1 .. 5 -> S \cup {Null}], NEW t \in 4 .. 5, got[t] = Null,
         EachOnce(elements, Contents(s) \cup Got(got, 4) \cup Got(got, 5),
                  Len(s) + Cardinality(Got(got, 4)) + Cardinality(Got(got, 5))),
         NEW after, after = [got EXCEPT ![t] = Head(s)]
  PROVE  EachOnce(elements, Contents(Tail(s)) \cup Got(after, 4) \cup Got(after, 5),
                  Len(Tail(s)) + Cardinality(Got(after, 4)) + Cardinality(Got(after, 5)))
<1>1. /\ Len(Tail(s)) = Len(s) - 1 /\ Len(s) \in Nat /\ Head(s) \in S
      /\ Contents(s) = Contents(Tail(s)) \cup {Head(s)}
  BY ContentsBehindHead
<1>2. PICK u \in 4 .. 5 : {t, u} = {4, 5} /\ t # u
  <2>1. t = 4 \/ t = 5
    OBVIOUS
  <2> QED
    BY <2>1
<1>3. after[t] = Head(s) /\ after[u] = got[u] /\ Head(s) # Null
  BY <1>1, <1>2
<1>4. Got(after, t) = {Head(s)} /\ Cardinality(Got(after, t)) = 1
  BY <1>3, ServedCount
<1>5. Got(got, t) = {} /\ Cardinality(Got(got, t)) = 0
  BY ServedCount
<1>6. Got(after, u) = Got(got, u)
  BY <1>3 DEF Got
<1>7. Cardinality(Got(got, u)) \in Nat
  BY ServedCount
<1>8. Contents(s) \cup Got(got, 4) \cup Got(got, 5)
        = Contents(Tail(s)) \cup Got(after, 4) \cup Got(after, 5)
  BY <1>1, <1>2, <1>4, <1>5, <1>6
<1>9. Len(s) + Cardinality(Got(got, 4)) + Cardinality(Got(got, 5))
        = Len(Tail(s)) + Cardinality(Got(after, 4)) + Cardinality(Got(after, 5))
  <2> DEFINE n == Cardinality(Got(got, u))
  <2>1. (t = 4 /\ u = 5) \/ (t = 5 /\ u = 4)
    BY <1>2
  <2>2. Cardinality(Got(after, u)) = n
    BY <1>6
  <2>3. \/ /\ Cardinality(Got(got, 4)) = 0 /\ Cardinality(Got(got, 5)) = n
           /\ Cardinality(Got(after, 4)) = 1 /\ Cardinality(Got(after, 5)) = n
        \/ /\ Cardinality(Got(got, 4)) = n /\ Cardinality(Got(got, 5)) = 0
           /\ Cardinality(Got(after, 4)) = n /\ Cardinality(Got(after, 5)) = 1
    BY <1>4, <1>5, <2>1, <2>2, Zenon
  <2> HIDE DEF n
  <2>4. n \in Nat
    BY <1>7 DEF n
  <2> QED
    BY <1>1, <2>3, <2>4
<1> QED
  BY <1>8, <1>9, Zenon DEF EachOnce

\* A new element comes into the container.
LEMMA GivenOnce ==
  ASSUME NEW elements, IsFiniteSet(elements), NEW v, v \notin elements,
         NEW s, NEW r, NEW A, NEW n \in Nat, NEW k \in Nat,
         EachOnce(elements, Contents(s) \cup A, k + n),
         Contents(r) = Contents(s) \cup {v}
  PROVE  EachOnce(elements \cup {v}, Contents(r) \cup A, (k + 1) + n)
<1>1. Cardinality(elements \cup {v}) = Cardinality(elements) + 1
  BY FS_AddElement
<1> QED
  BY <1>1 DEF EachOnce

LEMMA ServedKept ==
  ASSUME LockInv, ServedInv, program \in {"thread_safe_queue", "thread_safe_queue_pop"},
         NEW t \in Thread, push(t) \/ pop(t) \/ wait_pop(t)
  PROVE  ServedInv'
<1> USE DEF Goto, At, Thread, Ended, End
<1>0. /\ Thread = 1 .. 5
      /\ DOMAIN mem = {"queue", "got"}
      /\ mem.queue \in Seq(1 .. 3) /\ mem.got \in [1 .. 5 -> 0 .. 3]
      /\ \A u \in 1 .. 3 : pc[u] \in {12, 13, 15, End}
      /\ \A u \in 4 .. 5 : pc[u] \in {38, 39, 42, 25, End}
      /\ t \in 1 .. 5
  BY DEF ServedInv
<1> DEFINE q == mem.queue
           got == mem.got
           taken == Cardinality(Got(got, 4)) + Cardinality(Got(got, 5))
<1>a. EachOnce(Pushed({15, End}), Contents(q) \cup Got(got, 4) \cup Got(got, 5),
                Len(q) + Cardinality(Got(got, 4)) + Cardinality(Got(got, 5)))
  BY DEF ServedInv, Served, Got
<1>b. ASSUME pc' = [pc EXCEPT ![t] = pc'[t]], mem' = mem,
             \/ t \in 1 .. 3 /\ pc[t] = 12 /\ pc'[t] = 13
             \/ t \in 1 .. 3 /\ pc[t] = 15 /\ pc'[t] = End
             \/ t \in 4 .. 5 /\ pc[t] # End /\ pc'[t] = End
             \/ t \in 4 .. 5 /\ pc[t] # End /\ pc'[t] = 39
             \/ t \in 4 .. 5 /\ pc[t] # End /\ pc'[t] = 42 /\ q # <<>>
      PROVE  ServedInv'
  <2>1. Pushed({15, End})' = Pushed({15, End})
    BY <1>0, <1>b DEF Pushed
  <2>2. Served(4)' = Served(4) /\ Served(5)' = Served(5)
    BY <1>b DEF Served
  <2>3. EachOnce(Pushed({15, End}), Contents(q) \cup Served(4) \cup Served(5),
                 Len(q) + Cardinality(Served(4)) + Cardinality(Served(5)))'
    BY <1>b, <2>1, <2>2 DEF ServedInv
  <2> QED
    BY <1>0, <1>b, <2>3 DEF ServedInv
<1>c. ASSUME t \in 4 .. 5, pc[t] \in {25, 42}, q # <<>>, pc' = [pc EXCEPT ![t] = End],
             mem' = [mem EXCEPT !.queue = Tail(@), !.got[t] = Head(mem.queue)],
             \A u \in 4 .. 5 \ {t} : pc[u] # 42
      PROVE  ServedInv'
  <2>1. /\ DOMAIN mem' = DOMAIN mem /\ mem'.queue = Tail(q)
        /\ mem'.got = [got EXCEPT ![t] = Head(q)]
    BY <1>0, <1>c
  <2>2. Tail(q) \in Seq(1 .. 3) /\ Head(q) \in 1 .. 3
    BY <1>0, <1>c, ContentsBehindHead
  <2>3. Pushed({15, End})' = Pushed({15, End})
    BY <1>0, <1>c DEF Pushed
  <2>4. got[t] = Null
    BY <1>c DEF ServedInv
  <2>5. EachOnce(Pushed({15, End}), Contents(Tail(q)) \cup Got(mem'.got, 4) \cup Got(mem'.got, 5),
                 Len(Tail(q)) + Cardinality(Got(mem'.got, 4)) + Cardinality(Got(mem'.got, 5)))
    <3>1. 0 .. 3 = (1 .. 3) \cup {Null} /\ Null \notin 1 .. 3
      BY DEF Null
    <3>2. got \in [1 .. 5 -> (1 .. 3) \cup {Null}]
      BY <1>0, <3>1
    <3>3. q \in Seq(1 .. 3) /\ q # <<>>
      BY <1>0, <1>c
    <3> DEFINE after == mem'.got
    <3>4. after = [got EXCEPT ![t] = Head(q)]
      BY <2>1
    <3> HIDE DEF q, got, after
    <3>5. EachOnce(Pushed({15, End}), Contents(Tail(q)) \cup Got(after, 4) \cup Got(after, 5),
                   Len(Tail(q)) + Cardinality(Got(after, 4)) + Cardinality(Got(after, 5)))
      BY <1>a, <1>c, <2>4, <3>1, <3>2, <3>3, <3>4, TakenOnce
    <3> QED
      BY <3>5 DEF after
  <2>6. EachOnce(Pushed({15, End}), Contents(q) \cup Served(4) \cup Served(5),
                 Len(q) + Cardinality(Served(4)) + Cardinality(Served(5)))'
    BY <2>1, <2>3, <2>5 DEF Served, Got
  <2> QED
    BY <1>0, <1>c, <2>1, <2>2, <2>6 DEF ServedInv
<1>d. \A u, v \in 4 .. 5 :
        pc[u] = 42 /\ (pc[v] = 42 \/ owner["mut"] = Nobody) => u = v /\ owner["mut"] # Nobody
  <2>1. \A u \in Thread : pc[u] = 42 => owner["mut"] = u
    <3>1. \A u \in Thread : Holds(u, {13, 15, 42}, {"mut"})
      BY DEF LockInv, LocksHeld
    <3> QED
      BY <3>1 DEF Holds
  <2>2. \A u \in 4 .. 5 : u \in Thread /\ u # Nobody
    BY <1>0 DEF Nobody
  <2> QED
    BY <2>1, <2>2
<1>1. CASE Lock(t, 12, "mut", 13) \/ Unlock(t, 15, {"mut"}, mem, End)
  <2>1. /\ mem' = mem
        /\ \/ pc[t] = 12 /\ pc' = [pc EXCEPT ![t] = 13]
           \/ pc[t] = 15 /\ pc' = [pc EXCEPT ![t] = End]
    BY <1>1 DEF Lock, LockAll, Unlock
  <2>2. t \in 1 .. 3
    BY <1>0, <2>1
  <2>3. /\ (pc[t] = 12 /\ pc'[t] = 13) \/ (pc[t] = 15 /\ pc'[t] = End)
        /\ pc' = [pc EXCEPT ![t] = pc'[t]]
    BY <2>1
  <2> QED
    BY <1>b, <2>1, <2>2, <2>3
<1>2. CASE NotifyOne(t, 13, "cv", [mem EXCEPT !.queue = Append(@, t)], 15)
  <2>1. /\ pc[t] = 13 /\ pc' = [pc EXCEPT ![t] = 15]
        /\ mem' = [mem EXCEPT !.queue = Append(@, t)]
    BY <1>2 DEF NotifyOne, Wake, Step
  <2>2. /\ DOMAIN mem' = DOMAIN mem /\ mem'.queue = Append(q, t) /\ mem'.got = got
        /\ t \in 1 .. 3
    BY <1>0, <2>1
  <2>3. /\ Append(q, t) \in Seq(1 .. 3) /\ Len(Append(q, t)) = Len(q) + 1
        /\ Contents(Append(q, t)) = Contents(q) \cup {t}
    <3>1. q \in Seq(1 .. 3)
      BY <1>0
    <3> QED
      BY <2>2, <3>1, ContentsAppended
  <2>4. Pushed({15, End})' = Pushed({15, End}) \cup {t} /\ t \notin Pushed({15, End})
    BY <1>0, <2>1, <2>2 DEF Pushed
  <2>5. IsFiniteSet(Pushed({15, End}))
    <3>1. Pushed({15, End}) \subseteq 1 .. 3
      BY DEF Pushed
    <3>2. IsFiniteSet(1 .. 3)
      <4>1. 1 \in Int /\ 3 \in Int
        OBVIOUS
      <4> QED
        BY <4>1, FS_Interval
    <3> QED
      BY <3>1, <3>2, FS_Subset
  <2>6. EachOnce(Pushed({15, End}) \cup {t},
                 Contents(Append(q, t)) \cup (Got(got, 4) \cup Got(got, 5)),
                 (Len(q) + 1) + taken)
    <3>1. taken \in Nat /\ Len(q) \in Nat
      BY <1>0, ServedCount
    <3>2. EachOnce(Pushed({15, End}), Contents(q) \cup (Got(got, 4) \cup Got(got, 5)),
                   Len(q) + taken)
      <4>1. Cardinality(Got(got, 4)) \in Nat /\ Cardinality(Got(got, 5)) \in Nat
        BY ServedCount
      <4> QED
        BY <1>a, <3>1, <4>1 DEF EachOnce
    <3> HIDE DEF q, taken
    <3> QED
      BY <2>3, <2>4, <2>5, <3>1, <3>2, GivenOnce
  <2>7. EachOnce(Pushed({15, End}), Contents(q) \cup Served(4) \cup Served(5),
                 Len(q) + Cardinality(Served(4)) + Cardinality(Served(5)))'
    <3>1. Served(4)' = Got(got, 4) /\ Served(5)' = Got(got, 5)
      BY <2>2 DEF Served, Got
    <3>2. Cardinality(Got(got, 4)) \in Nat /\ Cardinality(Got(got, 5)) \in Nat /\ Len(q) \in Nat
      BY <1>0, ServedCount
    <3>3. (Contents(q) \cup Served(4) \cup Served(5))'
            = Contents(Append(q, t)) \cup (Got(got, 4) \cup Got(got, 5))
      BY <2>2, <3>1
    <3>4. (Len(q) + Cardinality(Served(4)) + Cardinality(Served(5)))' = (Len(q) + 1) + taken
      BY <2>2, <2>3, <3>1, <3>2
    <3> QED
      BY <2>4, <2>6, <3>3, <3>4 DEF EachOnce
  <2>8. \A u \in 4 .. 5 : pc'[u] = 42 => pc[u] = 42 /\ mem'.queue # <<>>
    BY <1>0, <2>1, <2>2, <2>3
  <2> QED
    BY <1>0, <2>1, <2>2, <2>3, <2>7, <2>8 DEF ServedInv
<1>3. CASE pop(t)
  <2>1. /\ pc[t] = 25 /\ pc' = [pc EXCEPT ![t] = End] /\ owner["mut"] = Nobody
        /\ mem' = IF mem.queue = <<>> THEN mem
                  ELSE [mem EXCEPT !.queue = Tail(@), !.got[t] = Head(mem.queue)]
    BY <1>3 DEF pop, Guarded, Step, Free
  <2>2. t \in 4 .. 5 /\ \A u \in 4 .. 5 \ {t} : pc[u] # 42
    BY <1>0, <1>d, <2>1
  <2>3. CASE q = <<>>
    <3>1. mem' = mem
      BY <2>1, <2>3
    <3>2. t \in DOMAIN pc /\ pc[t] = 25 /\ pc' = [pc EXCEPT ![t] = End]
      BY <2>1
    <3>3. pc'[t] = End /\ pc' = [pc EXCEPT ![t] = pc'[t]] /\ pc[t] # End
      BY <3>2
    <3> QED
      BY <1>b, <2>2, <3>1, <3>3
  <2>4. CASE q # <<>>
    BY <1>c, <2>1, <2>2, <2>4
  <2> QED
    BY <2>3, <2>4
<1>4. CASE Lock(t, 38, "mut", 39)
  <2>1. pc[t] = 38 /\ pc' = [pc EXCEPT ![t] = 39] /\ mem' = mem
    BY <1>4 DEF Lock, LockAll
  <2>2. t \in 4 .. 5
    BY <1>0, <2>1
  <2>3. pc[t] # End /\ pc'[t] = 39 /\ pc' = [pc EXCEPT ![t] = pc'[t]]
    BY <2>1
  <2> QED
    BY <1>b, <2>1, <2>2, <2>3
<1>5. CASE WaitUntil(t, 39, "cv", "mut", mem.queue # <<>>, 42)
  <2>1. /\ pc[t] = 39 /\ mem' = mem
        /\ \/ pc' = [pc EXCEPT ![t] = 42] /\ q # <<>>
           \/ pc' = [pc EXCEPT ![t] = 39]
    BY <1>5 DEF WaitUntil, Await, Step, SleepOn, Lock, LockAll
  <2>2. t \in 4 .. 5 /\ pc[t] # End
    BY <1>0, <2>1
  <2>3. pc'[t] = 39 \/ (pc'[t] = 42 /\ q # <<>>)
    BY <2>1
  <2>4. pc' = [pc EXCEPT ![t] = pc'[t]]
    BY <2>1
  <2>5. mem' = mem
    BY <2>1
  <2> QED
    BY <1>b, <2>2, <2>3, <2>4, <2>5
<1>6. CASE Unlock(t, 42, {"mut"},
                  [mem EXCEPT !.queue = Tail(@), !.got[t] = Head(mem.queue)], End)
  <2>1. /\ pc[t] = 42 /\ pc' = [pc EXCEPT ![t] = End]
        /\ mem' = [mem EXCEPT !.queue = Tail(@), !.got[t] = Head(mem.queue)]
    BY <1>6 DEF Unlock
  <2>2. t \in 4 .. 5 /\ \A u \in 4 .. 5 \ {t} : pc[u] # 42
    BY <1>0, <1>d, <2>1
  <2>3. q # <<>>
    BY <2>1, <2>2 DEF ServedInv
  <2> QED
    BY <1>c, <2>1, <2>2, <2>3
<1> QED
  BY <1>1, <1>2, <1>3, <1>4, <1>5, <1>6 DEF push, wait_pop

LEMMA StackedKept ==
  ASSUME StackedInv, NEW t \in Thread, stack_push(t) \/ stack_pop(t)
  PROVE  StackedInv'
<1> USE DEF Goto, At, Thread, Ended, End
<1>0. /\ Thread = 1 .. 5
      /\ DOMAIN mem = {"_stack", "got", "thrown"}
      /\ mem._stack \in Seq(1 .. 3) /\ mem.got \in [1 .. 5 -> 0 .. 3]
      /\ \A u \in 1 .. 3 : pc[u] \in {5, End}
      /\ \A u \in 4 .. 5 : pc[u] \in {19, End}
      /\ t \in 1 .. 5
  BY DEF StackedInv
<1> DEFINE s == mem._stack
           got == mem.got
           taken == Cardinality(Got(got, 4)) + Cardinality(Got(got, 5))
<1>1. EachOnce(Pushed({End}), Contents(s) \cup Got(got, 4) \cup Got(got, 5),
                Len(s) + Cardinality(Got(got, 4)) + Cardinality(Got(got, 5)))
  BY DEF StackedInv, Served, Got
<1>2. CASE stack_push(t)
  <2>1. pc[t] = 5 /\ pc' = [pc EXCEPT ![t] = End] /\ mem' = [mem EXCEPT !._stack = <<t>> \o @]
    BY <1>2 DEF stack_push, Guarded, Step
  <2>2. DOMAIN mem' = DOMAIN mem /\ mem'._stack = <<t>> \o s /\ mem'.got = got
    BY <1>0, <2>1
  <2>3. t \in 1 .. 3
    BY <1>0, <2>1
  <2>4. /\ <<t>> \o s \in Seq(1 .. 3) /\ Len(<<t>> \o s) = Len(s) + 1
        /\ Contents(<<t>> \o s) = Contents(s) \cup {t}
    BY <1>0, <2>3, ContentsPrepended
  <2>5. Pushed({End})' = Pushed({End}) \cup {t} /\ t \notin Pushed({End})
    BY <1>0, <2>1, <2>3 DEF Pushed
  <2>6. IsFiniteSet(Pushed({End}))
    <3>1. Pushed({End}) \subseteq 1 .. 3
      BY DEF Pushed
    <3>2. IsFiniteSet(1 .. 3)
      <4>1. 1 \in Int /\ 3 \in Int
        OBVIOUS
      <4> QED
        BY <4>1, FS_Interval
    <3> QED
      BY <3>1, <3>2, FS_Subset
  <2>7. /\ Cardinality(Got(got, 4)) \in Nat /\ Cardinality(Got(got, 5)) \in Nat /\ Len(s) \in Nat
        /\ taken \in Nat
    BY <1>0, ServedCount
  <2>8. EachOnce(Pushed({End}) \cup {t}, Contents(<<t>> \o s) \cup (Got(got, 4) \cup Got(got, 5)),
                 (Len(s) + 1) + taken)
    <3>1. EachOnce(Pushed({End}), Contents(s) \cup (Got(got, 4) \cup Got(got, 5)), Len(s) + taken)
      BY <1>1, <2>7 DEF EachOnce
    <3> HIDE DEF s, taken
    <3> QED
      BY <2>4, <2>5, <2>6, <2>7, <3>1, GivenOnce
  <2>9. EachOnce(Pushed({End}), Contents(s) \cup Served(4) \cup Served(5),
                 Len(s) + Cardinality(Served(4)) + Cardinality(Served(5)))'
    <3>1. Served(4)' = Got(got, 4) /\ Served(5)' = Got(got, 5)
      BY <2>2 DEF Served, Got
    <3>2. (Contents(s) \cup Served(4) \cup Served(5))'
            = Contents(<<t>> \o s) \cup (Got(got, 4) \cup Got(got, 5))
      BY <2>2, <3>1
    <3>3. (Len(s) + Cardinality(Served(4)) + Cardinality(Served(5)))' = (Len(s) + 1) + taken
      BY <2>2, <2>4, <2>7, <3>1
    <3> QED
      BY <2>5, <2>8, <3>2, <3>3 DEF EachOnce
  <2> QED
    BY <1>0, <2>1, <2>2, <2>3, <2>4, <2>9 DEF StackedInv
<1>3. CASE stack_pop(t) /\ s = <<>>
  <2>1. /\ pc[t] = 19 /\ pc' = [pc EXCEPT ![t] = End]
        /\ mem' = [mem EXCEPT !.thrown = @ \cup {t}]
    BY <1>3 DEF stack_pop, Guarded, Step
  <2>2. DOMAIN mem' = DOMAIN mem /\ mem'._stack = s /\ mem'.got = got
    BY <1>0, <2>1
  <2>3. t \in 4 .. 5
    BY <1>0, <2>1
  <2>4. Pushed({End})' = Pushed({End})
    BY <1>0, <2>1, <2>3 DEF Pushed
  <2>5. EachOnce(Pushed({End}), Contents(s) \cup Served(4) \cup Served(5),
                 Len(s) + Cardinality(Served(4)) + Cardinality(Served(5)))'
    BY <1>1, <2>2, <2>4 DEF Served, Got
  <2> QED
    BY <1>0, <2>1, <2>2, <2>3, <2>5 DEF StackedInv
<1>4. CASE stack_pop(t) /\ s # <<>>
  <2>1. /\ pc[t] = 19 /\ pc' = [pc EXCEPT ![t] = End]
        /\ mem' = [mem EXCEPT !._stack = Tail(@), !.got[t] = Head(mem._stack)]
    BY <1>4 DEF stack_pop, Guarded, Step
  <2>2. /\ DOMAIN mem' = DOMAIN mem /\ mem'._stack = Tail(s)
        /\ mem'.got = [got EXCEPT ![t] = Head(s)]
    BY <1>0, <2>1
  <2>3. Tail(s) \in Seq(1 .. 3) /\ Head(s) \in 1 .. 3
    BY <1>0, <1>4, ContentsBehindHead
  <2>4. t \in 4 .. 5
    BY <1>0, <2>1
  <2>5. Pushed({End})' = Pushed({End})
    BY <1>0, <2>1, <2>4 DEF Pushed
  <2>6. got[t] = Null
    BY <2>1, <2>4 DEF StackedInv
  <2>7. EachOnce(Pushed({End}), Contents(Tail(s)) \cup Got(mem'.got, 4) \cup Got(mem'.got, 5),
                 Len(Tail(s)) + Cardinality(Got(mem'.got, 4)) + Cardinality(Got(mem'.got, 5)))
    <3>1. 0 .. 3 = (1 .. 3) \cup {Null} /\ Null \notin 1 .. 3
      BY DEF Null
    <3>2. got \in [1 .. 5 -> (1 .. 3) \cup {Null}]
      BY <1>0, <3>1
    <3>3. s \in Seq(1 .. 3) /\ s # <<>>
      BY <1>0, <1>4
    <3> DEFINE after == mem'.got
    <3>4. after = [got EXCEPT ![t] = Head(s)]
      BY <2>2
    <3> HIDE DEF s, got, after
    <3>5. EachOnce(Pushed({End}), Contents(Tail(s)) \cup Got(after, 4) \cup Got(after, 5),
                   Len(Tail(s)) + Cardinality(Got(after, 4)) + Cardinality(Got(after, 5)))
      BY <1>1, <2>4, <2>6, <3>1, <3>2, <3>3, <3>4, TakenOnce
    <3> QED
      BY <3>5 DEF after
  <2>8. EachOnce(Pushed({End}), Contents(s) \cup Served(4) \cup Served(5),
                 Len(s) + Cardinality(Served(4)) + Cardinality(Served(5)))'
    BY <2>2, <2>5, <2>7 DEF Served, Got
  <2> QED
    BY <1>0, <2>1, <2>2, <2>3, <2>4, <2>8 DEF StackedInv
<1> QED
  BY <1>2, <1>3, <1>4

LEMMA JobQueued ==
  ASSUME NEW n \in Nat, NEW q \in Seq(1 .. n), Distinct(q)
  PROVE  /\ Append(q, n + 1) \in Seq(1 .. n + 1) /\ Distinct(Append(q, n + 1))
         /\ Len(Append(q, n + 1)) = Len(q) + 1 /\ Append(q, n + 1) # <<>>
         /\ Contents(Append(q, n + 1)) = Contents(q) \cup {n + 1}
         /\ Contents(q) \subseteq 1 .. n
<1> DEFINE r == Append(q, n + 1)
<1>1. 1 .. n \subseteq 1 .. n + 1 /\ n + 1 \in 1 .. n + 1 /\ n + 1 \notin 1 .. n
  OBVIOUS
<1>2. Len(q) \in Nat /\ \A k \in 1 .. Len(q) : q[k] \in 1 .. n
  OBVIOUS
<1>3. q \in Seq(1 .. n + 1)
  BY <1>1, SeqMonotonic
<1>4. /\ r \in Seq(1 .. n + 1) /\ Len(r) = Len(q) + 1
      /\ \A k \in 1 .. Len(q) : r[k] = q[k]
      /\ r[Len(q) + 1] = n + 1
  BY <1>1, <1>3, AppendProperties
<1>5. Contents(r) = Contents(q) \cup {n + 1}
  BY <1>1, <1>3, ContentsAppended
<1> HIDE DEF r
<1>6. \A k \in 1 .. Len(r) : k \in 1 .. Len(q) \/ k = Len(q) + 1
  BY <1>2, <1>4
<1>7. Distinct(r)
  <2> SUFFICES ASSUME NEW k \in 1 .. Len(r), NEW l \in 1 .. Len(r), r[k] = r[l]
               PROVE  k = l
    BY DEF Distinct
  <2>1. \A i \in 1 .. Len(q) : r[i] # r[Len(q) + 1]
    BY <1>1, <1>2, <1>4
  <2>2. CASE k = Len(q) + 1
    BY <1>6, <2>1, <2>2
  <2>3. CASE l = Len(q) + 1
    BY <1>6, <2>1, <2>3
  <2>4. CASE k \in 1 .. Len(q) /\ l \in 1 .. Len(q)
    BY <1>4, <2>4 DEF Distinct
  <2> QED
    BY <1>6, <2>2, <2>3, <2>4
<1>8. r # <<>>
  BY <1>2, <1>4
<1>9. Contents(q) \subseteq 1 .. n
  BY <1>2 DEF Contents
<1> QED
  BY <1>4, <1>5, <1>7, <1>8, <1>9 DEF r

LEMMA JobTaken ==
  ASSUME NEW S, NEW q \in Seq(S), Distinct(q), q # <<>>
  PROVE  /\ Tail(q) \in Seq(S) /\ Distinct(Tail(q))
         /\ Len(Tail(q)) = Len(q) - 1 /\ Len(q) \in Nat \ {0}
         /\ Head(q) \in S
         /\ Contents(q) = Contents(Tail(q)) \cup {Head(q)}
         /\ Head(q) \notin Contents(Tail(q))
<1> DEFINE r == Tail(q)
<1>1. /\ r \in Seq(S) /\ Len(r) = Len(q) - 1 /\ Len(q) \in Nat \ {0} /\ Head(q) \in S
      /\ Contents(q) = Contents(r) \cup {Head(q)}
  BY ContentsBehindHead
<1>2. Head(q) = q[1] /\ \A k \in 1 .. Len(r) : r[k] = q[k + 1]
  BY <1>1
<1> HIDE DEF r
<1>3. \A k \in 1 .. Len(r) : k + 1 \in 1 .. Len(q) /\ k + 1 # 1
  BY <1>1
<1>4. Distinct(r)
  <2> SUFFICES ASSUME NEW k \in 1 .. Len(r), NEW l \in 1 .. Len(r), r[k] = r[l]
               PROVE  k = l
    BY DEF Distinct
  <2>1. k + 1 = l + 1
    BY <1>2, <1>3 DEF Distinct
  <2> QED
    BY <1>1, <2>1
<1>5. Head(q) \notin Contents(r)
  <2>1. DOMAIN r = 1 .. Len(r) /\ 1 \in 1 .. Len(q)
    BY <1>1
  <2> QED
    BY <1>2, <1>3, <2>1 DEF Contents, Distinct
<1> QED
  BY <1>1, <1>4, <1>5 DEF r


LEMMA AccountedQueued ==
  ASSUME NEW n \in Nat, NEW queue, NEW completed, NEW checksum, NEW hand, NEW other,
         Accounted(n, queue, completed, checksum, hand, other)
  PROVE  /\ Accounted(n + 1, Append(queue, n + 1), completed, checksum, hand, other)
         /\ Append(queue, n + 1) # <<>>
<1> DEFINE q == Append(queue, n + 1)
<1>1. /\ queue \in Seq(1 .. n) /\ Distinct(queue) /\ completed \in Nat
      /\ checksum \cup Contents(queue) \cup hand \cup other = 1 .. n
      /\ checksum \cap Contents(queue) = {} /\ hand \cap other = {}
      /\ (hand \cup other) \cap (checksum \cup Contents(queue)) = {}
      /\ completed + Size(hand) + Size(other) + Len(queue) = n
  BY DEF Accounted
<1>2. /\ q \in Seq(1 .. n + 1) /\ Distinct(q) /\ Len(q) = Len(queue) + 1 /\ q # <<>>
      /\ Contents(q) = Contents(queue) \cup {n + 1}
  BY <1>1, JobQueued
<1>3. Len(queue) \in Nat
  BY <1>1
<1> HIDE DEF q
<1>4. 1 .. n + 1 = (1 .. n) \cup {n + 1} /\ n + 1 \notin 1 .. n
  OBVIOUS
<1>5. completed + Size(hand) + Size(other) + Len(q) = n + 1
  <2>1. Size(hand) \in Nat /\ Size(other) \in Nat
    BY DEF Size
  <2>2. completed + Size(hand) + Size(other) + Len(queue) = n /\ completed \in Nat
    BY <1>1
  <2>3. Len(q) = Len(queue) + 1
    BY <1>2
  <2> QED
    BY <1>3, <2>1, <2>2, <2>3
<1>6. n + 1 \notin checksum /\ n + 1 \notin hand /\ n + 1 \notin other
  BY <1>1, <1>4
<1>7. /\ checksum \cup Contents(q) \cup hand \cup other = 1 .. n + 1
      /\ checksum \cap Contents(q) = {}
      /\ (hand \cup other) \cap (checksum \cup Contents(q)) = {}
  BY <1>1, <1>2, <1>4, <1>6
<1>8. Accounted(n + 1, q, completed, checksum, hand, other)
  BY <1>1, <1>2, <1>5, <1>7 DEF Accounted
<1> QED
  BY <1>2, <1>8 DEF q

LEMMA AccountedTaken ==
  ASSUME NEW n \in Nat, NEW queue, NEW completed, NEW checksum, NEW other,
         Accounted(n, queue, completed, checksum, {}, other), queue # <<>>
  PROVE  /\ Accounted(n, Tail(queue), completed, checksum, {Head(queue)}, other)
         /\ Head(queue) \in 1 .. n
<1> DEFINE q == Tail(queue)
           job == Head(queue)
<1>1. /\ queue \in Seq(1 .. n) /\ Distinct(queue) /\ completed \in Nat
      /\ checksum \cup Contents(queue) \cup {} \cup other = 1 .. n
      /\ checksum \cap Contents(queue) = {}
      /\ ({} \cup other) \cap (checksum \cup Contents(queue)) = {}
      /\ completed + Size({}) + Size(other) + Len(queue) = n
  BY DEF Accounted
<1>2. /\ q \in Seq(1 .. n) /\ Distinct(q)
      /\ Len(q) = Len(queue) - 1 /\ Len(queue) \in Nat \ {0}
      /\ job \in 1 .. n
      /\ Contents(queue) = Contents(q) \cup {job}
      /\ job \notin Contents(q)
  BY <1>1, JobTaken
<1> HIDE DEF q, job
<1>3. completed + Size({job}) + Size(other) + Len(q) = n
  <2>1. Size({}) = 0 /\ Size({job}) = 1 /\ Size(other) \in Nat
    BY DEF Size
  <2> QED
    BY <1>1, <1>2, <2>1
<1>4. /\ checksum \cup Contents(q) \cup {job} \cup other = 1 .. n
      /\ checksum \cap Contents(q) = {} /\ {job} \cap other = {}
      /\ ({job} \cup other) \cap (checksum \cup Contents(q)) = {}
  BY <1>1, <1>2
<1>5. Accounted(n, q, completed, checksum, {job}, other)
  BY <1>1, <1>2, <1>3, <1>4 DEF Accounted
<1> QED
  BY <1>2, <1>5 DEF q, job

LEMMA AccountedDone ==
  ASSUME NEW n \in Nat, NEW queue, NEW completed, NEW checksum, NEW job, NEW other,
         Accounted(n, queue, completed, checksum, {job}, other)
  PROVE  Accounted(n, queue, completed + 1, Xor(checksum, {job}), {}, other)
<1>1. /\ queue \in Seq(1 .. n) /\ Distinct(queue) /\ completed \in Nat
      /\ checksum \cup Contents(queue) \cup {job} \cup other = 1 .. n
      /\ checksum \cap Contents(queue) = {} /\ {job} \cap other = {}
      /\ ({job} \cup other) \cap (checksum \cup Contents(queue)) = {}
      /\ completed + Size({job}) + Size(other) + Len(queue) = n
  BY DEF Accounted
<1>2. Xor(checksum, {job}) = checksum \cup {job}
  BY <1>1 DEF Xor
<1>3. completed + 1 \in Nat /\ completed + 1 + Size({}) + Size(other) + Len(queue) = n
  <2>1. /\ Size({}) = 0 /\ Size({job}) = 1 /\ Size(other) \in Nat
        /\ Len(queue) \in Nat
    BY <1>1 DEF Size
  <2> QED
    BY <1>1, <2>1
<1>4. /\ (checksum \cup {job}) \cup Contents(queue) \cup {} \cup other = 1 .. n
      /\ (checksum \cup {job}) \cap Contents(queue) = {} /\ {} \cap other = {}
      /\ ({} \cup other) \cap ((checksum \cup {job}) \cup Contents(queue)) = {}
  BY <1>1
<1> QED
  BY <1>1, <1>2, <1>3, <1>4 DEF Accounted

LEMMA AccountedSwapped ==
  ASSUME NEW n \in Nat, NEW queue, NEW completed, NEW checksum, NEW hand, NEW other,
         Accounted(n, queue, completed, checksum, hand, other)
  PROVE  Accounted(n, queue, completed, checksum, other, hand)
<1>1. Size(hand) \in Nat /\ Size(other) \in Nat
  BY DEF Size
<1>2. /\ completed \in Nat /\ queue \in Seq(1 .. n)
      /\ completed + Size(hand) + Size(other) + Len(queue) = n
  BY DEF Accounted
<1>3. Len(queue) \in Nat
  BY <1>2
<1>4. completed + Size(other) + Size(hand) + Len(queue) = n
  BY <1>1, <1>2, <1>3
<1> QED
  BY <1>4 DEF Accounted

\* A step that leaves the jobs where they are.
LEMMA JobsSame ==
  ASSUME JobsInv,
         mem'.id \in Nat, Issued' = Issued, pc'[2] = 21 => mem'.id # 0,
         mem'.queue_ = mem.queue_, mem'.checksum_ = mem.checksum_, mem'.job = mem.job,
         mem'.completed_ = mem.completed_, mem.stop \subseteq mem'.stop,
         InHand(4)' = InHand(4), InHand(5)' = InHand(5),
         \A t \in {4, 5} : pc'[t] = 34 => pc[t] = 34 \/ t \in mem.stop \/ mem.queue_ # <<>>
  PROVE  JobsInv'
<1>1. \A t \in {4, 5} : pc'[t] = 34 => t \in mem'.stop \/ mem'.queue_ # <<>>
  BY DEF JobsInv
<1>2. Accounted(Issued', mem'.queue_, mem'.completed_, mem'.checksum_, InHand(4)', InHand(5)')
  BY DEF JobsInv
<1>3. mem'.job \in [1 .. 5 -> Nat]
  BY DEF JobsInv
<1> HIDE DEF Issued, InHand, Accounted
<1> QED
  BY <1>1, <1>2, <1>3 DEF JobsInv

LEMMA JobsMade ==
  ASSUME LateInv, JobsInv, program = "jthread_1", NEW t \in Thread, producerLoop(t)
  PROVE  JobsInv'
<1>1. pc[t] \in {93, 21, 24} /\ t \in 1 .. 5
  BY DEF producerLoop, push_job, Guarded, NotifyOne, Wake, Step, At, LateInv
<1>2. t = 2
  <2>1. t \in {1, 2, 3, 4, 5}
    BY <1>1
  <2> QED
    BY <1>1, <2>1 DEF LateInv, End
<1>3. 2 \in DOMAIN pc /\ 4 \in DOMAIN pc /\ 5 \in DOMAIN pc
  BY DEF LateInv, Thread
<1>4. DOMAIN mem = {"queue_", "job", "id", "completed_", "checksum_", "stop", "gone", "late"}
  BY DEF LateInv
<1>5. mem.id \in Nat /\ (pc[2] = 21 => mem.id # 0)
  BY DEF JobsInv
<1>6. ASSUME NEW line, pc' = [pc EXCEPT ![2] = line]
      PROVE  pc'[2] = line /\ pc'[4] = pc[4] /\ pc'[5] = pc[5]
  BY <1>3, <1>6
<1>7. CASE Step(2, 93, mem, End)
  <2>1. pc[2] = 93 /\ pc' = [pc EXCEPT ![2] = End] /\ mem' = mem
    BY <1>7 DEF Step, At, Goto
  <2>2. pc'[2] = End /\ pc'[4] = pc[4] /\ pc'[5] = pc[5]
    BY <1>6, <2>1
  <2>3. pc[2] # 21 /\ pc'[2] # 21
    BY <2>1, <2>2 DEF End
  <2> QED
    BY <1>5, <2>1, <2>2, <2>3, JobsSame DEF Issued, InHand, Working
<1>8. CASE Step(2, 93, [mem EXCEPT !.id = @ + 1], 21)
  <2>1. pc[2] = 93 /\ pc' = [pc EXCEPT ![2] = 21] /\ mem' = [mem EXCEPT !.id = @ + 1]
    BY <1>8 DEF Step, At, Goto
  <2>2. pc'[2] = 21 /\ pc'[4] = pc[4] /\ pc'[5] = pc[5]
    BY <1>6, <2>1
  <2>3. /\ mem'.id = mem.id + 1
        /\ mem'.queue_ = mem.queue_ /\ mem'.checksum_ = mem.checksum_ /\ mem'.job = mem.job
        /\ mem'.completed_ = mem.completed_ /\ mem'.stop = mem.stop
    BY <1>4, <2>1
  <2>4. Issued' = Issued /\ InHand(4)' = InHand(4) /\ InHand(5)' = InHand(5)
    BY <1>5, <2>1, <2>2, <2>3 DEF Issued, InHand, Working
  <2>5. mem'.id \in Nat /\ mem'.id # 0
    BY <1>5, <2>3
  <2> QED
    BY <2>2, <2>3, <2>4, <2>5, JobsSame
<1>9. CASE Step(2, 21, [Used(mem, {"queue_"}) EXCEPT !.queue_ = Append(@, mem.id)], 24)
  <2>1. pc[2] = 21 /\ pc' = [pc EXCEPT ![2] = 24]
    BY <1>9 DEF Step, At, Goto
  <2>2. pc'[2] = 24 /\ pc'[4] = pc[4] /\ pc'[5] = pc[5]
    BY <1>6, <2>1
  <2>3. /\ mem'.id = mem.id /\ mem'.queue_ = Append(mem.queue_, mem.id)
        /\ mem'.checksum_ = mem.checksum_ /\ mem'.job = mem.job
        /\ mem'.completed_ = mem.completed_ /\ mem'.stop = mem.stop
    BY <1>4, <1>9 DEF Step, Used
  <2>4. InHand(4)' = InHand(4) /\ InHand(5)' = InHand(5)
    BY <2>2, <2>3 DEF InHand, Working
  <2>5. Issued \in Nat /\ mem.id = Issued + 1 /\ Issued' = Issued + 1
    BY <1>5, <2>1, <2>2, <2>3 DEF Issued
  <2>6. Accounted(Issued, mem.queue_, mem.completed_, mem.checksum_, InHand(4), InHand(5))
    BY DEF JobsInv
  <2>7. mem.job \in [1 .. 5 -> Nat]
    BY DEF JobsInv
  <2> HIDE DEF Issued, InHand, Accounted
  <2>8. /\ Accounted(Issued + 1, Append(mem.queue_, Issued + 1), mem.completed_, mem.checksum_,
                     InHand(4), InHand(5))
        /\ Append(mem.queue_, Issued + 1) # <<>>
    BY <2>5, <2>6, AccountedQueued
  <2>9. Accounted(Issued', mem'.queue_, mem'.completed_, mem'.checksum_, InHand(4)', InHand(5)')
    BY <2>3, <2>4, <2>5, <2>8
  <2>10. mem'.queue_ # <<>> /\ mem'.id \in Nat /\ mem'.job \in [1 .. 5 -> Nat]
    BY <1>5, <2>3, <2>5, <2>7, <2>8
  <2> QED
    BY <2>2, <2>9, <2>10 DEF JobsInv
<1>10. CASE NotifyOne(2, 24, "cv_", Used(mem, {"queue_"}), 93)
  <2>1. pc[2] = 24 /\ pc' = [pc EXCEPT ![2] = 93] /\ mem' = Used(mem, {"queue_"})
    BY <1>10 DEF NotifyOne, Wake, Step, At, Goto
  <2>2. pc'[2] = 93 /\ pc'[4] = pc[4] /\ pc'[5] = pc[5]
    BY <1>6, <2>1
  <2>3. /\ mem'.id = mem.id
        /\ mem'.queue_ = mem.queue_ /\ mem'.checksum_ = mem.checksum_ /\ mem'.job = mem.job
        /\ mem'.completed_ = mem.completed_ /\ mem'.stop = mem.stop
    BY <1>4, <2>1 DEF Used
  <2>4. Issued' = Issued /\ InHand(4)' = InHand(4) /\ InHand(5)' = InHand(5)
    BY <2>1, <2>2, <2>3 DEF Issued, InHand, Working
  <2> QED
    BY <1>5, <2>2, <2>3, <2>4, JobsSame
<1> QED
  BY <1>2, <1>7, <1>8, <1>9, <1>10 DEF producerLoop, push_job, Guarded

LEMMA JobsUntouched ==
  ASSUME LateInv, JobsInv, program = "jthread_1", NEW t \in Thread,
         monitorLoop(t) \/ scheduler_main(t)
  PROVE  JobsInv'
<1>1. /\ pc[t] \in {135, 139, 142, 143, 158, 153, 1153, 152, 1152, 151, 1151, 2151, 3151, 149}
      /\ \E line : pc' = [pc EXCEPT ![t] = line]
      /\ \/ mem' = mem \/ mem' = Used(mem, {"queue_"})
         \/ mem' = Used(mem, {"resultMutex_", "completed_", "checksum_"})
         \/ \E g : mem' = [mem EXCEPT !.gone = g]
         \/ \E u : mem' = [mem EXCEPT !.stop = @ \cup {u}]
  <2>1. CASE monitorLoop(t)
    BY <2>1 DEF monitorLoop, Test, Step, Lock, LockAll, Guarded, Unlock, At, Goto
  <2>2. CASE scheduler_main(t)
    BY <2>2 DEF scheduler_main, workers_destroyed, RequestStop, joined, stopped, Step, Await, Wake,
                At, Goto
  <2> QED
    BY <2>1, <2>2
<1>2. t \in 1 .. 5
  BY DEF LateInv
<1>3. t \in {1, 3}
  <2>1. t \in {1, 2, 3, 4, 5}
    BY <1>2
  <2> QED
    BY <1>1, <2>1 DEF LateInv, End
<1>4. pc'[2] = pc[2] /\ pc'[4] = pc[4] /\ pc'[5] = pc[5]
  <2>1. 2 \in DOMAIN pc /\ 4 \in DOMAIN pc /\ 5 \in DOMAIN pc
    BY DEF LateInv, Thread
  <2> QED
    BY <1>1, <1>3, <2>1
<1>5. DOMAIN mem = {"queue_", "job", "id", "completed_", "checksum_", "stop", "gone", "late"}
  BY DEF LateInv
<1>6. /\ mem'.id = mem.id
      /\ mem'.queue_ = mem.queue_ /\ mem'.checksum_ = mem.checksum_ /\ mem'.job = mem.job
      /\ mem'.completed_ = mem.completed_ /\ mem.stop \subseteq mem'.stop
  BY <1>1, <1>5 DEF Used
<1>7. Issued' = Issued /\ InHand(4)' = InHand(4) /\ InHand(5)' = InHand(5)
  BY <1>4, <1>6 DEF Issued, InHand, Working
<1>8. mem.id \in Nat /\ (pc[2] = 21 => mem.id # 0)
  BY DEF JobsInv
<1> QED
  BY <1>4, <1>6, <1>7, <1>8, JobsSame

\* A worker's step, seen from the worker's hand and the other's.
LEMMA JobsInHand ==
  ASSUME JobsInv, NEW t \in {4, 5}, NEW o \in {4, 5}, o # t,
         pc'[t] # 34, pc'[o] = pc[o], pc'[2] = pc[2],
         mem'.job \in [1 .. 5 -> Nat], mem'.job[o] = mem.job[o],
         mem'.id = mem.id, mem'.stop = mem.stop,
         pc[o] = 34 => mem'.queue_ = mem.queue_,
         Accounted(Issued, mem'.queue_, mem'.completed_, mem'.checksum_, InHand(t)', InHand(o))
  PROVE  JobsInv'
<1>1. mem.id \in Nat /\ (pc[2] = 21 => mem.id # 0)
  BY DEF JobsInv
<1>5. Issued' = Issued /\ Issued \in Nat
  BY <1>1 DEF Issued
<1>6. InHand(o)' = InHand(o)
  BY DEF InHand, Working
<1>7. Accounted(Issued', mem'.queue_, mem'.completed_, mem'.checksum_, InHand(4)', InHand(5)')
  <2> HIDE DEF Accounted
  <2>1. CASE t = 4 /\ o = 5
    BY <1>5, <1>6, <2>1 DEF InHand, Working
  <2>2. CASE t = 5 /\ o = 4
    <3>1. InHand(5)' = InHand(t)' /\ InHand(4)' = InHand(4)
      BY <1>6, <2>2 DEF InHand, Working
    <3>2. Accounted(Issued, mem'.queue_, mem'.completed_, mem'.checksum_, InHand(5)', InHand(4))
      BY <2>2, <3>1 DEF InHand
    <3>3. Accounted(Issued, mem'.queue_, mem'.completed_, mem'.checksum_, InHand(4), InHand(5)')
      BY <1>5, <3>2, AccountedSwapped
    <3> QED
      BY <1>5, <3>1, <3>3
  <2> QED
    BY <2>1, <2>2
<1>8. pc'[t] # 34 /\ (pc'[o] = 34 => o \in mem'.stop \/ mem'.queue_ # <<>>)
  <2>1. pc[o] = 34 => o \in mem.stop \/ mem.queue_ # <<>>
    BY DEF JobsInv
  <2> QED
    BY <2>1
<1>9. \A u \in {4, 5} : pc'[u] = 34 => u \in mem'.stop \/ mem'.queue_ # <<>>
  BY <1>8
<1> HIDE DEF Issued, InHand, Accounted
<1> QED
  BY <1>1, <1>7, <1>9 DEF JobsInv

LEMMA JobsWorked ==
  ASSUME LockInv, LateInv, JobsInv, program = "jthread_1", NEW t \in Thread, workerLoop(t)
  PROVE  JobsInv'
<1>1. pc[t] \in {28, 30, 34, 121, 122} /\ t \in 1 .. 5 /\ \E line : pc' = [pc EXCEPT ![t] = line]
  BY DEF workerLoop, pop_job, Lock, LockAll, WaitUntil, Await, Step, SleepOn, Unlock, At, Goto,
         LateInv
<1>2. t \in {4, 5}
  <2>1. t \in {1, 2, 3, 4, 5}
    BY <1>1
  <2> QED
    BY <1>1, <2>1 DEF LateInv, End
<1>3. PICK o \in {4, 5} : o # t
  <2>1. 4 # 5
    OBVIOUS
  <2> QED
    BY <1>2, <2>1
<1>4. DOMAIN mem = {"queue_", "job", "id", "completed_", "checksum_", "stop", "gone", "late"}
  BY DEF LateInv
<1>5. 2 \in DOMAIN pc /\ 4 \in DOMAIN pc /\ 5 \in DOMAIN pc
  BY DEF LateInv, Thread
<1>6. /\ mem.id \in Nat /\ mem.job \in [1 .. 5 -> Nat] /\ (pc[2] = 21 => mem.id # 0)
      /\ Accounted(Issued, mem.queue_, mem.completed_, mem.checksum_, InHand(4), InHand(5))
      /\ pc[t] = 34 => t \in mem.stop \/ mem.queue_ # <<>>
      /\ Issued \in Nat
  <2>1. mem.id \in Nat /\ (pc[2] = 21 => mem.id # 0)
    BY DEF JobsInv
  <2>2. Issued \in Nat
    BY <2>1 DEF Issued
  <2> HIDE DEF Issued, InHand, Accounted
  <2> QED
    BY <1>2, <2>1, <2>2 DEF JobsInv
<1>7. Accounted(Issued, mem.queue_, mem.completed_, mem.checksum_, InHand(t), InHand(o))
  <2> HIDE DEF Accounted, Issued
  <2>1. CASE t = 4 /\ o = 5
    BY <1>6, <2>1 DEF InHand, Working
  <2>2. CASE t = 5 /\ o = 4
    <3>1. Accounted(Issued, mem.queue_, mem.completed_, mem.checksum_, InHand(5), InHand(4))
      BY <1>6, AccountedSwapped
    <3> QED
      BY <2>2, <3>1 DEF InHand, Working
  <2> QED
    BY <1>2, <1>3, <2>1, <2>2
<1>8. CASE \/ Lock(t, 28, "mutex_", 30) \/ Lock(t, 30, "mutex_", 30)
           \/ Lock(t, 121, "resultMutex_", 122) \/ SleepOn(t, 30, "cv_", "mutex_", 30)
           \/ Await(t, 30, mem.queue_ # <<>> \/ stop_requested(t), mem, 34)
           \/ /\ mem.queue_ = <<>> /\ stop_requested(t)
              /\ Unlock(t, 34, {"mutex_"}, Used(mem, {"queue_"}), End)
  <2>1. /\ pc[t] \in {121, 122} <=> pc'[t] \in {121, 122}
        /\ pc'[t] = 34 => mem.queue_ # <<>> \/ t \in mem.stop
        /\ pc' = [pc EXCEPT ![t] = pc'[t]]
        /\ mem' = mem \/ mem' = Used(mem, {"queue_"})
    BY <1>2, <1>5, <1>8 DEF Lock, LockAll, SleepOn, Await, Step, Unlock, stop_requested,
                            At, Goto, End
  <2>2. pc'[2] = pc[2] /\ pc'[o] = pc[o]
    BY <1>2, <1>3, <1>5, <2>1
  <2>3. /\ mem'.id = mem.id
        /\ mem'.queue_ = mem.queue_ /\ mem'.checksum_ = mem.checksum_ /\ mem'.job = mem.job
        /\ mem'.completed_ = mem.completed_ /\ mem'.stop = mem.stop
    BY <1>4, <2>1 DEF Used
  <2>4. Issued' = Issued /\ InHand(t)' = InHand(t) /\ InHand(o)' = InHand(o)
    BY <2>1, <2>2, <2>3 DEF Issued, InHand, Working
  <2>5. (t = 4 /\ o = 5) \/ (t = 5 /\ o = 4)
    BY <1>2, <1>3
  <2>6. InHand(4)' = InHand(4) /\ InHand(5)' = InHand(5)
    BY <2>4, <2>5 DEF InHand, Working
  <2>7. \A u \in {4, 5} : pc'[u] = 34 => pc[u] = 34 \/ u \in mem.stop \/ mem.queue_ # <<>>
    BY <2>1, <2>2, <2>5
  <2> QED
    BY <1>6, <2>2, <2>3, <2>4, <2>6, <2>7, JobsSame
<1>9. CASE /\ mem.queue_ # <<>>
           /\ Unlock(t, 34, {"mutex_"},
                     [Used(mem, {"queue_"}) EXCEPT
                        !.queue_ = Tail(@), !.job[t] = Head(mem.queue_)], 121)
  <2>1. pc[t] = 34 /\ pc' = [pc EXCEPT ![t] = 121]
    BY <1>9 DEF Unlock, Step, At, Goto
  <2>2. /\ mem'.id = mem.id /\ mem'.queue_ = Tail(mem.queue_)
        /\ mem'.checksum_ = mem.checksum_ /\ mem'.job = [mem.job EXCEPT ![t] = Head(mem.queue_)]
        /\ mem'.completed_ = mem.completed_ /\ mem'.stop = mem.stop
    BY <1>4, <1>9 DEF Unlock, Step, Used
  <2>3. pc[o] # 34
    <3>1. \A u \in Thread : Holds(u, {34}, {"mutex_"})
      BY DEF LockInv, LocksHeld
    <3>2. t \in Thread /\ o \in Thread
      BY <1>2, <1>3 DEF LateInv
    <3> QED
      BY <1>3, <2>1, <3>1, <3>2 DEF Holds, At
  <2>4. InHand(t) = {}
    BY <2>1 DEF InHand, Working
  <2> HIDE DEF Issued, InHand, Accounted
  <2>5. Accounted(Issued, mem.queue_, mem.completed_, mem.checksum_, {}, InHand(o))
    BY <1>7, <2>4
  <2>6. mem.queue_ # <<>>
    BY <1>9
  <2>7. /\ Accounted(Issued, Tail(mem.queue_), mem.completed_, mem.checksum_,
                     {Head(mem.queue_)}, InHand(o))
        /\ Head(mem.queue_) \in 1 .. Issued
    BY <1>6, <2>5, <2>6, AccountedTaken
  <2>8. Head(mem.queue_) \in Nat
    BY <1>6, <2>7
  <2>9. /\ mem'.job \in [1 .. 5 -> Nat] /\ mem'.job[o] = mem.job[o]
        /\ mem'.job[t] = Head(mem.queue_)
    <3>1. t \in 1 .. 5 /\ o \in 1 .. 5
      BY <1>1, <1>3
    <3>2. mem.job \in [1 .. 5 -> Nat] /\ mem'.job = [mem.job EXCEPT ![t] = Head(mem.queue_)]
      BY <1>6, <2>2
    <3>3. /\ mem'.job \in [1 .. 5 -> Nat] /\ mem'.job[t] = Head(mem.queue_)
          /\ \A u \in 1 .. 5 : u # t => mem'.job[u] = mem.job[u]
      BY <2>8, <3>1, <3>2, OneAssigned
    <3> QED
      BY <1>3, <3>1, <3>3
  <2>10. pc'[t] = 121 /\ pc'[o] = pc[o] /\ pc'[2] = pc[2]
    BY <1>2, <1>3, <1>5, <2>1
  <2>11. InHand(t)' = {Head(mem.queue_)}
    BY <2>9, <2>10 DEF InHand, Working
  <2>12. Accounted(Issued, mem'.queue_, mem'.completed_, mem'.checksum_, InHand(t)', InHand(o))
    BY <2>2, <2>7, <2>11
  <2>13. pc'[t] # 34 /\ mem'.id = mem.id /\ mem'.stop = mem.stop
    BY <2>2, <2>10
  <2> QED
    BY <1>2, <1>3, <2>3, <2>9, <2>10, <2>12, <2>13, JobsInHand
<1>10. CASE Unlock(t, 122, {"resultMutex_"},
            [Used(mem, {"resultMutex_", "completed_", "checksum_"}) EXCEPT
                !.completed_ = @ + 1, !.checksum_ = Xor(@, {mem.job[t]})], 28)
  <2>1. pc[t] = 122 /\ pc' = [pc EXCEPT ![t] = 28]
    BY <1>10 DEF Unlock, Step, At, Goto
  <2>2. /\ mem'.id = mem.id /\ mem'.queue_ = mem.queue_
        /\ mem'.checksum_ = Xor(mem.checksum_, {mem.job[t]}) /\ mem'.job = mem.job
        /\ mem'.completed_ = mem.completed_ + 1 /\ mem'.stop = mem.stop
    BY <1>4, <1>10 DEF Unlock, Step, Used
  <2>3. InHand(t) = {mem.job[t]}
    BY <2>1 DEF InHand, Working
  <2> HIDE DEF Issued, InHand, Accounted, Xor
  <2>4. Accounted(Issued, mem.queue_, mem.completed_ + 1, Xor(mem.checksum_, {mem.job[t]}),
                  {}, InHand(o))
    BY <1>6, <1>7, <2>3, AccountedDone
  <2>5. mem'.job \in [1 .. 5 -> Nat] /\ mem'.job[o] = mem.job[o]
    BY <1>6, <2>2
  <2>6. pc'[t] = 28 /\ pc'[o] = pc[o] /\ pc'[2] = pc[2]
    BY <1>2, <1>3, <1>5, <2>1
  <2>7. InHand(t)' = {}
    BY <2>6 DEF InHand, Working
  <2>8. Accounted(Issued, mem'.queue_, mem'.completed_, mem'.checksum_, InHand(t)', InHand(o))
    BY <2>2, <2>4, <2>7
  <2>9. pc'[t] # 34 /\ mem'.id = mem.id /\ mem'.stop = mem.stop /\ mem'.queue_ = mem.queue_
    BY <2>2, <2>6
  <2> QED
    BY <1>2, <1>3, <2>5, <2>6, <2>8, <2>9, JobsInHand
<1>11. ASSUME At(t, 34) /\ IF stop_requested(t) /\ mem.queue_ = <<>>
                     THEN Unlock(t, 34, {"mutex_"}, Used(mem, {"queue_"}), End)
                     ELSE Unlock(t, 34, {"mutex_"},
                                 [Used(mem, {"queue_"}) EXCEPT
                                     !.queue_ = Tail(@), !.job[t] = Head(mem.queue_)], 121)
       PROVE  JobsInv'
  <2>1. pc[t] = 34
    BY <1>11 DEF At
  <2>2. CASE stop_requested(t) /\ mem.queue_ = <<>>
    BY <1>8, <1>11, <2>2
  <2>3. CASE ~(stop_requested(t) /\ mem.queue_ = <<>>)
    <3>1. mem.queue_ # <<>>
      BY <1>6, <2>1, <2>3 DEF stop_requested
    <3> QED
      BY <1>9, <1>11, <2>3, <3>1
  <2> QED
    BY <2>2, <2>3
<1> QED
  BY <1>8, <1>10, <1>11 DEF workerLoop, pop_job, WaitUntil

LEMMA JobsKept ==
  ASSUME LockInv, LateInv, JobsInv, program = "jthread_1", NEW t \in Thread,
         producerLoop(t) \/ workerLoop(t) \/ monitorLoop(t) \/ scheduler_main(t)
  PROVE  JobsInv'
BY JobsMade, JobsWorked, JobsUntouched

-----------------------------------------------------------------------------
\* The lock-free stack

LEMMA ChainedSwapped ==
  ASSUME NEW links, NEW list, NEW head, NEW hand, NEW other,
         Chained(links, list, head, hand, other)
  PROVE  Chained(links, list, head, other, hand)
<1>1. Size(hand) \in Nat /\ Size(other) \in Nat
  BY DEF Size
<1>2. /\ links \in Seq(Nat) /\ list \in Seq(1 .. Len(links))
      /\ Len(list) + Size(hand) + Size(other) = Len(links)
  BY DEF Chained
<1>3. Len(list) \in Nat
  BY <1>2
<1>4. Len(list) + Size(other) + Size(hand) = Len(links)
  BY <1>1, <1>2, <1>3
<1> QED
  BY <1>4 DEF Chained

LEMMA NodeMade ==
  ASSUME NEW links, NEW list, NEW head, NEW other, Chained(links, list, head, {}, other)
  PROVE  Chained(Append(links, nullptr), list, head, {Len(links) + 1}, other)
<1> DEFINE after == Append(links, nullptr)
           n == Len(links)
<1>1. /\ links \in Seq(Nat) /\ list \in Seq(1 .. n) /\ Distinct(list)
      /\ \A k \in 1 .. Len(list) : links[list[k]] = Top(list, k - 1)
      /\ head = Top(list, Len(list))
      /\ Contents(list) \cup {} \cup other = 1 .. n
      /\ other \cap Contents(list) = {}
      /\ Len(list) + Size({}) + Size(other) = n
  BY DEF Chained
<1>2. /\ after \in Seq(Nat) /\ Len(after) = n + 1 /\ n \in Nat
      /\ \A k \in 1 .. n : after[k] = links[k]
  <2>1. nullptr \in Nat
    BY DEF nullptr
  <2> QED
    BY <1>1, <2>1
<1>3. Len(list) \in Nat /\ \A k \in 1 .. Len(list) : list[k] \in 1 .. n
  BY <1>1
<1> HIDE DEF after, n
<1>4. 1 .. n + 1 = (1 .. n) \cup {n + 1} /\ n + 1 \notin 1 .. n /\ 1 .. n \subseteq 1 .. n + 1
  BY <1>2
<1>5. list \in Seq(1 .. n + 1)
  <2>1. 1 .. n \subseteq 1 .. n + 1 /\ list \in Seq(1 .. n)
    BY <1>1, <1>4
  <2> QED
    BY <2>1, SeqMonotonic, Zenon
<1>6. \A k \in 1 .. Len(list) : after[list[k]] = Top(list, k - 1)
  BY <1>1, <1>2, <1>3
<1>7. Len(list) + Size({n + 1}) + Size(other) = n + 1
  <2>1. Size({}) = 0 /\ Size({n + 1}) = 1 /\ Size(other) \in Nat
    BY DEF Size
  <2>2. Len(list) + Size(other) = n
    BY <1>1, <1>2, <1>3, <2>1
  <2> HIDE DEF Size
  <2>3. Len(list) + 1 + Size(other) = n + 1
    BY <1>2, <1>3, <2>1, <2>2
  <2> QED
    BY <2>1, <2>3
<1>8. /\ Contents(list) \cup {n + 1} \cup other = 1 .. n + 1
      /\ {n + 1} \cap other = {} /\ ({n + 1} \cup other) \cap Contents(list) = {}
  BY <1>1, <1>4
<1>9. Chained(after, list, head, {n + 1}, other)
  BY <1>1, <1>2, <1>5, <1>6, <1>7, <1>8 DEF Chained
<1> QED
  BY <1>9 DEF after, n

LEMMA NodePointed ==
  ASSUME NEW links, NEW list, NEW head, NEW n, NEW other, NEW after,
         Chained(links, list, head, {n}, other),
         after \in Seq(Nat), Len(after) = Len(links),
         \A k \in 1 .. Len(links) : k # n => after[k] = links[k]
  PROVE  Chained(after, list, head, {n}, other)
<1>1. /\ links \in Seq(Nat) /\ list \in Seq(1 .. Len(links)) /\ Distinct(list)
      /\ \A k \in 1 .. Len(list) : links[list[k]] = Top(list, k - 1)
      /\ head = Top(list, Len(list))
      /\ Contents(list) \cup {n} \cup other = 1 .. Len(links)
      /\ {n} \cap other = {} /\ ({n} \cup other) \cap Contents(list) = {}
      /\ Len(list) + Size({n}) + Size(other) = Len(links)
  BY DEF Chained
<1>4. \A k \in 1 .. Len(list) : list[k] \in 1 .. Len(links) /\ list[k] # n
  <2>1. \A k \in 1 .. Len(list) : list[k] \in 1 .. Len(links) /\ list[k] \in Contents(list)
    <3>0. list \in Seq(1 .. Len(links))
      BY <1>1
    <3>1. DOMAIN list = 1 .. Len(list) /\ \A k \in 1 .. Len(list) : list[k] \in 1 .. Len(links)
      BY <3>0
    <3>2. \A k \in 1 .. Len(list) : list[k] \in Contents(list)
      BY <3>1, Zenon DEF Contents
    <3> QED
      BY <3>1, <3>2
  <2> QED
    BY <1>1, <2>1
<1>5. \A k \in 1 .. Len(list) : after[list[k]] = Top(list, k - 1)
  BY <1>1, <1>4
<1> QED
  BY <1>1, <1>5 DEF Chained

LEMMA NodePushed ==
  ASSUME NEW links, NEW list, NEW head, NEW n, NEW other,
         Chained(links, list, head, {n}, other), links[n] = head
  PROVE  /\ Chained(links, Append(list, n), n, {}, other)
         /\ Len(Append(list, n)) = Len(list) + 1 /\ Append(list, n) \in Seq(Nat)
<1> DEFINE after == Append(list, n)
           m == Len(links)
<1>1. /\ links \in Seq(Nat) /\ list \in Seq(1 .. m) /\ Distinct(list)
      /\ \A k \in 1 .. Len(list) : links[list[k]] = Top(list, k - 1)
      /\ head = Top(list, Len(list))
      /\ Contents(list) \cup {n} \cup other = 1 .. m
      /\ {n} \cap other = {} /\ ({n} \cup other) \cap Contents(list) = {}
      /\ Len(list) + Size({n}) + Size(other) = m
  BY DEF Chained
<1>2. n \in 1 .. m /\ n \notin Contents(list) /\ n \notin other
  BY <1>1
<1>3. /\ after \in Seq(1 .. m) /\ Len(after) = Len(list) + 1 /\ Len(list) \in Nat
      /\ \A k \in 1 .. Len(list) : after[k] = list[k]
      /\ after[Len(list) + 1] = n
  BY <1>1, <1>2
<1>4. Contents(after) = Contents(list) \cup {n}
  <2> DEFINE S == 1 .. m
  <2>1. n \in S /\ list \in Seq(S)
    BY <1>1, <1>2
  <2> HIDE DEF S
  <2> QED
    BY <2>1, ContentsAppended
<1>5. \A k \in 1 .. Len(list) : list[k] # n
  BY <1>1, <1>2 DEF Contents
<1> HIDE DEF after, m
<1>6. \A k \in 1 .. Len(after) : k \in 1 .. Len(list) \/ k = Len(list) + 1
  BY <1>3
<1>7. Distinct(after)
  <2> SUFFICES ASSUME NEW k \in 1 .. Len(after), NEW l \in 1 .. Len(after), after[k] = after[l]
               PROVE  k = l
    BY DEF Distinct
  <2>1. CASE k = Len(list) + 1
    BY <1>3, <1>5, <1>6, <2>1
  <2>2. CASE l = Len(list) + 1
    BY <1>3, <1>5, <1>6, <2>2
  <2>3. CASE k \in 1 .. Len(list) /\ l \in 1 .. Len(list)
    BY <1>1, <1>3, <2>3 DEF Distinct
  <2> QED
    BY <1>6, <2>1, <2>2, <2>3
<1>8. \A k \in 0 .. Len(list) : Top(after, k) = Top(list, k)
  <2>1. \A k \in 0 .. Len(list) : k = 0 \/ k \in 1 .. Len(list)
    BY <1>3
  <2> QED
    BY <1>3, <2>1 DEF Top
<1>9. \A k \in 1 .. Len(after) : links[after[k]] = Top(after, k - 1)
  <2> SUFFICES ASSUME NEW k \in 1 .. Len(after) PROVE links[after[k]] = Top(after, k - 1)
    OBVIOUS
  <2>1. CASE k = Len(list) + 1
    <3>1. k - 1 = Len(list) /\ Len(list) \in 0 .. Len(list)
      BY <1>3, <2>1
    <3> QED
      BY <1>1, <1>3, <1>8, <2>1, <3>1
  <2>2. CASE k \in 1 .. Len(list)
    <3>1. k - 1 \in 0 .. Len(list)
      BY <1>3, <2>2
    <3> QED
      BY <1>1, <1>3, <1>8, <2>2, <3>1
  <2> QED
    BY <1>6, <2>1, <2>2
<1>10. n = Top(after, Len(after))
  BY <1>3 DEF Top
<1>11. Len(after) + Size({}) + Size(other) = m
  <2>1. Size({}) = 0 /\ Size({n}) = 1 /\ Size(other) \in Nat
    BY DEF Size
  <2> QED
    BY <1>1, <1>3, <2>1
<1>12. /\ Contents(after) \cup {} \cup other = 1 .. m
       /\ {} \cap other = {} /\ ({} \cup other) \cap Contents(after) = {}
  BY <1>1, <1>2, <1>4
<1>13. Chained(links, after, n, {}, other)
  <2>1. Len(links) = m
    BY DEF m
  <2> QED
    BY <1>1, <1>3, <1>7, <1>9, <1>10, <1>11, <1>12, <2>1 DEF Chained
<1>14. after \in Seq(Nat)
  <2>1. 1 .. m \subseteq Nat
    OBVIOUS
  <2> QED
    BY <1>3, <2>1, SeqMonotonic
<1> QED
  BY <1>3, <1>13, <1>14 DEF after

\* The two threads that push.
LEMMA TwoPushers ==
  ASSUME NEW t \in {2, 3}, NEW o \in {2, 3}, o # t
  PROVE  /\ t \in 1 .. 3 /\ o \in 1 .. 3 /\ t # 1
         /\ (t = 2 /\ o = 3) \/ (t = 3 /\ o = 2)
OBVIOUS

LEMMA CountsOf ==
  ASSUME NEW i \in [1 .. 3 -> Nat], NEW t \in 1 .. 3
  PROVE  i[t] \in Int /\ i[t] - 1 \in Int
<1>1. i[t] \in Nat
  OBVIOUS
<1> QED
  BY <1>1

LEMMA LineAssigned ==
  ASSUME NEW f, NEW g, NEW t \in DOMAIN f, NEW line, g = [f EXCEPT ![t] = line]
  PROVE  DOMAIN g = DOMAIN f /\ g[t] = line /\ \A o \in DOMAIN f : o # t => g[o] = f[o]
OBVIOUS

\* A step that leaves alone what belongs to main() and to the other thread.
LeavesAlone(o) ==
    /\ DOMAIN pc' = DOMAIN pc /\ pc'[1] = pc[1] /\ pc'[o] = pc[o]
    /\ DOMAIN mem' = DOMAIN mem /\ mem'.count = mem.count /\ mem'.deleted = mem.deleted
    /\ mem'.newNode \in [1 .. 3 -> Nat] /\ mem'.oldHead \in [1 .. 3 -> Nat]
    /\ mem'.i \in [1 .. 3 -> Nat]
    /\ mem'.newNode[o] = mem.newNode[o] /\ mem'.oldHead[o] = mem.oldHead[o]
    /\ mem'.i[o] = mem.i[o]
    /\ pc[o] = 33 => mem'.next[mem.newNode[o]] = mem.next[mem.newNode[o]]

LEMMA PusherStep ==
  ASSUME NEW list, StackInv(list), NEW after \in Seq(Nat),
         NEW t \in {2, 3}, NEW o \in {2, 3}, o # t, ~Ended(t), LeavesAlone(o),
         Chained(mem'.next, after, mem'.head, Holding(t)', Holding(o)),
         PusherInv(t)', Len(after) = Pushes(t)' + Pushes(o)
  PROVE  StackInv(after)'
<1>1. t \in 1 .. 3 /\ o \in 1 .. 3 /\ ((t = 2 /\ o = 3) \/ (t = 3 /\ o = 2))
  BY TwoPushers
<1>2. pc[1] = 63 /\ mem.count = 0 /\ mem.deleted = <<>>
  BY <1>1 DEF StackInv, CounterInv, End
<1>3. CounterInv(after)'
  BY <1>2 DEF CounterInv, End, Ended, LeavesAlone
<1>4. PusherInv(o)
  BY <1>1 DEF StackInv
<1>5. PusherInv(o)'
  BY <1>4 DEF PusherInv, LeavesAlone
<1>6. Holding(o)' = Holding(o) /\ Pushes(o)' = Pushes(o)
  BY DEF Holding, Pushes, LeavesAlone
<1>7. /\ Chained(mem'.next, after, mem'.head, Holding(t)', Holding(o)')
      /\ Chained(mem'.next, after, mem'.head, Holding(o)', Holding(t)')
  BY <1>6, ChainedSwapped
<1>8. Pushes(t)' \in Int /\ Pushes(o)' \in Int
  <2>1. mem'.i \in [1 .. 3 -> Nat]
    BY DEF LeavesAlone
  <2>2. mem'.i[t] \in Int /\ mem'.i[o] \in Int /\ mem'.i[t] - 1 \in Int /\ mem'.i[o] - 1 \in Int
    BY <1>1, <2>1, CountsOf
  <2> QED
    BY <2>2 DEF Pushes
<1>9. Len(after) = Pushes(t)' + Pushes(o)' /\ Len(after) = Pushes(o)' + Pushes(t)'
  BY <1>6, <1>8
<1>10. /\ PusherInv(2)' /\ PusherInv(3)' /\ Len(after) = Pushes(2)' + Pushes(3)'
       /\ Chained(mem'.next, after, mem'.head, Holding(2)', Holding(3)')
  <2>1. CASE t = 2 /\ o = 3
    <3>1. PusherInv(2)' /\ PusherInv(3)'
      <4>1. PusherInv(2)'
        BY <2>1 DEF PusherInv
      <4>2. PusherInv(3)'
        BY <1>5, <2>1 DEF PusherInv
      <4> QED
        BY <4>1, <4>2
    <3>2. /\ Holding(2)' = Holding(t)' /\ Holding(3)' = Holding(o)'
          /\ Pushes(2)' = Pushes(t)' /\ Pushes(3)' = Pushes(o)'
      BY <2>1 DEF Holding, Pushes
    <3> HIDE DEF Chained, Holding, Pushes, PusherInv
    <3> QED
      BY <1>7, <1>9, <3>1, <3>2
  <2>2. CASE t = 3 /\ o = 2
    <3>1. PusherInv(2)' /\ PusherInv(3)'
      <4>1. PusherInv(3)'
        BY <2>2 DEF PusherInv
      <4>2. PusherInv(2)'
        BY <1>5, <2>2 DEF PusherInv
      <4> QED
        BY <4>1, <4>2
    <3>2. /\ Holding(2)' = Holding(o)' /\ Holding(3)' = Holding(t)'
          /\ Pushes(2)' = Pushes(o)' /\ Pushes(3)' = Pushes(t)'
      BY <2>2 DEF Holding, Pushes
    <3> HIDE DEF Chained, Holding, Pushes, PusherInv
    <3> QED
      BY <1>7, <1>9, <3>1, <3>2
  <2> QED
    BY <1>1, <2>1, <2>2
<1>11. /\ Thread' = 1 .. 3
       /\ DOMAIN mem' = {"next", "head", "newNode", "oldHead", "i", "node", "count", "deleted"}
  BY DEF StackInv, Thread, LeavesAlone
<1>12. /\ mem'.newNode \in [1 .. 3 -> Nat] /\ mem'.oldHead \in [1 .. 3 -> Nat]
       /\ mem'.i \in [1 .. 3 -> Nat]
  BY DEF LeavesAlone
<1> QED
  BY <1>3, <1>10, <1>11, <1>12 DEF StackInv

LEMMA PusherKept ==
  ASSUME NEW list \in Seq(Nat), StackInv(list), NEW t \in Thread, stack_worker(t)
  PROVE  \E after \in Seq(Nat) : StackInv(after)'
<1>1. /\ pc[t] \in {53, 28, 31, 32, 33} /\ t \in 1 .. 3
      /\ pc[1] \in {63, 68, 19, End}
      /\ {2, 3} \subseteq DOMAIN pc /\ 1 \in DOMAIN pc
  BY DEF stack_worker, stack_push_node, push_succeeds, Step, At, StackInv, CounterInv, Thread
<1>2. t \in {2, 3} /\ ~Ended(t)
  <2>1. t \in {1, 2, 3}
    BY <1>1
  <2> QED
    BY <1>1, <2>1 DEF End, Ended
<1>3. PICK o \in {2, 3} : o # t
  <2>1. 2 # 3
    OBVIOUS
  <2> QED
    BY <1>2, <2>1
<1>4. t \in 1 .. 3 /\ o \in 1 .. 3 /\ t # 1 /\ ((t = 2 /\ o = 3) \/ (t = 3 /\ o = 2))
  BY <1>2, <1>3, TwoPushers
<1>5. /\ DOMAIN mem = {"next", "head", "newNode", "oldHead", "i", "node", "count", "deleted"}
      /\ mem.newNode \in [1 .. 3 -> Nat] /\ mem.oldHead \in [1 .. 3 -> Nat]
      /\ mem.i \in [1 .. 3 -> Nat]
  BY DEF StackInv
<1>6. /\ PusherInv(t) /\ PusherInv(o)
      /\ Chained(mem.next, list, mem.head, Holding(t), Holding(o))
      /\ Len(list) = Pushes(t) + Pushes(o)
  <2>1. CASE t = 2 /\ o = 3
    BY <2>1 DEF StackInv, Holding, Pushes, PusherInv
  <2>2. CASE t = 3 /\ o = 2
    <3>1. PusherInv(t) /\ PusherInv(o)
      BY <2>2 DEF StackInv, PusherInv
    <3>2. Chained(mem.next, list, mem.head, Holding(3), Holding(2))
      BY ChainedSwapped DEF StackInv
    <3>3. Chained(mem.next, list, mem.head, Holding(t), Holding(o))
      BY <2>2, <3>2 DEF Holding
    <3>4. Len(list) = Pushes(3) + Pushes(2)
      <4>1. Pushes(2) \in Int /\ Pushes(3) \in Int
        BY <1>5 DEF Pushes
      <4> QED
        BY <4>1 DEF StackInv
    <3> QED
      BY <2>2, <3>1, <3>3, <3>4 DEF Pushes
  <2> QED
    BY <1>4, <2>1, <2>2
<1>7. /\ Pushes(t) \in Int /\ Pushes(o) \in Int /\ Len(list) \in Nat
      /\ mem.next \in Seq(Nat) /\ Len(mem.next) \in Nat
      /\ pc[o] = 33 => mem.newNode[o] \in 1 .. Len(mem.next) /\ mem.newNode[o] \in Holding(o)
  <2>1. Pushes(t) \in Int /\ Pushes(o) \in Int
    <3>1. mem.i[t] \in Int /\ mem.i[o] \in Int /\ mem.i[t] - 1 \in Int /\ mem.i[o] - 1 \in Int
      BY <1>4, <1>5, CountsOf
    <3> QED
      BY <3>1 DEF Pushes
  <2>2. Holding(o) \subseteq 1 .. Len(mem.next) /\ mem.next \in Seq(Nat)
    BY <1>6 DEF Chained
  <2> QED
    BY <2>1, <2>2 DEF Holding
<1>8. ASSUME NEW line, pc' = [pc EXCEPT ![t] = line]
      PROVE  DOMAIN pc' = DOMAIN pc /\ pc'[t] = line /\ pc'[1] = pc[1] /\ pc'[o] = pc[o]
  <2>1. t \in DOMAIN pc /\ o \in DOMAIN pc /\ 1 \in DOMAIN pc
    BY <1>1, <1>4
  <2>2. pc'[t] = line /\ DOMAIN pc' = DOMAIN pc /\ \A u \in DOMAIN pc : u # t => pc'[u] = pc[u]
    BY <1>8, <2>1, LineAssigned
  <2> QED
    BY <1>3, <1>4, <2>1, <2>2
<1> HIDE DEF Chained
<1>10. CASE Step(t, 53, [mem EXCEPT !.i[t] = @ + 1], IF mem.i[t] < Rounds THEN 28 ELSE End)
  <2>0. PICK line : line = IF mem.i[t] < Rounds THEN 28 ELSE End
    OBVIOUS
  <2>1. pc[t] = 53 /\ pc' = [pc EXCEPT ![t] = line]
    BY <1>10, <2>0 DEF Step, At, Goto
  <2>2. /\ DOMAIN mem' = DOMAIN mem /\ mem'.next = mem.next /\ mem'.head = mem.head
        /\ mem'.newNode = mem.newNode /\ mem'.oldHead = mem.oldHead
        /\ mem'.i = [mem.i EXCEPT ![t] = mem.i[t] + 1]
        /\ mem'.count = mem.count /\ mem'.deleted = mem.deleted
    BY <1>5, <1>10 DEF Step
  <2>3. /\ DOMAIN pc' = DOMAIN pc /\ pc'[t] = line /\ pc'[1] = pc[1] /\ pc'[o] = pc[o]
    BY <1>8, <2>1
  <2>4. mem.i[t] \in 0 .. Rounds
    BY <1>6, <2>1 DEF PusherInv
  <2>5. /\ mem'.i \in [1 .. 3 -> Nat] /\ mem'.i[t] = mem.i[t] + 1 /\ mem'.i[o] = mem.i[o]
    <3>1. mem.i[t] + 1 \in Nat
      BY <2>4, RoundsAssumption
    <3>2. mem.i \in [1 .. 3 -> Nat] /\ mem'.i = [mem.i EXCEPT ![t] = mem.i[t] + 1]
      BY <1>5, <2>2
    <3>3. /\ mem'.i \in [1 .. 3 -> Nat] /\ mem'.i[t] = mem.i[t] + 1
          /\ \A u \in 1 .. 3 : u # t => mem'.i[u] = mem.i[u]
      BY <1>4, <3>1, <3>2, OneAssigned
    <3> QED
      BY <1>3, <1>4, <3>3
  <2>6. PusherInv(t)'
    <3>1. CASE mem.i[t] < Rounds
      <4>1. pc'[t] = 28 /\ mem.i[t] + 1 \in 1 .. Rounds
        BY <2>0, <2>3, <2>4, <3>1, RoundsAssumption
      <4> QED
        BY <2>5, <4>1 DEF PusherInv, End
    <3>2. CASE ~(mem.i[t] < Rounds)
      <4>1. pc'[t] = End /\ mem.i[t] = Rounds
        BY <2>0, <2>3, <2>4, <3>2, RoundsAssumption
      <4> QED
        BY <2>5, <4>1 DEF PusherInv, End
    <3> QED
      BY <3>1, <3>2
  <2>7. Pushes(t)' = Pushes(t) /\ Holding(t) = {} /\ Holding(t)' = {}
    BY <2>0, <2>1, <2>3, <2>4, <2>5, RoundsAssumption DEF Pushes, Holding, End
  <2>8. /\ Chained(mem'.next, list, mem'.head, Holding(t)', Holding(o))
        /\ Len(list) = Pushes(t)' + Pushes(o)
    BY <1>6, <2>2, <2>7
  <2>9. StackInv(list)'
    <3>1. LeavesAlone(o)
      BY <1>5, <2>2, <2>3, <2>5 DEF LeavesAlone
    <3> QED
      BY <1>2, <1>3, <2>6, <2>8, <3>1, PusherStep
  <2> QED
    BY <2>9
<1>11. CASE Step(t, 28, [mem EXCEPT !.next = Append(@, nullptr),
                                    !.newNode[t] = Len(mem.next) + 1], 31)
  <2>1. pc[t] = 28 /\ pc' = [pc EXCEPT ![t] = 31]
    BY <1>11 DEF Step, At, Goto
  <2>2. /\ DOMAIN mem' = DOMAIN mem /\ mem'.next = Append(mem.next, nullptr)
        /\ mem'.head = mem.head /\ mem'.oldHead = mem.oldHead /\ mem'.i = mem.i
        /\ mem'.newNode = [mem.newNode EXCEPT ![t] = Len(mem.next) + 1]
        /\ mem'.count = mem.count /\ mem'.deleted = mem.deleted
    BY <1>5, <1>11 DEF Step
  <2>3. /\ DOMAIN pc' = DOMAIN pc /\ pc'[t] = 31 /\ pc'[1] = pc[1] /\ pc'[o] = pc[o]
    BY <1>8, <2>1
  <2>4. /\ mem'.newNode \in [1 .. 3 -> Nat] /\ mem'.newNode[t] = Len(mem.next) + 1
        /\ mem'.newNode[o] = mem.newNode[o]
    <3>1. Len(mem.next) + 1 \in Nat
      BY <1>7
    <3>2. /\ mem.newNode \in [1 .. 3 -> Nat]
          /\ mem'.newNode = [mem.newNode EXCEPT ![t] = Len(mem.next) + 1]
      BY <1>5, <2>2
    <3>3. /\ mem'.newNode \in [1 .. 3 -> Nat] /\ mem'.newNode[t] = Len(mem.next) + 1
          /\ \A u \in 1 .. 3 : u # t => mem'.newNode[u] = mem.newNode[u]
      BY <1>4, <3>1, <3>2, OneAssigned
    <3> QED
      BY <1>3, <1>4, <3>3
  <2>5. PusherInv(t)'
    BY <1>6, <2>1, <2>2, <2>3 DEF PusherInv, End
  <2>6. /\ Pushes(t)' = Pushes(t) /\ Holding(t) = {} /\ Holding(t)' = {Len(mem.next) + 1}
    BY <2>1, <2>2, <2>3, <2>4 DEF Pushes, Holding
  <2>7. Chained(mem'.next, list, mem'.head, Holding(t)', Holding(o))
    BY <1>6, <2>2, <2>6, NodeMade
  <2>8. pc[o] = 33 => mem'.next[mem.newNode[o]] = mem.next[mem.newNode[o]]
    <3>1. \A k \in 1 .. Len(mem.next) : Append(mem.next, nullptr)[k] = mem.next[k]
      BY <1>7 DEF nullptr
    <3> QED
      BY <1>7, <2>2, <3>1
  <2>9. Len(list) = Pushes(t)' + Pushes(o)
    BY <1>6, <2>6
  <2>10. StackInv(list)'
    <3>1. LeavesAlone(o)
      BY <1>5, <2>2, <2>3, <2>4, <2>8 DEF LeavesAlone
    <3> QED
      BY <1>2, <1>3, <2>5, <2>7, <2>9, <3>1, PusherStep
  <2> QED
    BY <2>10
<1>12. CASE Step(t, 31, [mem EXCEPT !.oldHead[t] = mem.head], 32)
  <2>1. pc[t] = 31 /\ pc' = [pc EXCEPT ![t] = 32]
    BY <1>12 DEF Step, At, Goto
  <2>2. /\ DOMAIN mem' = DOMAIN mem /\ mem'.next = mem.next /\ mem'.head = mem.head
        /\ mem'.newNode = mem.newNode /\ mem'.i = mem.i
        /\ mem'.oldHead = [mem.oldHead EXCEPT ![t] = mem.head]
        /\ mem'.count = mem.count /\ mem'.deleted = mem.deleted
    BY <1>5, <1>12 DEF Step
  <2>3. /\ DOMAIN pc' = DOMAIN pc /\ pc'[t] = 32 /\ pc'[1] = pc[1] /\ pc'[o] = pc[o]
    BY <1>8, <2>1
  <2>4. mem.head \in Nat
    <3>1. Len(list) = 0 \/ list[Len(list)] \in Nat
      BY <1>7
    <3> QED
      BY <1>6, <3>1 DEF Chained, Top, nullptr
  <2>5. mem'.oldHead \in [1 .. 3 -> Nat] /\ mem'.oldHead[o] = mem.oldHead[o]
    <3>2. mem.oldHead \in [1 .. 3 -> Nat] /\ mem'.oldHead = [mem.oldHead EXCEPT ![t] = mem.head]
      BY <1>5, <2>2
    <3>3. /\ mem'.oldHead \in [1 .. 3 -> Nat] /\ mem'.oldHead[t] = mem.head
          /\ \A u \in 1 .. 3 : u # t => mem'.oldHead[u] = mem.oldHead[u]
      BY <1>4, <2>4, <3>2, OneAssigned
    <3> QED
      BY <1>3, <1>4, <3>3
  <2>6. PusherInv(t)'
    BY <1>6, <2>1, <2>2, <2>3 DEF PusherInv, End
  <2>7. Pushes(t)' = Pushes(t) /\ Holding(t)' = Holding(t)
    BY <2>1, <2>2, <2>3 DEF Pushes, Holding
  <2>8. /\ Chained(mem'.next, list, mem'.head, Holding(t)', Holding(o))
        /\ Len(list) = Pushes(t)' + Pushes(o)
    BY <1>6, <2>2, <2>7
  <2>9. StackInv(list)'
    <3>1. LeavesAlone(o)
      BY <1>5, <2>2, <2>3, <2>5 DEF LeavesAlone
    <3> QED
      BY <1>2, <1>3, <2>6, <2>8, <3>1, PusherStep
  <2> QED
    BY <2>9
<1>13. CASE Step(t, 32, [mem EXCEPT !.next[mem.newNode[t]] = mem.oldHead[t]], 33)
  <2>1. pc[t] = 32 /\ pc' = [pc EXCEPT ![t] = 33]
    BY <1>13 DEF Step, At, Goto
  <2>2. /\ DOMAIN mem' = DOMAIN mem
        /\ mem'.next = [mem.next EXCEPT ![mem.newNode[t]] = mem.oldHead[t]]
        /\ mem'.head = mem.head /\ mem'.newNode = mem.newNode /\ mem'.i = mem.i
        /\ mem'.oldHead = mem.oldHead
        /\ mem'.count = mem.count /\ mem'.deleted = mem.deleted
    BY <1>5, <1>13 DEF Step
  <2>3. /\ DOMAIN pc' = DOMAIN pc /\ pc'[t] = 33 /\ pc'[1] = pc[1] /\ pc'[o] = pc[o]
    BY <1>8, <2>1
  <2>4. /\ Pushes(t)' = Pushes(t) /\ Holding(t) = {mem.newNode[t]}
        /\ Holding(t)' = {mem.newNode[t]}
    BY <2>1, <2>2, <2>3 DEF Pushes, Holding
  <2>5. /\ Chained(mem'.next, list, mem'.head, Holding(t)', Holding(o))
        /\ mem'.next[mem.newNode[t]] = mem.oldHead[t]
        /\ \A n \in Holding(o) : mem'.next[n] = mem.next[n]
    <3>1. mem.oldHead[t] \in Nat
      BY <1>4, <1>5
    <3>2. Chained(mem.next, list, mem.head, {mem.newNode[t]}, Holding(o))
      BY <1>6, <2>4
    <3>3. mem.newNode[t] \in 1 .. Len(mem.next) /\ mem.newNode[t] \notin Holding(o)
          /\ Holding(o) \subseteq 1 .. Len(mem.next)
      BY <3>2 DEF Chained
    <3>4. /\ mem'.next \in Seq(Nat) /\ Len(mem'.next) = Len(mem.next)
          /\ mem'.next[mem.newNode[t]] = mem.oldHead[t]
          /\ \A k \in 1 .. Len(mem.next) : k # mem.newNode[t] => mem'.next[k] = mem.next[k]
      BY <1>7, <2>2, <3>1, <3>3
    <3>5. Chained(mem'.next, list, mem.head, {mem.newNode[t]}, Holding(o))
      BY <3>2, <3>4, NodePointed
    <3> QED
      BY <2>2, <2>4, <3>3, <3>4, <3>5
  <2>6. PusherInv(t)'
    BY <1>6, <2>1, <2>2, <2>3, <2>5 DEF PusherInv, End
  <2>7. pc[o] = 33 => mem'.next[mem.newNode[o]] = mem.next[mem.newNode[o]]
    BY <1>7, <2>5
  <2>8. Len(list) = Pushes(t)' + Pushes(o)
    BY <1>6, <2>4
  <2>9. StackInv(list)'
    <3>1. LeavesAlone(o)
      BY <1>5, <2>2, <2>3, <2>7 DEF LeavesAlone
    <3> QED
      BY <1>2, <1>3, <2>5, <2>6, <2>8, <3>1, PusherStep
  <2> QED
    BY <2>9
<1>14. CASE push_succeeds(t, 53)
  <2>1. pc[t] = 33 /\ pc' = [pc EXCEPT ![t] = 53] /\ mem.head = mem.oldHead[t]
    BY <1>14 DEF push_succeeds, Step, At, Goto
  <2>2. /\ DOMAIN mem' = DOMAIN mem /\ mem'.next = mem.next
        /\ mem'.head = mem.newNode[t] /\ mem'.newNode = mem.newNode /\ mem'.i = mem.i
        /\ mem'.oldHead = mem.oldHead
        /\ mem'.count = mem.count /\ mem'.deleted = mem.deleted
    BY <1>5, <1>14 DEF push_succeeds, Step
  <2>3. /\ DOMAIN pc' = DOMAIN pc /\ pc'[t] = 53 /\ pc'[1] = pc[1] /\ pc'[o] = pc[o]
    BY <1>8, <2>1
  <2>4. PICK n : n = mem.newNode[t]
    OBVIOUS
  <2>5. PICK after : after = Append(list, n)
    OBVIOUS
  <2>6. /\ Chained(mem.next, after, n, {}, Holding(o))
        /\ Len(after) = Len(list) + 1 /\ after \in Seq(Nat)
    <3>1. Chained(mem.next, list, mem.head, {n}, Holding(o))
      BY <1>6, <2>1, <2>4 DEF Holding
    <3>2. mem.next[n] = mem.head
      BY <1>6, <2>1, <2>4 DEF PusherInv
    <3> QED
      BY <2>5, <3>1, <3>2, NodePushed
  <2>7. mem.i[t] \in 1 .. Rounds
    BY <1>6, <2>1 DEF PusherInv, End
  <2>8. Pushes(t)' = Pushes(t) + 1 /\ Holding(t)' = {}
    BY <2>1, <2>2, <2>3, <2>7, RoundsAssumption DEF Pushes, Holding
  <2>9. PusherInv(t)'
    BY <2>2, <2>3, <2>7, RoundsAssumption DEF PusherInv, End
  <2>10. Chained(mem'.next, after, mem'.head, Holding(t)', Holding(o))
    BY <2>2, <2>4, <2>6, <2>8
  <2>11. Len(after) = Pushes(t)' + Pushes(o)
    BY <1>6, <1>7, <2>6, <2>8
  <2>12. StackInv(after)'
    <3>1. LeavesAlone(o)
      BY <1>5, <2>2, <2>3 DEF LeavesAlone
    <3> QED
      BY <1>2, <1>3, <2>6, <2>9, <2>10, <2>11, <3>1, PusherStep
  <2> QED
    BY <2>6, <2>12
<1>15. CASE Step(t, 33, mem, 31)
  <2>1. pc[t] = 33 /\ pc' = [pc EXCEPT ![t] = 31] /\ mem' = mem
    BY <1>15 DEF Step, At, Goto
  <2>2. /\ DOMAIN pc' = DOMAIN pc /\ pc'[t] = 31 /\ pc'[1] = pc[1] /\ pc'[o] = pc[o]
    BY <1>8, <2>1
  <2>3. PusherInv(t)'
    BY <1>6, <2>1, <2>2 DEF PusherInv, End
  <2>4. Pushes(t)' = Pushes(t) /\ Holding(t)' = Holding(t)
    BY <2>1, <2>2 DEF Pushes, Holding
  <2>5. /\ Chained(mem'.next, list, mem'.head, Holding(t)', Holding(o))
        /\ Len(list) = Pushes(t)' + Pushes(o)
    BY <1>6, <2>1, <2>4
  <2>6. StackInv(list)'
    <3>1. LeavesAlone(o)
      BY <1>5, <2>1, <2>2 DEF LeavesAlone
    <3> QED
      BY <1>2, <1>3, <2>3, <2>5, <3>1, PusherStep
  <2> QED
    BY <2>6
<1> QED
  BY <1>10, <1>11, <1>12, <1>13, <1>14, <1>15 DEF stack_worker, stack_push_node

LEMMA CounterKept ==
  ASSUME NEW list \in Seq(Nat), StackInv(list), NEW t \in Thread,
         stack_main(t) \/ stack_destructor(t)
  PROVE  StackInv(list)'
<1>1. /\ pc[t] \in {63, 68, 19} /\ Thread = 1 .. 3 /\ DOMAIN pc = 1 .. 3
      /\ \E line : pc' = [pc EXCEPT ![t] = line]
      /\ {pc[2], pc[3]} \subseteq {53, 28, 31, 32, 33, End}
  BY DEF stack_main, stack_destructor, Step, Await, At, Goto, StackInv, PusherInv, Thread
<1>2. t = 1
  <2>1. t \in {1, 2, 3}
    BY <1>1
  <2> QED
    BY <1>1, <2>1 DEF End
<1>3. pc'[2] = pc[2] /\ pc'[3] = pc[3] /\ DOMAIN pc' = DOMAIN pc
  BY <1>1, <1>2
<1>4. DOMAIN mem = {"next", "head", "newNode", "oldHead", "i", "node", "count", "deleted"}
  BY DEF StackInv
<1>5. /\ list \in Seq(1 .. Len(mem.next)) /\ Len(list) \in Nat /\ mem.next \in Seq(Nat)
      /\ \A k \in 1 .. Len(list) : list[k] # nullptr /\ mem.next[list[k]] = Top(list, k - 1)
                                   /\ list[k] \in Nat
      /\ mem.head = Top(list, Len(list))
  <2>1. /\ list \in Seq(1 .. Len(mem.next)) /\ mem.next \in Seq(Nat)
        /\ \A k \in 1 .. Len(list) : mem.next[list[k]] = Top(list, k - 1)
        /\ mem.head = Top(list, Len(list))
    BY DEF StackInv, Chained
  <2>2. \A k \in 1 .. Len(list) : list[k] \in 1 .. Len(mem.next)
    <3>1. list \in Seq(1 .. Len(mem.next))
      BY <2>1
    <3> QED
      BY <3>1
  <2> QED
    BY <2>1, <2>2 DEF nullptr
<1>6. ASSUME NEW k \in 0 .. Len(list), mem.node = Top(list, k)
      PROVE  /\ mem.node = nullptr <=> k = 0
             /\ mem.node # nullptr => mem.next[mem.node] = Top(list, k - 1) /\ mem.node = list[k]
                                      /\ k \in 1 .. Len(list)
  BY <1>5, <1>6 DEF Top
<1>7. ASSUME DOMAIN mem' = DOMAIN mem, mem'.next = mem.next, mem'.head = mem.head,
             mem'.newNode = mem.newNode, mem'.oldHead = mem.oldHead, mem'.i = mem.i,
             CounterInv(list)'
      PROVE  StackInv(list)'
  <2>1. /\ PusherInv(2)' /\ PusherInv(3)'
        /\ Holding(2)' = Holding(2) /\ Holding(3)' = Holding(3)
        /\ Pushes(2)' = Pushes(2) /\ Pushes(3)' = Pushes(3)
    BY <1>3, <1>7 DEF StackInv, PusherInv, Holding, Pushes
  <2>2. Thread' = 1 .. 3
    BY <1>1, <1>3 DEF Thread
  <2> HIDE DEF Chained, Holding, Pushes, PusherInv, CounterInv
  <2> QED
    BY <1>7, <2>1, <2>2 DEF StackInv
<1>8. CASE Await(t, 63, \A u \in Thread \ {t} : Ended(u), [mem EXCEPT !.node = mem.head], 68)
  <2>1. /\ pc[1] = 63 /\ pc'[1] = 68 /\ Ended(2) /\ Ended(3)
    BY <1>1, <1>2, <1>8 DEF Await, Step, At, Goto
  <2>2. /\ DOMAIN mem' = DOMAIN mem /\ mem'.next = mem.next /\ mem'.head = mem.head
        /\ mem'.newNode = mem.newNode /\ mem'.oldHead = mem.oldHead /\ mem'.i = mem.i
        /\ mem'.node = mem.head /\ mem'.count = mem.count /\ mem'.deleted = mem.deleted
    BY <1>4, <1>8 DEF Await, Step
  <2>3. mem.count = 0 /\ mem.deleted = <<>>
    BY <2>1 DEF StackInv, CounterInv
  <2>4. CounterInv(list)'
    BY <1>3, <1>5, <2>1, <2>2, <2>3 DEF CounterInv, Ended, End
  <2> QED
    BY <1>7, <2>2, <2>4
<1>9. CASE mem.node # nullptr
           /\ Step(t, 68, [mem EXCEPT !.count = @ + 1, !.node = mem.next[mem.node]], 68)
  <2>1. /\ pc[1] = 68 /\ pc'[1] = 68
    BY <1>1, <1>2, <1>9 DEF Step, At, Goto
  <2>2. /\ DOMAIN mem' = DOMAIN mem /\ mem'.next = mem.next /\ mem'.head = mem.head
        /\ mem'.newNode = mem.newNode /\ mem'.oldHead = mem.oldHead /\ mem'.i = mem.i
        /\ mem'.node = mem.next[mem.node] /\ mem'.count = mem.count + 1
        /\ mem'.deleted = mem.deleted
    BY <1>4, <1>9 DEF Step
  <2>3. /\ mem.count \in 0 .. Len(list) /\ mem.node = Top(list, Len(list) - mem.count)
        /\ mem.deleted = <<>> /\ Ended(2) /\ Ended(3)
    BY <2>1 DEF StackInv, CounterInv
  <2>4. Len(list) - mem.count \in 0 .. Len(list)
    BY <1>5, <2>3
  <2>5. /\ Len(list) - mem.count \in 1 .. Len(list)
        /\ mem.next[mem.node] = Top(list, (Len(list) - mem.count) - 1)
    BY <1>6, <1>9, <2>3, <2>4
  <2>6. /\ mem'.count \in 0 .. Len(list) /\ mem'.node = Top(list, Len(list) - mem'.count)
    <3>1. (Len(list) - mem.count) - 1 = Len(list) - (mem.count + 1)
          /\ mem.count + 1 \in 0 .. Len(list)
      <4>1. ASSUME NEW n \in Nat, NEW c \in 0 .. n, n - c \in 1 .. n
            PROVE  (n - c) - 1 = n - (c + 1) /\ c + 1 \in 0 .. n
        BY <4>1
      <4> QED
        BY <1>5, <2>3, <2>5, <4>1
    <3> QED
      BY <2>2, <2>5, <3>1
  <2>7. CounterInv(list)'
    BY <1>3, <2>1, <2>2, <2>3, <2>6 DEF CounterInv, Ended, End
  <2> QED
    BY <1>7, <2>2, <2>7
<1>10. CASE mem.node = nullptr /\ Step(t, 68, [mem EXCEPT !.node = mem.head], 19)
  <2>1. /\ pc[1] = 68 /\ pc'[1] = 19
    BY <1>1, <1>2, <1>10 DEF Step, At, Goto
  <2>2. /\ DOMAIN mem' = DOMAIN mem /\ mem'.next = mem.next /\ mem'.head = mem.head
        /\ mem'.newNode = mem.newNode /\ mem'.oldHead = mem.oldHead /\ mem'.i = mem.i
        /\ mem'.node = mem.head /\ mem'.count = mem.count /\ mem'.deleted = mem.deleted
    BY <1>4, <1>10 DEF Step
  <2>3. /\ mem.count \in 0 .. Len(list) /\ mem.node = Top(list, Len(list) - mem.count)
        /\ mem.deleted = <<>> /\ Ended(2) /\ Ended(3)
    BY <2>1 DEF StackInv, CounterInv
  <2>4. mem.count = Len(list)
    <3>1. Len(list) - mem.count \in 0 .. Len(list)
      BY <1>5, <2>3
    <3>2. Len(list) - mem.count = 0
      BY <1>6, <1>10, <2>3, <3>1
    <3> QED
      BY <1>5, <2>3, <3>2
  <2>5. /\ mem'.deleted = <<>> /\ mem'.deleted \in Seq(Nat) /\ Len(mem'.deleted) = 0
        /\ mem'.node = Top(list, Len(list) - Len(mem'.deleted))
    BY <1>5, <2>2, <2>3
  <2>6. CounterInv(list)'
    BY <1>3, <1>5, <2>1, <2>2, <2>3, <2>4, <2>5 DEF CounterInv, Ended, End
  <2> QED
    BY <1>7, <2>2, <2>6
<1>11. CASE mem.node # nullptr
            /\ Step(t, 19, [mem EXCEPT !.deleted = Append(@, mem.node),
                                       !.node = mem.next[mem.node]], 19)
  <2>1. /\ pc[1] = 19 /\ pc'[1] = 19
    BY <1>1, <1>2, <1>11 DEF Step, At, Goto
  <2>2. /\ DOMAIN mem' = DOMAIN mem /\ mem'.next = mem.next /\ mem'.head = mem.head
        /\ mem'.newNode = mem.newNode /\ mem'.oldHead = mem.oldHead /\ mem'.i = mem.i
        /\ mem'.node = mem.next[mem.node] /\ mem'.count = mem.count
        /\ mem'.deleted = Append(mem.deleted, mem.node)
    BY <1>4, <1>11 DEF Step
  <2> DEFINE d == mem.deleted
             e == Append(mem.deleted, mem.node)
  <2>3. /\ mem.count = Len(list) /\ d \in Seq(Nat) /\ Len(d) <= Len(list) /\ Len(d) \in Nat
        /\ mem.node = Top(list, Len(list) - Len(d))
        /\ \A k \in 1 .. Len(d) : d[k] = list[Len(list) + 1 - k]
        /\ Ended(2) /\ Ended(3)
    <3>1. /\ mem.count = Len(list) /\ mem.deleted \in Seq(Nat) /\ Len(mem.deleted) <= Len(list)
          /\ mem.node = Top(list, Len(list) - Len(mem.deleted))
          /\ \A k \in 1 .. Len(mem.deleted) : mem.deleted[k] = list[Len(list) + 1 - k]
          /\ Ended(2) /\ Ended(3)
      BY <2>1 DEF StackInv, CounterInv
    <3>2. Len(mem.deleted) \in Nat
      BY <3>1
    <3> QED
      BY <3>1, <3>2
  <2>4. Len(list) - Len(d) \in 0 .. Len(list)
    BY <1>5, <2>3
  <2>5. /\ Len(list) - Len(d) \in 1 .. Len(list) /\ mem.node = list[Len(list) - Len(d)]
        /\ mem.next[mem.node] = Top(list, (Len(list) - Len(d)) - 1)
    BY <1>6, <1>11, <2>3, <2>4
  <2>6. mem.node \in Nat
    BY <1>5, <2>5
  <2>7. /\ e \in Seq(Nat) /\ Len(e) = Len(d) + 1
        /\ \A k \in 1 .. Len(d) : e[k] = d[k]
        /\ e[Len(d) + 1] = mem.node
    BY <2>3, <2>6
  <2> HIDE DEF d, e
  <2>8. /\ Len(e) <= Len(list)
        /\ (Len(list) - Len(d)) - 1 = Len(list) - Len(e)
        /\ Len(list) - Len(d) = Len(list) + 1 - (Len(d) + 1)
    BY <1>5, <2>3, <2>5, <2>7
  <2>9. \A k \in 1 .. Len(e) : e[k] = list[Len(list) + 1 - k]
    <3>1. \A k \in 1 .. Len(e) : k \in 1 .. Len(d) \/ k = Len(d) + 1
      BY <2>3, <2>7
    <3> QED
      BY <2>3, <2>5, <2>7, <2>8, <3>1
  <2>10. mem'.deleted = e /\ mem'.node = Top(list, Len(list) - Len(e))
    BY <2>2, <2>5, <2>8 DEF e
  <2>11. CounterInv(list)'
    <3>1. /\ mem'.count = Len(list) /\ mem'.deleted \in Seq(Nat) /\ Len(mem'.deleted) <= Len(list)
          /\ mem'.node = Top(list, Len(list) - Len(mem'.deleted))
          /\ \A k \in 1 .. Len(mem'.deleted) : mem'.deleted[k] = list[Len(list) + 1 - k]
      BY <2>2, <2>3, <2>7, <2>8, <2>9, <2>10
    <3>2. Ended(2)' /\ Ended(3)'
      BY <1>3, <2>3 DEF Ended
    <3> QED
      BY <2>1, <3>1, <3>2 DEF CounterInv, Ended, End
  <2> QED
    BY <1>7, <2>2, <2>11
<1>12. CASE mem.node = nullptr /\ Step(t, 19, mem, End)
  <2>1. /\ pc[1] = 19 /\ pc'[1] = End /\ mem' = mem
    BY <1>1, <1>2, <1>12 DEF Step, At, Goto
  <2>2. /\ mem.deleted \in Seq(Nat) /\ Len(mem.deleted) <= Len(list) /\ Len(mem.deleted) \in Nat
        /\ mem.node = Top(list, Len(list) - Len(mem.deleted))
    BY <2>1 DEF StackInv, CounterInv
  <2>3. Len(mem.deleted) = Len(list)
    <3>1. Len(list) - Len(mem.deleted) \in 0 .. Len(list)
      BY <1>5, <2>2
    <3>2. Len(list) - Len(mem.deleted) = 0
      BY <1>6, <1>12, <2>2, <3>1
    <3> QED
      BY <1>5, <2>2, <3>2
  <2>4. CounterInv(list)
    BY DEF StackInv
  <2>5. CounterInv(list)'
    BY <1>3, <2>1, <2>3, <2>4 DEF CounterInv, Ended, End
  <2> QED
    BY <1>7, <2>1, <2>5
<1> QED
  BY <1>8, <1>9, <1>10, <1>11, <1>12 DEF stack_main, stack_destructor

LEMMA ReachedFromHead ==
  ASSUME NEW list, NEW hand, NEW other, Chained(mem.next, list, mem.head, hand, other)
  PROVE  Reachable = Contents(list)
<1> DEFINE links == mem.next
           Closed(S) == {mem.head} \cup {links[n] : n \in S} \subseteq S \cup {nullptr}
<1>1. /\ links \in Seq(Nat) /\ list \in Seq(1 .. Len(links))
      /\ \A k \in 1 .. Len(list) : links[list[k]] = Top(list, k - 1)
      /\ mem.head = Top(list, Len(list))
  BY DEF Chained
<1>2. /\ Len(list) \in Nat /\ DOMAIN list = 1 .. Len(list) /\ DOMAIN links = 1 .. Len(links)
      /\ \A k \in 1 .. Len(list) : list[k] \in 1 .. Len(links) /\ list[k] # nullptr
  <2>1. \A k \in 1 .. Len(list) : list[k] \in 1 .. Len(links)
    BY <1>1
  <2> QED
    BY <1>1, <2>1 DEF nullptr
<1>3. \A k \in 1 .. Len(list) : list[k] \in Contents(list)
  BY <1>2 DEF Contents
<1>4. Contents(list) \subseteq 1 .. Len(links)
  BY <1>2 DEF Contents
<1>5. Closed(Contents(list))
  <2>1. \A k \in 0 .. Len(list) : Top(list, k) \in Contents(list) \cup {nullptr}
    BY <1>2, <1>3 DEF Top
  <2>2. mem.head \in Contents(list) \cup {nullptr}
    BY <1>1, <1>2, <2>1
  <2>3. ASSUME NEW n \in Contents(list) PROVE links[n] \in Contents(list) \cup {nullptr}
    <3>1. PICK k \in 1 .. Len(list) : n = list[k]
      BY <1>2 DEF Contents
    <3>2. k - 1 \in 0 .. Len(list)
      BY <1>2
    <3> QED
      BY <1>1, <2>1, <3>1, <3>2
  <2> QED
    BY <2>2, <2>3
<1>6. ASSUME NEW S, Closed(S), NEW l \in 1 .. Len(list) PROVE list[l] \in S
  <2> DEFINE Missing == {n \in 1 .. Len(list) : list[Len(list) + 1 - n] \notin S}
  <2> SUFFICES ASSUME list[l] \notin S PROVE FALSE
    OBVIOUS
  <2>1. Missing \subseteq Nat /\ Missing # {}
    <3>1. Len(list) + 1 - l \in 1 .. Len(list) /\ Len(list) + 1 - (Len(list) + 1 - l) = l
      BY <1>2
    <3> QED
      BY <3>1
  <2>2. PICK n \in Missing : \A m \in Missing : n <= m
    <3> HIDE DEF Missing
    <3> QED
      BY <2>1, LeastNumber
  <2> DEFINE k == Len(list) + 1 - n
  <2>3. n \in 1 .. Len(list) /\ k \in 1 .. Len(list) /\ list[k] \notin S
    BY <1>2
  <2>4. list[k] \in S \cup {nullptr}
    <3>1. CASE n = 1
      <4>1. k = Len(list) /\ Len(list) # 0
        BY <1>2, <2>3, <3>1
      <4>2. mem.head = list[k]
        BY <1>1, <4>1 DEF Top
      <4> QED
        BY <1>6, <4>2
    <3>2. CASE n # 1
      <4>1. /\ n - 1 \in 1 .. Len(list) /\ ~(n <= n - 1)
            /\ Len(list) + 1 - (n - 1) = k + 1
            /\ k + 1 \in 1 .. Len(list) /\ (k + 1) - 1 = k /\ k # 0
        BY <1>2, <2>3, <3>2
      <4>2. list[k + 1] \in S
        <5>1. n - 1 \notin Missing
          <6> HIDE DEF Missing
          <6> QED
            BY <2>2, <4>1
        <5> QED
          BY <4>1, <5>1
      <4> HIDE DEF k
      <4>3. links[list[k + 1]] = list[k]
        BY <1>1, <4>1 DEF Top
      <4> QED
        BY <1>6, <4>2, <4>3
    <3> QED
      BY <3>1, <3>2
  <2> HIDE DEF k
  <2> QED
    BY <1>2, <2>3, <2>4
<1>7. Contents(list) \subseteq Reachable
  <2> SUFFICES ASSUME NEW n \in Contents(list) PROVE n \in Reachable
    OBVIOUS
  <2>1. PICK l \in 1 .. Len(list) : n = list[l]
    BY <1>2 DEF Contents
  <2>2. n \in DOMAIN links /\ \A S \in SUBSET DOMAIN links : Closed(S) => n \in S
    BY <1>2, <1>6, <2>1
  <2> QED
    BY <2>2 DEF Reachable
<1>8. Reachable \subseteq Contents(list)
  <2>1. Contents(list) \in SUBSET DOMAIN links
    BY <1>2, <1>4
  <2> QED
    BY <1>5, <2>1 DEF Reachable
<1> QED
  BY <1>7, <1>8

LEMMA GiversStep ==
  ASSUME NEW t, ThreadStep(t)
  PROVE  /\ program = "mutex_example" => Transfer(t)
         /\ program = "producer_consumer" => producer(t) \/ consumer(t)
         /\ program \in {"thread_safe_queue", "thread_safe_queue_pop"} =>
              push(t) \/ pop(t) \/ wait_pop(t)
         /\ program = "thread_safe_stack" => stack_push(t) \/ stack_pop(t)
         /\ program = "lock_free_stack" =>
              stack_main(t) \/ stack_destructor(t) \/ stack_worker(t)
BY DEF ThreadStep, LockStep, MonitorStep, EventStep, FutureStep, SchedulerStep, KernelStep,
       DataStep

LEMMA GiversStart ==
  ASSUME Init
  PROVE  /\ program = "mutex_example" => Boot(program, MutexExample)
         /\ program = "producer_consumer" => Boot(program, ProducerConsumer)
         /\ program = "thread_safe_queue" => Boot(program, SafeQueueClients)
         /\ program = "thread_safe_queue_pop" => Boot(program, SafeQueueWithPop)
         /\ program = "thread_safe_stack" => Boot(program, SafeStackClients)
         /\ program = "lock_free_stack" => Boot(program, StackMain)
<1>1. CASE Boots(LockMains)
  BY <1>1, BootOf DEF LockMains
<1>2. CASE Boots(MonitorMains)
  BY <1>2, BootOf DEF MonitorMains
<1>3. CASE Boots(EventMains)
  BY <1>3, BootOf DEF EventMains
<1>4. CASE Boots(FutureMains)
  BY <1>4, BootOf DEF FutureMains
<1>5. CASE Boots(SchedulerMains)
  BY <1>5, BootOf DEF SchedulerMains
<1>6. CASE Boots(KernelMains)
  BY <1>6, BootOf DEF KernelMains
<1>7. CASE Boots(DataMains)
  BY <1>7, BootOf DEF DataMains
<1> QED
  BY <1>1, <1>2, <1>3, <1>4, <1>5, <1>6, <1>7 DEF Init

LEMMA NothingYet ==
  /\ Contents(<<>>) = {} /\ Len(<<>>) = 0 /\ Cardinality({}) = 0
  /\ \A S : <<>> \in Seq(S)
<1>1. Contents(<<>>) = {} /\ Len(<<>>) = 0 /\ \A S : <<>> \in Seq(S)
  BY DEF Contents
<1>2. Cardinality({}) = 0
  BY FS_EmptySet
<1> QED
  BY <1>1, <1>2

LEMMA KeptStart == Init => KeptInv
<1> SUFFICES ASSUME Init PROVE KeptInv
  OBVIOUS
<1> USE DEF Boot, Main, Thread, Ended, End
<1>1. ASSUME program = "mutex_example" PROVE AccountsInv
  <2>1. /\ pc = <<46, 46, 46, 46>>
        /\ mem = [balance |-> <<Balance, Balance>>, amount |-> <<0, 0, 0, 0>>,
                  i |-> <<0, 0, 0, 0>>]
    BY <1>1, GiversStart DEF MutexExample
  <2>2. Balance \in Nat
    BY LockAssumption
  <2> QED
    BY <2>1, <2>2 DEF AccountsInv
<1>2. ASSUME program = "producer_consumer" PROVE LineInv
  <2>1. mem = [q |-> <<>>, popped |-> <<>>, i |-> 0, finished |-> FALSE]
    BY <1>2, GiversStart DEF ProducerConsumer
  <2> QED
    BY <2>1 DEF LineInv, Successive
<1>3. ASSUME program \in {"thread_safe_queue", "thread_safe_queue_pop"} PROVE ServedInv
  <2>1. /\ pc = <<12, 12, 12, 38, 38>> \/ pc = <<12, 12, 12, 38, 25>>
        /\ mem = [queue |-> <<>>, got |-> <<Null, Null, Null, Null, Null>>]
    BY <1>3, GiversStart DEF SafeQueueClients, SafeQueueWithPop
  <2>2. /\ Thread = 1 .. 5 /\ DOMAIN mem = {"queue", "got"} /\ mem.queue = <<>>
        /\ \A t \in 1 .. 5 : mem.got[t] = Null
        /\ mem.got \in [1 .. 5 -> 0 .. 3]
    BY <2>1 DEF Null
  <2>3. \A t \in 1 .. 3 : pc[t] = 12
    BY <2>1
  <2>4. \A t \in 4 .. 5 : pc[t] \in {38, 25}
    BY <2>1
  <2>5. Pushed({15, End}) = {} /\ Served(4) = {} /\ Served(5) = {}
    BY <2>2, <2>3 DEF Pushed, Served
  <2>6. EachOnce(Pushed({15, End}), Contents(mem.queue) \cup Served(4) \cup Served(5),
                Len(mem.queue) + Cardinality(Served(4)) + Cardinality(Served(5)))
    <3> HIDE DEF Thread, Ended, End
    <3>1. 0 + 0 + 0 = 0
      OBVIOUS
    <3> QED
      BY <2>2, <2>5, <3>1, NothingYet DEF EachOnce
  <2> QED
    BY <2>2, <2>3, <2>4, <2>6 DEF ServedInv
<1>4. ASSUME program = "thread_safe_stack" PROVE StackedInv
  <2>1. /\ pc = <<5, 5, 5, 19, 19>>
        /\ mem = [_stack |-> <<>>, got |-> <<Null, Null, Null, Null, Null>>, thrown |-> {}]
    BY <1>4, GiversStart DEF SafeStackClients
  <2>2. /\ Thread = 1 .. 5 /\ DOMAIN mem = {"_stack", "got", "thrown"} /\ mem._stack = <<>>
        /\ \A t \in 1 .. 5 : mem.got[t] = Null
        /\ mem.got \in [1 .. 5 -> 0 .. 3]
    BY <2>1 DEF Null
  <2>3. (\A t \in 1 .. 3 : pc[t] = 5) /\ (\A t \in 4 .. 5 : pc[t] = 19)
    BY <2>1
  <2>4. Pushed({End}) = {} /\ Served(4) = {} /\ Served(5) = {}
    BY <2>2, <2>3 DEF Pushed, Served
  <2>5. EachOnce(Pushed({End}), Contents(mem._stack) \cup Served(4) \cup Served(5),
                Len(mem._stack) + Cardinality(Served(4)) + Cardinality(Served(5)))
    <3> HIDE DEF Thread, Ended, End
    <3>1. 0 + 0 + 0 = 0
      OBVIOUS
    <3> QED
      BY <2>2, <2>4, <3>1, NothingYet DEF EachOnce
  <2> QED
    BY <2>2, <2>3, <2>5 DEF StackedInv
<1>5. ASSUME program = "jthread_1" PROVE JobsInv
  <2>1. /\ pc = <<158, 93, 135, 28, 28>>
        /\ mem = [queue_ |-> <<>>, job |-> <<0, 0, 0, 0, 0>>, id |-> 0, completed_ |-> 0,
                  checksum_ |-> {}, stop |-> {}, gone |-> {}, late |-> {}]
    BY <1>5, StartOf DEF Scheduler
  <2>2. /\ mem.id = 0 /\ mem.queue_ = <<>> /\ mem.completed_ = 0 /\ mem.checksum_ = {}
        /\ mem.job \in [1 .. 5 -> Nat]
        /\ pc[2] = 93 /\ pc[4] = 28 /\ pc[5] = 28
    BY <2>1
  <2>3. Issued = 0 /\ InHand(4) = {} /\ InHand(5) = {}
    BY <2>2 DEF Issued, InHand, Working
  <2>4. Accounted(0, <<>>, 0, {}, {}, {})
    <3>1. <<>> \in Seq(1 .. 0) /\ Distinct(<<>>) /\ 1 .. 0 = {}
      BY DEF Distinct
    <3>2. 0 + Size({}) + Size({}) + 0 = 0 /\ 0 \in Nat
      BY DEF Size
    <3> QED
      BY <3>1, <3>2, NothingYet DEF Accounted
  <2> HIDE DEF Issued, InHand, Accounted, Boot, Main, Thread, Ended, End
  <2>5. Accounted(Issued, mem.queue_, mem.completed_, mem.checksum_, InHand(4), InHand(5))
    BY <2>2, <2>3, <2>4
  <2>6. mem.id \in Nat /\ mem.job \in [1 .. 5 -> Nat] /\ pc[2] # 21
    BY <2>2
  <2>7. \A t \in {4, 5} : pc[t] # 34
    BY <2>2
  <2> QED
    BY <2>5, <2>6, <2>7 DEF JobsInv
<1>6. ASSUME program = "lock_free_stack" PROVE \E list \in Seq(Nat) : StackInv(list)
  <2>1. /\ pc = <<63, 53, 53>>
        /\ mem = [next |-> <<>>, head |-> nullptr, newNode |-> <<0, 0, 0>>,
                  oldHead |-> <<0, 0, 0>>, i |-> <<0, 0, 0>>,
                  node |-> nullptr, count |-> 0, deleted |-> <<>>]
    BY <1>6, GiversStart DEF StackMain
  <2>2. /\ DOMAIN mem = {"next", "head", "newNode", "oldHead", "i", "node", "count", "deleted"}
        /\ mem.next = <<>> /\ mem.head = nullptr /\ mem.count = 0 /\ mem.deleted = <<>>
        /\ mem.newNode \in [1 .. 3 -> Nat] /\ mem.oldHead \in [1 .. 3 -> Nat]
        /\ mem.i \in [1 .. 3 -> Nat] /\ mem.i[2] = 0 /\ mem.i[3] = 0
        /\ Thread = 1 .. 3 /\ pc[1] = 63 /\ pc[2] = 53 /\ pc[3] = 53
    BY <2>1
  <2>3. PusherInv(2) /\ PusherInv(3) /\ CounterInv(<<>>)
    BY <2>2, RoundsAssumption DEF PusherInv, CounterInv
  <2>4. Holding(2) = {} /\ Holding(3) = {} /\ Pushes(2) = 0 /\ Pushes(3) = 0
    BY <2>2 DEF Holding, Pushes
  <2>5. Chained(<<>>, <<>>, nullptr, {}, {})
    <3>1. /\ <<>> \in Seq(1 .. 0) /\ <<>> \in Seq(Nat) /\ Distinct(<<>>) /\ 1 .. 0 = {}
          /\ Top(<<>>, 0) = nullptr
      BY DEF Distinct, Top
    <3>2. 0 + Size({}) + Size({}) = 0
      BY DEF Size
    <3> QED
      BY <3>1, <3>2, NothingYet DEF Chained
  <2>6. Len(<<>>) = Pushes(2) + Pushes(3)
    BY <2>4
  <2>7. StackInv(<<>>)
    BY <2>2, <2>3, <2>4, <2>5, <2>6 DEF StackInv
  <2> QED
    BY <2>7, NothingYet
<1> QED
  BY <1>1, <1>2, <1>3, <1>4, <1>5, <1>6 DEF KeptInv

LEMMA KeptNext == LockInv /\ OrderInv /\ KeptInv /\ [Next]_vars => KeptInv'
<1> SUFFICES ASSUME LockInv, OrderInv, KeptInv, [Next]_vars PROVE KeptInv'
  OBVIOUS
<1>1. program' = program
  BY LockNext
<1>2. CASE UNCHANGED <<pc, owner, mem>>
  <2>1. (AccountsInv => AccountsInv') /\ (LineInv => LineInv')
    BY <1>2 DEF AccountsInv, LineInv, Thread
  <2>2. (ServedInv => ServedInv') /\ (StackedInv => StackedInv')
    BY <1>2 DEF ServedInv, StackedInv, Thread, Ended, Pushed, Served
  <2>3. JobsInv => JobsInv'
    BY <1>2 DEF JobsInv, Issued, InHand, Working
  <2>4. ASSUME NEW list, StackInv(list) PROVE StackInv(list)'
    BY <1>2, <2>4 DEF StackInv, PusherInv, CounterInv, Holding, Pushes, Thread, Ended
  <2> QED
    BY <1>1, <2>1, <2>2, <2>3, <2>4 DEF KeptInv
<1>3. CASE \E t \in Thread : ThreadStep(t)
  <2> PICK t \in Thread : ThreadStep(t)
    BY <1>3
  <2>1. program = "mutex_example" => AccountsInv'
    BY GiversStep, AccountsKept DEF KeptInv
  <2>2. program = "producer_consumer" => LineInv'
    BY GiversStep, LineKept DEF KeptInv
  <2>3. program \in {"thread_safe_queue", "thread_safe_queue_pop"} => ServedInv'
    BY GiversStep, ServedKept DEF KeptInv
  <2>4. program = "thread_safe_stack" => StackedInv'
    BY GiversStep, StackedKept DEF KeptInv
  <2>5. program = "jthread_1" => JobsInv'
    BY StepOf, JobsKept DEF KeptInv, OrderInv
  <2>6. program = "lock_free_stack" => \E list \in Seq(Nat) : StackInv(list)'
    BY GiversStep, PusherKept, CounterKept DEF KeptInv
  <2> QED
    BY <1>1, <2>1, <2>2, <2>3, <2>4, <2>5, <2>6 DEF KeptInv
<1> QED
  BY <1>2, <1>3 DEF Next, SpuriousWakeup, vars, machineVars

LEMMA CountUpTo ==
  ASSUME NEW n \in Nat
  PROVE  IsFiniteSet(1 .. n) /\ Cardinality(1 .. n) = n
<1>1. \A a, b \in Int : /\ IsFiniteSet(a .. b)
                        /\ Cardinality(a .. b) = IF a > b THEN 0 ELSE b - a + 1
  BY FS_Interval
<1>2. 1 \in Int /\ n \in Int
  OBVIOUS
<1>3. Cardinality(1 .. n) = IF 1 > n THEN 0 ELSE n - 1 + 1
  BY <1>1, <1>2
<1> QED
  BY <1>1, <1>2, <1>3

LEMMA JobsEachOnce ==
  ASSUME JobsInv
  PROVE  LET working == {t \in {4, 5} : pc[t] \in {121, 122}}
         IN  EachOnce(1 .. (IF pc[2] = 21 THEN mem.id - 1 ELSE mem.id),
                      mem.checksum_ \cup {mem.job[t] : t \in working} \cup Contents(mem.queue_),
                      mem.completed_ + Cardinality(working) + Len(mem.queue_))
<1> DEFINE working == {t \in {4, 5} : Working(t)}
<1>9. Accounted(Issued, mem.queue_, mem.completed_, mem.checksum_, InHand(4), InHand(5))
  <2> HIDE DEF working
  <2> QED
    BY DEF JobsInv
<1>10. Issued \in Nat
  BY DEF JobsInv, Issued
<1>1. /\ mem.queue_ \in Seq(1 .. Issued) /\ mem.completed_ \in Nat
      /\ mem.checksum_ \cup Contents(mem.queue_) \cup InHand(4) \cup InHand(5) = 1 .. Issued
      /\ mem.completed_ + Size(InHand(4)) + Size(InHand(5)) + Len(mem.queue_) = Issued
      /\ Issued \in Nat
  <2> HIDE DEF working, Issued
  <2> QED
    BY <1>9, <1>10 DEF Accounted
<1>2. {mem.job[t] : t \in working} = InHand(4) \cup InHand(5)
  BY DEF InHand
<1>3. Cardinality(working) = Size(InHand(4)) + Size(InHand(5))
  <2>1. \A v : Cardinality({v}) = 1
    BY FS_Singleton
  <2>2. CASE Working(4) /\ Working(5)
    <3>1. working = {4} \cup {5}
      BY <2>2
    <3>2. Cardinality({4} \cup {5}) = Cardinality({4}) + 1
      <4>1. \A v : IsFiniteSet({v})
        BY FS_Singleton
      <4>2. 5 \notin {4}
        OBVIOUS
      <4>3. \A S, x : IsFiniteSet(S) /\ x \notin S => Cardinality(S \cup {x}) = Cardinality(S) + 1
        BY FS_AddElement
      <4>4. IsFiniteSet({4})
        BY <4>1
      <4> QED
        BY <4>2, <4>3, <4>4
    <3>3. Size(InHand(4)) = 1 /\ Size(InHand(5)) = 1
      BY <2>2 DEF InHand, Size
    <3> HIDE DEF working
    <3>4. Cardinality(working) = 1 + 1
      BY <2>1, <3>1, <3>2
    <3> QED
      BY <3>3, <3>4
  <2>3. CASE Working(4) /\ ~Working(5)
    <3>1. working = {4} /\ Size(InHand(4)) = 1 /\ Size(InHand(5)) = 0
      BY <2>3 DEF InHand, Size
    <3> HIDE DEF working
    <3>2. Cardinality(working) = 1
      BY <2>1, <3>1
    <3> QED
      BY <3>1, <3>2
  <2>4. CASE ~Working(4) /\ Working(5)
    <3>1. working = {5} /\ Size(InHand(4)) = 0 /\ Size(InHand(5)) = 1
      BY <2>4 DEF InHand, Size
    <3> HIDE DEF working
    <3>2. Cardinality(working) = 1
      BY <2>1, <3>1
    <3> QED
      BY <3>1, <3>2
  <2>5. CASE ~Working(4) /\ ~Working(5)
    <3>1. working = {} /\ Size(InHand(4)) = 0 /\ Size(InHand(5)) = 0
      BY <2>5 DEF InHand, Size
    <3> HIDE DEF working
    <3>2. Cardinality(working) = 0
      BY <3>1, NothingYet
    <3> QED
      BY <3>1, <3>2
  <2> HIDE DEF working
  <2> QED
    BY <2>2, <2>3, <2>4, <2>5
<1>4. Cardinality(1 .. Issued) = Issued
  BY <1>1, CountUpTo
<1>5. Cardinality(working) \in Nat /\ Len(mem.queue_) \in Nat
      /\ Size(InHand(4)) \in Nat /\ Size(InHand(5)) \in Nat
  BY <1>1, <1>3 DEF Size
<1>6. mem.completed_ + Cardinality(working) + Len(mem.queue_) = Issued
  <2> HIDE DEF working
  <2> QED
    BY <1>1, <1>3, <1>5
<1>7. mem.checksum_ \cup {mem.job[t] : t \in working} \cup Contents(mem.queue_) = 1 .. Issued
  BY <1>1, <1>2
<1>8. EachOnce(1 .. Issued,
               mem.checksum_ \cup {mem.job[t] : t \in working} \cup Contents(mem.queue_),
               mem.completed_ + Cardinality(working) + Len(mem.queue_))
  BY <1>4, <1>6, <1>7 DEF EachOnce
<1> QED
  BY <1>8 DEF Issued, Working

LEMMA StackEachOnce ==
  ASSUME NEW list \in Seq(Nat), StackInv(list)
  PROVE  /\ Reachable \cup {mem.newNode[t] : t \in {u \in 2 .. 3 : pc[u] \in {31, 32, 33}}}
              = DOMAIN mem.next
         /\ AllEnded => /\ mem.count = 2 * Rounds
                        /\ EachOnce(DOMAIN mem.next, Contents(mem.deleted), Len(mem.deleted))
<1>1. /\ mem.next \in Seq(Nat) /\ list \in Seq(1 .. Len(mem.next))
      /\ Contents(list) \cup Holding(2) \cup Holding(3) = 1 .. Len(mem.next)
      /\ Len(list) + Size(Holding(2)) + Size(Holding(3)) = Len(mem.next)
  BY DEF StackInv, Chained
<1>2. Reachable = Contents(list)
  BY ReachedFromHead DEF StackInv
<1>3. {mem.newNode[t] : t \in {u \in 2 .. 3 : pc[u] \in {31, 32, 33}}} = Holding(2) \cup Holding(3)
  <2>1. 2 .. 3 = {2, 3}
    OBVIOUS
  <2> QED
    BY <2>1 DEF Holding
<1>4. DOMAIN mem.next = 1 .. Len(mem.next) /\ Len(mem.next) \in Nat /\ Len(list) \in Nat
  BY <1>1
<1>5. ASSUME AllEnded
      PROVE  /\ mem.count = 2 * Rounds
             /\ EachOnce(DOMAIN mem.next, Contents(mem.deleted), Len(mem.deleted))
  <2>1. Ended(1) /\ Ended(2) /\ Ended(3)
    BY <1>5 DEF StackInv, AllEnded
  <2>2. Pushes(2) = Rounds /\ Pushes(3) = Rounds /\ Holding(2) = {} /\ Holding(3) = {}
    BY <2>1, RoundsAssumption DEF StackInv, PusherInv, Pushes, Holding, Ended, End
  <2>3. /\ mem.count = Len(list) /\ Len(mem.deleted) = Len(list) /\ mem.deleted \in Seq(Nat)
        /\ \A k \in 1 .. Len(mem.deleted) : mem.deleted[k] = list[Len(list) + 1 - k]
        /\ Len(list) = Pushes(2) + Pushes(3)
    BY <2>1 DEF StackInv, CounterInv, Ended
  <2>4. mem.count = 2 * Rounds
    BY <2>2, <2>3, RoundsAssumption
  <2>5. Len(mem.next) = Len(list)
    BY <1>1, <1>4, <2>2 DEF Size
  <2>6. Contents(mem.deleted) = Contents(list)
    <3>1. DOMAIN mem.deleted = 1 .. Len(list) /\ DOMAIN list = 1 .. Len(list)
      BY <1>1, <2>3
    <3>2. \A k \in 1 .. Len(list) : /\ Len(list) + 1 - k \in 1 .. Len(list)
                                    /\ Len(list) + 1 - (Len(list) + 1 - k) = k
      BY <1>4
    <3>3. \A k \in 1 .. Len(list) : mem.deleted[k] = list[Len(list) + 1 - k]
      BY <2>3
    <3>4. \A k \in 1 .. Len(list) : list[k] = mem.deleted[Len(list) + 1 - k]
      BY <3>2, <3>3
    <3>5. Contents(mem.deleted) \subseteq Contents(list)
      <4> SUFFICES ASSUME NEW k \in 1 .. Len(list) PROVE mem.deleted[k] \in Contents(list)
        BY <3>1 DEF Contents
      <4> QED
        BY <3>1, <3>2, <3>3 DEF Contents
    <3>6. Contents(list) \subseteq Contents(mem.deleted)
      <4> SUFFICES ASSUME NEW k \in 1 .. Len(list) PROVE list[k] \in Contents(mem.deleted)
        BY <3>1 DEF Contents
      <4> QED
        BY <3>1, <3>2, <3>4 DEF Contents
    <3> QED
      BY <3>5, <3>6
  <2>7. Contents(list) = DOMAIN mem.next
    BY <1>1, <1>4, <2>2
  <2>8. Cardinality(DOMAIN mem.next) = Len(mem.deleted)
    BY <1>4, <2>3, <2>5, CountUpTo
  <2> QED
    BY <2>4, <2>6, <2>7, <2>8 DEF EachOnce
<1> QED
  BY <1>1, <1>2, <1>3, <1>4, <1>5

LEMMA LineWhole ==
  ASSUME NEW p, NEW q, Successive(p, q)
  PROVE  p \o q = [k \in 1 .. Len(p) + Len(q) |-> k - 1]
<1>1. /\ p \in Seq(Nat) /\ q \in Seq(Nat) /\ Len(p) \in Nat /\ Len(q) \in Nat
      /\ \A k \in 1 .. Len(p) : p[k] = k - 1
      /\ \A k \in 1 .. Len(q) : q[k] = Len(p) + k - 1
  BY DEF Successive
<1> DEFINE s == p \o q
<1>2. s \in Seq(Nat) /\ Len(s) = Len(p) + Len(q)
  BY <1>1, ConcatProperties
<1>3. \A k \in 1 .. Len(p) + Len(q) : s[k] = IF k <= Len(p) THEN p[k] ELSE q[k - Len(p)]
  BY <1>1, ConcatProperties
<1> HIDE DEF s
<1>4. ASSUME NEW k \in 1 .. Len(p) + Len(q) PROVE s[k] = k - 1
  <2>1. CASE k <= Len(p)
    <3>1. k \in 1 .. Len(p)
      BY <1>1, <2>1
    <3> QED
      BY <1>1, <1>3, <2>1, <3>1
  <2>2. CASE ~(k <= Len(p))
    <3>1. k - Len(p) \in 1 .. Len(q) /\ Len(p) + (k - Len(p)) - 1 = k - 1
      BY <1>1, <2>2
    <3>2. q[k - Len(p)] = k - 1
      BY <1>1, <3>1
    <3> QED
      BY <1>3, <2>2, <3>2
  <2> QED
    BY <2>1, <2>2
<1>5. s = [k \in 1 .. Len(p) + Len(q) |-> s[k]]
  <2>1. s = [k \in 1 .. Len(s) |-> s[k]]
    BY <1>2
  <2> QED
    BY <1>2, <2>1
<1>6. s = [k \in 1 .. Len(p) + Len(q) |-> k - 1]
  BY <1>4, <1>5
<1> QED
  BY <1>6 DEF s

\* The two accounts of mutex_example.cpp, the queue of producer_consumer.cpp, the queue and
\* the stack of the mutex programs, the jobs of jthread_1.cpp and the nodes of the lock-free
\* stack lose nothing and hand nothing out twice, for loops of any length and any amounts.
THEOREM NothingIsLost == Spec => []NothingLost
<1>1. KeptInv => NothingLost
  <2> SUFFICES ASSUME KeptInv PROVE NothingLost
    OBVIOUS
  <2>1. ASSUME program = "mutex_example"
        PROVE  SumOf[mem.balance] = 2 * Balance /\ \A a \in 1 .. 2 : mem.balance[a] >= 0
    <3>1. /\ mem.balance \in [1 .. 2 -> Nat]
          /\ mem.balance[1] + mem.balance[2] = 2 * Balance
      BY <2>1 DEF KeptInv, AccountsInv
    <3>2. mem.balance = <<mem.balance[1], mem.balance[2]>>
      BY <3>1
    <3>3. /\ mem.balance[1] \in Int /\ mem.balance[2] \in Int
          /\ \A a \in 1 .. 2 : mem.balance[a] >= 0
      BY <3>1
    <3>4. SumOf[<<mem.balance[1], mem.balance[2]>>] = mem.balance[1] + mem.balance[2]
      BY <3>3, SumOfTwo
    <3> QED
      BY <3>1, <3>2, <3>3, <3>4
  <2>2. ASSUME program = "producer_consumer"
        PROVE  mem.popped \o mem.q = [k \in 1 .. mem.i |-> k - 1]
    <3>1. Successive(mem.popped, mem.q) /\ mem.i = Len(mem.popped) + Len(mem.q)
      BY <2>2 DEF KeptInv, LineInv
    <3> QED
      BY <3>1, LineWhole
  <2>3. program \in {"thread_safe_queue", "thread_safe_queue_pop"} =>
          EachOnce(Pushed({15, End}), Contents(mem.queue) \cup Served(4) \cup Served(5),
                   Len(mem.queue) + Cardinality(Served(4)) + Cardinality(Served(5)))
    BY DEF KeptInv, ServedInv
  <2>4. program = "thread_safe_stack" =>
          EachOnce(Pushed({End}), Contents(mem._stack) \cup Served(4) \cup Served(5),
                   Len(mem._stack) + Cardinality(Served(4)) + Cardinality(Served(5)))
    BY DEF KeptInv, StackedInv
  <2>5. program = "jthread_1" => JobsInv
    BY DEF KeptInv
  <2>6. ASSUME program = "lock_free_stack"
        PROVE  /\ Reachable \cup {mem.newNode[t] : t \in {u \in 2 .. 3 : pc[u] \in {31, 32, 33}}}
                    = DOMAIN mem.next
               /\ AllEnded => /\ mem.count = 2 * Rounds
                              /\ EachOnce(DOMAIN mem.next, Contents(mem.deleted), Len(mem.deleted))
    BY <2>6, StackEachOnce DEF KeptInv
  <2> HIDE DEF KeptInv
  <2> QED
    BY <2>1, <2>2, <2>3, <2>4, <2>5, <2>6, JobsEachOnce DEF NothingLost
<1> QED
  BY <1>1, LocksInvariant, LockStart, LockNext, OrderStart, OrderNext, KeptStart, KeptNext, PTL
     DEF Spec

-----------------------------------------------------------------------------
\* Results

\* A thread that is past its get() has got what the promise was given.
SharedFutureInv ==
    /\ Thread = 1 .. 3 /\ DOMAIN mem = {"px", "got"} /\ DOMAIN mem.got = 1 .. 3
    /\ mem.px \in {Pending, Value(42)}
    /\ pc[1] \in {15, End}
    /\ \A t \in 2 .. 3 : /\ pc[t] \in {21, 23, 26, End}
                         /\ pc[t] # 21 => mem.got[t] = Value(42)

\* One thread keeps a promise on its only line, another asks for it on its own.
HandOver(teller, line, asker, state, value) ==
    /\ Thread = 1 .. 2 /\ DOMAIN mem = {state, "got"} /\ DOMAIN mem.got = 1 .. 2
    /\ mem[state] \in {Pending, value}
    /\ pc[teller] \in {line, End}
    /\ Ended(asker) => mem.got[asker] = value

PacketInv == HandOver(1, 22, 2, "p", Value("ID-9001")) /\ pc[2] \in {35, End}
PackagedInv == HandOver(1, 11, 2, "fut", Value(7)) /\ pc[2] \in {21, End}
DemoInv == HandOver(2, 9, 1, "result", Value(52)) /\ pc[1] \in {16, End}

\* Nobody keeps the promise of a call that is deferred.
FibonacciInv ==
    /\ Thread = 1 .. 2 /\ DOMAIN mem = {"result", "got", "policy"} /\ DOMAIN mem.got = 1 .. 2
    /\ mem.result \in {Pending, Value(5)}
    /\ pc[1] \in {21, 25, 28, End} /\ pc[2] \in {7, 13, End}
    /\ pc[1] = 21 => mem.policy = "none"
    /\ mem.result # Pending \/ pc[2] # 7 => mem.policy = "async"
    /\ pc[1] = 28 => mem.result # Pending
    /\ Ended(1) => mem.policy = "async" /\ mem.got[1] = Value(5)

ThrownInv ==
    /\ Thread = 1 .. 2 /\ DOMAIN mem = {"px", "got", "printed"} /\ DOMAIN mem.got = 1 .. 2
    /\ mem.px \in {Pending, Exception("out_of_range")}
    /\ pc[1] \in {13, 20, End} /\ pc[2] \in {27, 28, 31, End}
    /\ pc[2] = 28 => mem.got[2] = Exception("out_of_range")
    /\ Ended(2) => mem.printed = "exception"

\* The server's answers, and how many main() has reported.
Answers == {Value(200), Value(201)}
Reports(line) ==
    IF line \in {130, 143, 148} THEN 0 ELSE IF line \in {181, End} THEN 2 ELSE 1
Told(s) ==
    /\ s \in Seq({"value", "exception"})
    /\ \A k \in 1 .. Len(s) : (k = 1 => s[k] = "value") /\ (k > 1 => s[k] = "exception")
ServerInv ==
    /\ Thread = 1 .. 3
    /\ DOMAIN mem = {"server_promise", "error_promise", "response", "started", "got", "printed"}
    /\ DOMAIN mem.got = 1 .. 3
    /\ mem.server_promise \in Answers \cup {Pending}
    /\ mem.error_promise \in {Pending, Exception("server_timeout")}
    /\ pc[1] \in {130, 143, 148, 154, 166, 172, 176, 181, End}
    /\ pc[2] \in {62, 83, End} /\ pc[3] \in {90, 99, 102, End}
    /\ pc[2] = 83 => mem.response \in Answers
    /\ pc[1] = 148 => mem.got[1] \in Answers
    /\ pc[1] = 176 => mem.got[1] = Exception("server_timeout")
    /\ Told(mem.printed) /\ Len(mem.printed) = Reports(pc[1])

PackageInv ==
    /\ Thread = 1 .. 2 /\ DOMAIN mem = {"future_1", "future_2", "started", "got"}
    /\ DOMAIN mem.got = 1 .. 2
    /\ pc[1] \in {16, 18, 24, 25, End} /\ pc[2] \in {8, 10, End}
    /\ mem.future_1 \in {Pending, Value(11)} /\ mem.future_2 \in {Pending, Value(15)}
    /\ pc[1] \in {24, 25, End} => mem.future_1 # Pending
    /\ Ended(1) => mem.got[1] = Value(15)

\* The second task is launched with what main() got of the first.
AsyncInv ==
    /\ Thread = 1 .. 3 /\ DOMAIN mem = {"future_value", "final_future", "started", "got"}
    /\ DOMAIN mem.got = 1 .. 3
    /\ pc[1] \in {34, 40, 43, 45, End} /\ pc[2] \in {10, 11, End} /\ pc[3] \in {16, 17, End}
    /\ mem.future_value \in {Pending, Value(42)} /\ mem.final_future \in {Pending, Value(52)}
    /\ pc[1] \in {34, 40, 43} => pc[3] = 16 /\ 3 \notin mem.started
    /\ pc[1] \in {43, 45} => mem.got[1] = Value(42)
    /\ Ended(1) => mem.final_future # Pending /\ mem.got[1] = Value(52)

\* main() and its child wait for each other's promise in turn.
FatherInv ==
    /\ Thread = 1 .. 2 /\ DOMAIN mem = {"father", "son", "got"} /\ DOMAIN mem.got = 1 .. 2
    /\ pc[1] \in {28, 30, End} /\ pc[2] \in {8, 18, End}
    /\ mem.father \in {Pending, Value(8)} /\ mem.son \in {Pending, Value(21)}
    /\ pc[2] = 18 => mem.got[2] = Value(8)
    /\ Ended(1) => mem.got[1] = Value(21)

RootInv ==
    /\ Thread = 1 .. 2 /\ DOMAIN mem = {"x", "prom", "got"} /\ DOMAIN mem.got = 1 .. 2
    /\ pc[1] \in {27, End} /\ pc[2] \in {15, 19, End}
    /\ mem.prom \in {Pending, Value(2), Value(0), Value(-1)}
    /\ Ended(1) => mem.prom # Pending /\ mem.got[1] = mem.prom

\* The squares gathered are those of the first numbers.
SquaresInv ==
    /\ Thread = 1 .. 5 /\ DOMAIN mem = {"futures", "results"} /\ DOMAIN mem.futures = 1 .. 4
    /\ \A t \in 1 .. 4 : pc[t] \in {9, End} /\ mem.futures[t] \in {Pending, Value(t * t)}
    /\ pc[5] \in {27, End}
    /\ mem.results \in Seq(Nat) /\ Len(mem.results) <= 4
    /\ \A k \in 1 .. Len(mem.results) : mem.results[k] = k * k
    /\ Ended(5) => Len(mem.results) = 4

ArithmeticInv ==
    /\ Thread = 1 .. 2 /\ DOMAIN mem = {"f1", "f2", "f3", "sum", "got"} /\ DOMAIN mem.got = 1 .. 2
    /\ pc[1] \in {29, 30, 130, 31, 131, End} /\ pc[2] \in {7, End}
    /\ pc[1] = 130 => mem.f2 = Value(150)
    /\ pc[1] = 31 => mem.got[1] = Value(150)
    /\ pc[1] \in {131, End} => mem.sum = 150
    /\ pc[1] = 131 => mem.f3 = Value(50)
    /\ Ended(1) => mem.got[1] = Value(50)

\* Each of the three calls is over with its result.
LaunchInv ==
    /\ Thread = 1 .. 4 /\ DOMAIN mem = {"result_", "policy", "started", "results"}
    /\ pc[1] \in {17, 30, 130, End} /\ \A t \in 2 .. 4 : pc[t] \in {10, 13, End}
    /\ mem.result_ \in {Pending, Value(42)}
    /\ pc[1] = 130 => mem.result_ = Value(42)
    /\ mem.results \in Seq(Nat) /\ \A k \in 1 .. Len(mem.results) : mem.results[k] = 42
    /\ IF Ended(1) THEN Len(mem.results) = 3 ELSE Len(mem.results) < 3

\* A suspended generator is at the value that it has yielded last, which is printed next
\* or has been printed.
CountdownInv ==
    /\ Thread = {1} /\ DOMAIN mem = {"i", "value", "state", "printed"}
    /\ pc[1] \in {45, 46, End} /\ mem.state \in {"initial", "suspended", "done"}
    /\ mem.printed \in Seq(Nat)
    /\ \A k \in 1 .. Len(mem.printed) : mem.printed[k] = Rounds - k + 1
    /\ mem.state = "initial" => pc[1] = 45 /\ Len(mem.printed) = 0
    /\ mem.state = "suspended" =>
          /\ ~Ended(1) /\ mem.i \in 1 .. Rounds /\ mem.value = mem.i
          /\ Len(mem.printed) = (IF pc[1] = 45 THEN Rounds - mem.i + 1 ELSE Rounds - mem.i)
    /\ mem.state = "done" <=> Ended(1)
    /\ Ended(1) => Len(mem.printed) = Rounds

CountInv ==
    /\ Thread = {1} /\ DOMAIN mem = {"i", "value", "state", "printed"}
    /\ pc[1] \in {40, 140, End} /\ mem.state \in {"initial", "suspended", "done"}
    /\ mem.printed \in Seq(Nat)
    /\ \A k \in 1 .. Len(mem.printed) : mem.printed[k] = k
    /\ mem.state = "initial" => pc[1] = 40 /\ Len(mem.printed) = 0
    /\ mem.state = "suspended" =>
          /\ ~Ended(1) /\ mem.i \in 1 .. Rounds /\ mem.value = mem.i
          /\ Len(mem.printed) = (IF pc[1] = 40 THEN mem.i ELSE mem.i - 1)
    /\ mem.state = "done" <=> Ended(1)
    /\ Ended(1) => Len(mem.printed) = Rounds

\* What the monitor has appended after n turns.
Doubled(n) == [k \in 1 .. 2 * n |-> (k - 1) \div 2]
MonitorInv ==
    /\ Thread = {1} /\ DOMAIN mem = {"i", "data", "printed"}
    /\ pc[1] \in {11, 84, 16, End} /\ mem.i \in Nat
    /\ pc[1] = 11 => mem.i <= Rounds
    /\ pc[1] \in {84, 16} => mem.i \in 1 .. Rounds
    /\ Ended(1) => mem.i = Rounds + 1
    /\ mem.data = Doubled(IF pc[1] \in {11, 16} THEN mem.i ELSE mem.i - 1)
    /\ mem.printed \in Seq(Seq(Nat))
    /\ Len(mem.printed) = (IF pc[1] = 11 THEN mem.i ELSE mem.i - 1)
    /\ \A k \in 1 .. Len(mem.printed) : mem.printed[k] = Doubled(k)

\* What the delivery of results rests on in each program.
ResultInv ==
    /\ program = "multiple_waiting_threads" => SharedFutureInv
    /\ program = "packet" => PacketInv
    /\ program = "throwing_producer" => ThrownInv
    /\ program = "server_fetching_data" => ServerInv
    /\ program = "package_task_test" => PackageInv
    /\ program = "packaged_task" => PackagedInv
    /\ program = "asynk_task_launch" => AsyncInv
    /\ program = "futures_demo" => DemoInv
    /\ program = "futures_promise" => FatherInv
    /\ program = "promise_exception" => RootInv
    /\ program = "fibonacci" => FibonacciInv
    /\ program = "concurrent_tasks" => SquaresInv
    /\ program = "arithmetic" => ArithmeticInv
    /\ program = "launch_opts" => LaunchInv
    /\ program = "countdown" => CountdownInv
    /\ program = "count_to" => CountInv
    /\ program = "str_monitor" => MonitorInv

LEMMA SharedFutureKept ==
  ASSUME SharedFutureInv, NEW t \in Thread, produce(t) \/ consume(t)
  PROVE  SharedFutureInv'
<1> USE DEF SharedFutureInv, Goto, At, Thread, Ended, End
<1>1. CASE Fulfil(t, 15, "px", Value(42), End)
  BY <1>1 DEF Fulfil, Await, Step
<1>2. CASE Get(t, 21, "px", 23)
  BY <1>2 DEF Get, Await, Step
<1>3. CASE Lock(t, 23, "mut", 26)
  BY <1>3 DEF Lock, LockAll
<1>4. CASE Unlock(t, 26, {"mut"}, mem, End)
  BY <1>4 DEF Unlock
<1> QED
  BY <1>1, <1>2, <1>3, <1>4 DEF produce, consume

LEMMA PacketKept ==
  ASSUME PacketInv, NEW t \in Thread, packet_producer(t) \/ packet_consumer(t)
  PROVE  PacketInv'
<1> USE DEF PacketInv, HandOver, Goto, At, Thread, Ended, End
<1>1. CASE Fulfil(t, 22, "p", Value("ID-9001"), End)
  BY <1>1 DEF Fulfil, Await, Step
<1>2. CASE Get(t, 35, "p", End)
  BY <1>2 DEF Get, Await, Step
<1> QED
  BY <1>1, <1>2 DEF packet_producer, packet_consumer

LEMMA PackagedKept ==
  ASSUME PackagedInv, NEW t \in Thread, p_task(t) \/ display_result(t)
  PROVE  PackagedInv'
<1> USE DEF PackagedInv, HandOver, Goto, At, Thread, Ended, End
<1>1. CASE Fulfil(t, 11, "fut", Value(7), End)
  BY <1>1 DEF Fulfil, Await, Step
<1>2. CASE Get(t, 21, "fut", End)
  BY <1>2 DEF Get, Await, Step
<1>3. 3 + 4 = 7
  OBVIOUS
<1> QED
  BY <1>1, <1>2, <1>3 DEF p_task, display_result

LEMMA DemoKept ==
  ASSUME DemoInv, NEW t \in Thread, count_objects(t) \/ asking_main(t)
  PROVE  DemoInv'
<1> USE DEF DemoInv, HandOver, Goto, At, Thread, Ended, End
<1>1. CASE Fulfil(t, 9, "result", Value(52), End)
  BY <1>1 DEF Fulfil, Await, Step
<1>2. CASE Get(t, 16, "result", End)
  BY <1>2 DEF Get, Await, Step
<1> QED
  BY <1>1, <1>2 DEF count_objects, asking_main

LEMMA ThrownKept ==
  ASSUME ThrownInv, NEW t \in Thread, throwing_produce(t) \/ catching_consume(t)
  PROVE  ThrownInv'
<1> USE DEF ThrownInv, Goto, At, Thread, Ended, End
<1>1. CASE Step(t, 13, mem, 20)
  BY <1>1 DEF Step
<1>2. CASE Fulfil(t, 20, "px", Exception("out_of_range"), End)
  BY <1>2 DEF Fulfil, Await, Step
<1>3. CASE Get(t, 27, "px", 28)
  BY <1>3 DEF Get, Await, Step
<1>4. CASE Test(t, 28, mem.got[t][1] = "exception", 31, 29)
  <2>1. t = 2 /\ mem.got[2][1] = "exception"
    BY <1>4 DEF Test, Step, Exception
  <2> QED
    BY <1>4, <2>1 DEF Test, Step
<1>5. CASE Step(t, 29, [mem EXCEPT !.printed = "value"], End)
  BY <1>5 DEF Step
<1>6. CASE Step(t, 31, [mem EXCEPT !.printed = "exception"], End)
  BY <1>6 DEF Step
<1> QED
  BY <1>1, <1>2, <1>3, <1>4, <1>5, <1>6 DEF throwing_produce, catching_consume

\* What main() reports next is appended.
LEMMA ReportMade ==
  ASSUME NEW s, Told(s)
  PROVE  /\ Len(s) = 0 =>
                Told(Append(s, "value")) /\ Len(Append(s, "value")) = 1
         /\ Len(s) = 1 =>
                Told(Append(s, "exception")) /\ Len(Append(s, "exception")) = 2
<1> DEFINE words == {"value", "exception"}
<1>0. s \in Seq(words) /\ Len(s) \in Nat
  BY DEF Told
<1>1. ASSUME NEW w \in words,
             Len(s) \in {0, 1}, Len(s) = 0 => w = "value", Len(s) = 1 => w = "exception"
      PROVE  Told(Append(s, w)) /\ Len(Append(s, w)) = Len(s) + 1
  <2> HIDE DEF words
  <2>1. /\ Append(s, w) \in Seq(words) /\ Len(Append(s, w)) = Len(s) + 1
        /\ Append(s, w)[Len(s) + 1] = w
        /\ \A k \in 1 .. Len(s) : Append(s, w)[k] = s[k]
    BY <1>0
  <2>2. \A k \in 1 .. Len(s) : (k = 1 => s[k] = "value") /\ (k > 1 => s[k] = "exception")
    BY DEF Told
  <2>3. ASSUME NEW k \in 1 .. Len(s) + 1
        PROVE  (k = 1 => Append(s, w)[k] = "value") /\ (k > 1 => Append(s, w)[k] = "exception")
    <3>1. CASE k = Len(s) + 1
      BY <1>0, <1>1, <2>1, <3>1
    <3>2. CASE k \in 1 .. Len(s)
      BY <2>1, <2>2, <3>2
    <3> QED
      BY <1>0, <3>1, <3>2
  <2> QED
    BY <2>1, <2>3 DEF Told, words
<1>2. "value" \in words /\ "exception" \in words
  OBVIOUS
<1> HIDE DEF words
<1>3. ASSUME Len(s) = 0
      PROVE  Told(Append(s, "value")) /\ Len(Append(s, "value")) = 1
  <2>1. Len(s) # 1 /\ Len(s) \in {0, 1}
    BY <1>3
  <2>2. Told(Append(s, "value")) /\ Len(Append(s, "value")) = Len(s) + 1
    BY <1>1, <1>2, <2>1, Zenon
  <2>3. Len(s) + 1 = 1
    BY <1>3
  <2> QED
    BY <2>2, <2>3, Zenon
<1>4. ASSUME Len(s) = 1
      PROVE  Told(Append(s, "exception")) /\ Len(Append(s, "exception")) = 2
  <2>1. Len(s) # 0 /\ Len(s) \in {0, 1}
    BY <1>4
  <2>2. Told(Append(s, "exception")) /\ Len(Append(s, "exception")) = Len(s) + 1
    BY <1>1, <1>2, <2>1, Zenon
  <2>3. Len(s) + 1 = 2
    BY <1>4
  <2> QED
    BY <2>2, <2>3, Zenon
<1> QED
  BY <1>3, <1>4, Zenon

LEMMA ServerKept ==
  ASSUME ServerInv, NEW t \in Thread,
         fetch_server_data(t) \/ fetch_server_data_with_error(t) \/ server_main(t)
  PROVE  ServerInv'
<1> USE DEF ServerInv, Goto, At, Thread, Ended, End
<1>1. ASSUME NEW status \in {200, 201}, Step(t, 62, [mem EXCEPT !.response = Value(status)], 83)
      PROVE  ServerInv'
  BY <1>1 DEF Step, Answers
<1>2. CASE Fulfil(t, 83, "server_promise", mem.response, End)
  BY <1>2 DEF Fulfil, Await, Step
<1>3. CASE Started(t, 90, 99) \/ Step(t, 99, mem, 102)
  <2>1. t = 3 /\ mem' = mem /\ \E line \in {99, 102} : pc' = [pc EXCEPT ![3] = line]
    BY <1>3 DEF Started, Await, Step
  <2> QED
    BY <2>1
<1>11. CASE Step(t, 130, mem, 143)
  BY <1>11 DEF Step, Reports
<1>4. CASE Fulfil(t, 102, "error_promise", Exception("server_timeout"), End)
  BY <1>4 DEF Fulfil, Await, Step
<1>5. CASE Get(t, 143, "server_promise", 148)
  BY <1>5 DEF Get, Await, Step, Reports
<1>6. CASE Step(t, 148, [mem EXCEPT !.printed = Append(@, mem.got[t][1])], 154)
  <2> DEFINE printed == Append(mem.printed, "value")
  <2>1. t = 1 /\ pc[1] = 148 /\ mem.got[1][1] = "value" /\ Len(mem.printed) = 0
    BY <1>6 DEF Step, Reports, Answers, Value
  <2>2. Told(mem.printed)
    OBVIOUS
  <2> HIDE DEF ServerInv
  <2>3. Told(printed) /\ Len(printed) = 1
    BY <2>1, <2>2, ReportMade
  <2> HIDE DEF printed
  <2>4. mem' = [mem EXCEPT !.printed = printed] /\ pc' = [pc EXCEPT ![1] = 154]
    BY <1>6, <2>1 DEF Step, printed
  <2>5. /\ DOMAIN mem' = DOMAIN mem /\ mem'.printed = printed /\ mem'.got = mem.got
        /\ mem'.server_promise = mem.server_promise /\ mem'.error_promise = mem.error_promise
        /\ mem'.response = mem.response
    BY <2>4
  <2>6. DOMAIN pc' = 1 .. 3 /\ pc'[1] = 154 /\ pc'[2] = pc[2] /\ pc'[3] = pc[3]
    BY <2>4 DEF ServerInv
  <2> HIDE DEF Answers
  <2> QED
    BY <2>1, <2>3, <2>5, <2>6 DEF Reports, ServerInv
<1>7. CASE Join(t, 154, 2, 166)
  BY <1>7 DEF Join, Await, Step, Reports
<1>12. CASE Join(t, 181, 3, End)
  BY <1>12 DEF Join, Await, Step, Reports
<1>8. CASE Start(t, 166, 3, 172)
  BY <1>8 DEF Start, Step, Reports
<1>9. CASE Get(t, 172, "error_promise", 176)
  BY <1>9 DEF Get, Await, Step, Reports
<1>10. CASE Step(t, 176, [mem EXCEPT !.printed = Append(@, mem.got[t][1])], 181)
  <2> DEFINE printed == Append(mem.printed, "exception")
  <2>1. t = 1 /\ pc[1] = 176 /\ mem.got[1][1] = "exception" /\ Len(mem.printed) = 1
    BY <1>10 DEF Step, Reports, Exception
  <2>2. Told(mem.printed)
    OBVIOUS
  <2> HIDE DEF ServerInv
  <2>3. Told(printed) /\ Len(printed) = 2
    BY <2>1, <2>2, ReportMade
  <2> HIDE DEF printed
  <2>4. mem' = [mem EXCEPT !.printed = printed] /\ pc' = [pc EXCEPT ![1] = 181]
    BY <1>10, <2>1 DEF Step, printed
  <2>5. /\ DOMAIN mem' = DOMAIN mem /\ mem'.printed = printed /\ mem'.got = mem.got
        /\ mem'.server_promise = mem.server_promise /\ mem'.error_promise = mem.error_promise
        /\ mem'.response = mem.response
    BY <2>4
  <2>6. DOMAIN pc' = 1 .. 3 /\ pc'[1] = 181 /\ pc'[2] = pc[2] /\ pc'[3] = pc[3]
    BY <2>4 DEF ServerInv
  <2> HIDE DEF Answers
  <2> QED
    BY <2>1, <2>3, <2>5, <2>6 DEF Reports, ServerInv
<1> HIDE DEF ServerInv, Goto, At, Thread, Ended, End
<1> QED
  BY <1>1, <1>2, <1>3, <1>4, <1>5, <1>6, <1>7, <1>8, <1>9, <1>10, <1>11, <1>12
     DEF fetch_server_data, fetch_server_data_with_error, server_main

\* p has the first Fibonacci numbers, to that of n.
Fibs(n, p) ==
    /\ p \in [0 .. n -> Nat]
    /\ \A k \in 0 .. n : p[k] = IF k <= 2 THEN 1 ELSE p[k - 1] + p[k - 2]

LEMMA FibsExist ==
  ASSUME NEW n \in Nat
  PROVE  \E p : Fibs(n, p)
<1> DEFINE Without == {m \in Nat : ~ \E p : Fibs(m, p)}
<1> SUFFICES ASSUME n \in Without PROVE FALSE
  OBVIOUS
<1>1. PICK least \in Without : \A m \in Without : least <= m
  <2>1. Without \subseteq Nat
    OBVIOUS
  <2> HIDE DEF Without
  <2> QED
    BY <2>1, LeastNumber
<1>2. least \in Nat /\ ~ \E p : Fibs(least, p)
  BY <1>1
<1>3. least # 0
  <2>1. Fibs(0, [k \in 0 .. 0 |-> 1])
    BY DEF Fibs
  <2> QED
    BY <1>2, <2>1
<1>4. PICK p : Fibs(least - 1, p)
  <2>1. least - 1 \in Nat /\ ~ (least <= least - 1)
    BY <1>2, <1>3
  <2>2. least - 1 \notin Without
    <3> HIDE DEF Without
    <3> QED
      BY <1>1, <2>1
  <2> QED
    BY <2>1, <2>2
<1> DEFINE here == IF least <= 2 THEN 1 ELSE p[least - 1] + p[least - 2]
           q == [k \in 0 .. least |-> IF k = least THEN here ELSE p[k]]
<1>5. here \in Nat
  BY <1>2, <1>3, <1>4 DEF Fibs
<1>6. /\ q \in [0 .. least -> Nat] /\ q[least] = here
      /\ \A k \in 0 .. least - 1 : k \in 0 .. least /\ q[k] = p[k]
  <2> HIDE DEF here
  <2> QED
    BY <1>2, <1>3, <1>4, <1>5 DEF Fibs
<1>7. ASSUME NEW k \in 0 .. least
      PROVE  q[k] = IF k <= 2 THEN 1 ELSE q[k - 1] + q[k - 2]
  <2> HIDE DEF q
  <2>1. k > 2 => k - 1 \in 0 .. least - 1 /\ k - 2 \in 0 .. least - 1
    BY <1>2
  <2>2. CASE k = least
    BY <1>6, <2>1, <2>2
  <2>3. CASE k \in 0 .. least - 1
    BY <1>4, <1>6, <2>1, <2>3 DEF Fibs
  <2> QED
    BY <1>2, <2>2, <2>3
<1> HIDE DEF q
<1> QED
  BY <1>2, <1>6, <1>7 DEF Fibs

LEMMA FibsAgree ==
  ASSUME NEW n \in Nat, NEW m \in 0 .. n, NEW p, NEW q, Fibs(n, p), Fibs(m, q)
  PROVE  p[m] = q[m]
<1> DEFINE Differ == {k \in 0 .. m : p[k] # q[k]}
<1> SUFFICES ASSUME m \in Differ PROVE FALSE
  OBVIOUS
<1>1. PICK k \in Differ : \A j \in Differ : k <= j
  <2>1. Differ \subseteq Nat
    OBVIOUS
  <2> HIDE DEF Differ
  <2> QED
    BY <2>1, LeastNumber
<1>2. k \in 0 .. m /\ k \in 0 .. n /\ p[k] # q[k]
  BY <1>1
<1>3. ASSUME NEW j \in 0 .. m, ~ (k <= j) PROVE p[j] = q[j]
  <2>1. j \notin Differ
    <3> HIDE DEF Differ
    <3> QED
      BY <1>1, <1>3
  <2> QED
    BY <2>1
<1>4. CASE k <= 2
  BY <1>2, <1>4 DEF Fibs
<1>5. CASE k > 2
  <2>1. /\ k - 1 \in 0 .. m /\ ~ (k <= k - 1) /\ k - 2 \in 0 .. m /\ ~ (k <= k - 2)
        /\ ~ (k <= 2)
    BY <1>2, <1>5
  <2>2. p[k - 1] = q[k - 1] /\ p[k - 2] = q[k - 2]
    BY <1>3, <2>1
  <2> QED
    BY <1>2, <2>1, <2>2 DEF Fibs
<1> QED
  BY <1>2, <1>4, <1>5

\* The equation that Fib is defined by has a solution.
FibEquation(f) == f = [n \in Nat |-> IF n <= 2 THEN 1 ELSE f[n - 1] + f[n - 2]]

LEMMA FibDefined == FibEquation(Fib)
<1> DEFINE fib == [n \in Nat |-> (CHOOSE p : Fibs(n, p))[n]]
<1>1. ASSUME NEW n \in Nat, NEW p, Fibs(n, p), NEW m \in 0 .. n PROVE fib[m] = p[m]
  <2>1. m \in Nat /\ Fibs(m, CHOOSE q : Fibs(m, q))
    BY FibsExist
  <2> QED
    BY <1>1, <2>1, FibsAgree
<1>2. ASSUME NEW n \in Nat
      PROVE  fib[n] = IF n <= 2 THEN 1 ELSE fib[n - 1] + fib[n - 2]
  <2>1. PICK p : Fibs(n, p)
    BY FibsExist
  <2> HIDE DEF fib
  <2>2. n \in 0 .. n /\ (n > 2 => n - 1 \in 0 .. n /\ n - 2 \in 0 .. n)
    OBVIOUS
  <2>3. fib[n] = p[n] /\ (n > 2 => fib[n - 1] = p[n - 1] /\ fib[n - 2] = p[n - 2])
    BY <1>1, <2>1, <2>2
  <2> QED
    BY <2>1, <2>2, <2>3 DEF Fibs
<1>3. FibEquation(fib)
  <2>1. fib = [n \in Nat |-> fib[n]]
    OBVIOUS
  <2> HIDE DEF fib
  <2> QED
    BY <1>2, <2>1 DEF FibEquation
<1>4. Fib = CHOOSE f : FibEquation(f)
  BY DEF Fib, FibEquation
<1> QED
  BY <1>3, <1>4

LEMMA FibValues == Fib[5] = 5 /\ Fib[8] = 21
<1>1. \A n \in Nat : Fib[n] = IF n <= 2 THEN 1 ELSE Fib[n - 1] + Fib[n - 2]
  BY FibDefined DEF FibEquation
<1>2. Fib[1] = 1 /\ Fib[2] = 1 /\ Fib[3] = Fib[2] + Fib[1] /\ Fib[4] = Fib[3] + Fib[2]
      /\ Fib[5] = Fib[4] + Fib[3]
  BY <1>1
<1>3. Fib[6] = Fib[5] + Fib[4] /\ Fib[7] = Fib[6] + Fib[5] /\ Fib[8] = Fib[7] + Fib[6]
  BY <1>1
<1> QED
  BY <1>2, <1>3

LEMMA FibonacciKept ==
  ASSUME FibonacciInv, NEW t \in Thread, fibonacci_of(t) \/ waiting_main(t)
  PROVE  FibonacciInv'
<1> USE DEF FibonacciInv, Goto, At, Thread, Ended, End
<1>0. Pending # Value(5)
  BY DEF Pending, Value
<1>1. CASE Fulfil(t, 13, "result", Value(5), End)
  BY <1>1 DEF Fulfil, Await, Step
<1>2. CASE Test(t, 25, mem.result # Pending, 28, 25)
  BY <1>2 DEF Test, Step
<1>3. CASE Get(t, 28, "result", End)
  BY <1>0, <1>3 DEF Get, Await, Step
<1>4. CASE Await(t, 7, mem.policy = "async", mem, 13)
  BY <1>4 DEF Await, Step
<1>5. ASSUME NEW policy \in {"async", "deferred"}, Step(t, 21, [mem EXCEPT !.policy = policy], 25)
      PROVE  FibonacciInv'
  BY <1>5 DEF Step
<1> QED
  BY <1>1, <1>2, <1>3, <1>4, <1>5, FibValues DEF fibonacci_of, waiting_main

LEMMA FatherKept ==
  ASSUME FatherInv, NEW t \in Thread, fibonacci(t) \/ promising_main(t)
  PROVE  FatherInv'
<1> USE DEF FatherInv, Goto, At, Thread, Ended, End
<1>1. CASE Get(t, 8, "father", 18)
  BY <1>1 DEF Get, Await, Step
<1>2. CASE Fulfil(t, 18, "son", Value(Fib[mem.got[t][2]]), End)
  <2>1. t = 2 /\ mem.got[2][2] = 8
    BY <1>2 DEF Fulfil, Await, Step, Value
  <2> QED
    BY <1>2, <2>1, FibValues DEF Fulfil, Await, Step
<1>3. CASE Fulfil(t, 28, "father", Value(8), 30)
  BY <1>3 DEF Fulfil, Await, Step
<1>4. CASE Get(t, 30, "son", End)
  BY <1>4 DEF Get, Await, Step
<1> QED
  BY <1>1, <1>2, <1>3, <1>4 DEF fibonacci, promising_main

LEMMA RootKept ==
  ASSUME RootInv, NEW t \in Thread, calculate_square_root(t) \/ print_result(t)
  PROVE  RootInv'
<1> USE DEF RootInv, Goto, At, Thread, Ended, End
<1>1. ASSUME NEW x \in {-1, 4}, Step(t, 15, [mem EXCEPT !.x = x], 19)
      PROVE  RootInv'
  BY <1>1 DEF Step
<1>2. ASSUME NEW root \in {2, 0, -1}, Fulfil(t, 19, "prom", Value(root), End)
      PROVE  RootInv'
  BY <1>2 DEF Fulfil, Await, Step
<1>3. CASE Get(t, 27, "prom", End)
  BY <1>3 DEF Get, Await, Step
<1>4. \A root \in IF mem.x = 4 THEN {2} ELSE {0, -1} : root \in {2, 0, -1}
  OBVIOUS
<1> HIDE DEF RootInv
<1> QED
  BY <1>1, <1>2, <1>3, <1>4, Zenon DEF calculate_square_root, print_result

LEMMA PackageKept ==
  ASSUME PackageInv, NEW t \in Thread, task_thread(t) \/ packaged_add(t) \/ own_task(t)
  PROVE  PackageInv'
<1> USE DEF PackageInv, Goto, At, Thread, Ended, End
<1>1. CASE Start(t, 16, 2, 18)
  BY <1>1 DEF Start, Step
<1>2. CASE Get(t, 18, "future_1", 24)
  BY <1>2 DEF Get, Await, Step
<1>3. CASE Started(t, 8, 10)
  BY <1>3 DEF Started, Await, Step
<1>4. CASE Fulfil(t, 10, "future_1", Value(11), End)
  <2>1. Value(11) # Pending
    BY DEF Value, Pending
  <2> QED
    BY <1>4, <2>1 DEF Fulfil, Await, Step
<1>5. CASE Fulfil(t, 24, "future_2", Value(15), 25)
  BY <1>5 DEF Fulfil, Await, Step
<1>6. CASE Get(t, 25, "future_2", End)
  BY <1>6 DEF Get, Await, Step
<1>7. 5 + 6 = 11 /\ 7 + 8 = 15
  OBVIOUS
<1> HIDE DEF PackageInv, End
<1> QED
  BY <1>1, <1>2, <1>3, <1>4, <1>5, <1>6, <1>7 DEF task_thread, packaged_add, own_task

LEMMA AsyncKept ==
  ASSUME AsyncInv, NEW t \in Thread, compute_value(t) \/ process_value(t) \/ launching_main(t)
  PROVE  AsyncInv'
<1> USE DEF AsyncInv, Goto, At, Thread, Ended, End
<1>0. Value(42) # Pending /\ Value(52) # Pending /\ Value(42)[2] + 10 = 52
  BY DEF Value, Pending
<1>1. CASE Started(t, 10, 11)
  BY <1>1 DEF Started, Await, Step
<1>2. CASE Fulfil(t, 11, "future_value", Value(42), End)
  BY <1>2 DEF Fulfil, Await, Step
<1>3. CASE Started(t, 16, 17)
  BY <1>3 DEF Started, Await, Step
<1>4. CASE Fulfil(t, 17, "final_future", Value(mem.got[1][2] + 10), End)
  <2>1. t = 3 /\ mem.got[1] = Value(42)
    BY <1>4 DEF Fulfil, Await, Step
  <2> QED
    BY <1>0, <1>4, <2>1 DEF Fulfil, Await, Step
<1>5. CASE launch_async_task(t, 34, 2, 40)
  BY <1>5 DEF launch_async_task, Start, Step
<1>6. CASE Get(t, 40, "future_value", 43)
  BY <1>6 DEF Get, Await, Step
<1>7. CASE launch_async_task(t, 43, 3, 45)
  BY <1>7 DEF launch_async_task, Start, Step
<1>8. CASE Get(t, 45, "final_future", End)
  BY <1>8 DEF Get, Await, Step
<1>9. 21 * 2 = 42
  OBVIOUS
<1> HIDE DEF AsyncInv, End
<1> QED
  BY <1>1, <1>2, <1>3, <1>4, <1>5, <1>6, <1>7, <1>8, <1>9
     DEF compute_value, process_value, launching_main

LEMMA ArithmeticKept ==
  ASSUME ArithmeticInv, NEW t \in Thread, run_code(t) \/ printing(t)
  PROVE  ArithmeticInv'
<1> USE DEF ArithmeticInv, Goto, At, Thread, Ended, End
<1>1. CASE Get(t, 29, "f1", 30)
  BY <1>1 DEF Get, Await, Step
<1>2. CASE Step(t, 30, [mem EXCEPT !.f2 = Value(150)], 130)
  BY <1>2 DEF Step
<1>3. CASE Get(t, 130, "f2", 31)
  BY <1>3 DEF Get, Await, Step
<1>4. CASE Step(t, 31, [mem EXCEPT !.f3 = Value(50), !.sum = mem.got[t][2]], 131)
  <2>1. t = 1 /\ mem.got[1][2] = 150
    BY <1>4 DEF Step, Value
  <2> QED
    BY <1>4, <2>1 DEF Step
<1>5. CASE Get(t, 131, "f3", End)
  BY <1>5 DEF Get, Await, Step
<1>6. CASE Fulfil(t, 7, "f1", Value("void"), End)
  BY <1>6 DEF Fulfil, Await, Step
<1>7. 100 + 50 = 150 /\ 100 - 50 = 50
  OBVIOUS
<1> HIDE DEF ArithmeticInv, End
<1> QED
  BY <1>1, <1>2, <1>3, <1>4, <1>5, <1>6, <1>7 DEF run_code, printing

\* A sequence of numbers with one more behind it.
LEMMA NumberAppended ==
  ASSUME NEW s \in Seq(Nat), NEW v \in Nat
  PROVE  /\ Append(s, v) \in Seq(Nat) /\ Len(Append(s, v)) = Len(s) + 1 /\ Len(s) \in Nat
         /\ Append(s, v)[Len(s) + 1] = v
         /\ \A k \in 1 .. Len(s) : Append(s, v)[k] = s[k]
         /\ \A k \in 1 .. Len(s) + 1 : k \in 1 .. Len(s) \/ k = Len(s) + 1
OBVIOUS

LEMMA SquaresKept ==
  ASSUME SquaresInv, NEW t \in Thread, square(t) \/ gathering_main(t)
  PROVE  SquaresInv'
<1> USE DEF SquaresInv, Goto, At, Thread, Ended, End
<1>1. ASSUME t \in 1 .. 4, square(t)
      PROVE  SquaresInv'
  <2>1. /\ mem' = [mem EXCEPT !.futures[t] = Value(t * t)] /\ pc' = [pc EXCEPT ![t] = 0]
    BY <1>1 DEF square, Step
  <2>2. /\ DOMAIN mem' = DOMAIN mem /\ mem'.results = mem.results
        /\ DOMAIN mem'.futures = 1 .. 4 /\ mem'.futures[t] = Value(t * t)
        /\ \A o \in 1 .. 4 : o # t => mem'.futures[o] = mem.futures[o]
    BY <1>1, <2>1
  <2>3. DOMAIN pc' = 1 .. 5 /\ pc'[t] = 0 /\ \A o \in 1 .. 5 : o # t => pc'[o] = pc[o]
    BY <1>1, <2>1
  <2> QED
    BY <1>1, <2>2, <2>3
<1>2. ASSUME NEW k \in 1 .. 4, k = Len(mem.results) + 1,
             Await(5, 27, mem.futures[k] # Pending,
                   [mem EXCEPT !.results = Append(@, mem.futures[k][2])], 27)
      PROVE  SquaresInv'
  <2>1. mem.futures[k][2] = k * k /\ k * k \in Nat
    BY <1>2 DEF Await, Value
  <2>2. /\ mem' = [mem EXCEPT !.results = Append(mem.results, k * k)]
        /\ pc' = [pc EXCEPT ![5] = 27]
    BY <1>2, <2>1 DEF Await, Step
  <2>3. /\ DOMAIN mem' = DOMAIN mem /\ mem'.futures = mem.futures
        /\ mem'.results = Append(mem.results, k * k)
    BY <2>2
  <2>4. /\ mem'.results \in Seq(Nat) /\ Len(mem'.results) = k
        /\ \A i \in 1 .. k : mem'.results[i] = i * i
    <3> DEFINE s == mem.results
    <3>1. s \in Seq(Nat) /\ k = Len(s) + 1 /\ \A i \in 1 .. Len(s) : s[i] = i * i
      BY <1>2
    <3> HIDE DEF s
    <3>2. /\ Append(s, k * k) \in Seq(Nat) /\ Len(Append(s, k * k)) = Len(s) + 1
          /\ Append(s, k * k)[Len(s) + 1] = k * k
          /\ \A i \in 1 .. Len(s) : Append(s, k * k)[i] = s[i]
          /\ \A i \in 1 .. Len(s) + 1 : i \in 1 .. Len(s) \/ i = Len(s) + 1
      BY <2>1, <3>1, NumberAppended
    <3>3. \A i \in 1 .. k : Append(s, k * k)[i] = i * i
      BY <3>1, <3>2
    <3> QED
      BY <2>3, <3>1, <3>2, <3>3 DEF s
  <2>5. DOMAIN pc' = 1 .. 5 /\ pc'[5] = 27 /\ \A o \in 1 .. 4 : pc'[o] = pc[o]
    BY <2>2
  <2>6. 27 # 0 /\ k <= 4
    BY <1>2
  <2> QED
    BY <2>3, <2>4, <2>5, <2>6
<1>3. ASSUME Len(mem.results) = 4, Step(5, 27, mem, End)
      PROVE  SquaresInv'
  <2>1. mem' = mem /\ DOMAIN pc' = 1 .. 5 /\ pc'[5] = 0 /\ \A o \in 1 .. 4 : pc'[o] = pc[o]
    BY <1>3 DEF Step
  <2> QED
    BY <1>3, <2>1
<1>4. (square(t) => t \in 1 .. 4) /\ (gathering_main(t) => t = 5)
  <2>1. \A u \in 1 .. 4 : pc[u] # 27
    OBVIOUS
  <2>2. (square(t) => pc[t] = 9) /\ (gathering_main(t) => pc[t] = 27)
    BY DEF square, gathering_main, Await, Step
  <2> QED
    BY <2>1, <2>2
<1>5. Len(mem.results) + 1 <= 4 => Len(mem.results) + 1 \in 1 .. 4
  OBVIOUS
<1> HIDE DEF SquaresInv
<1> QED
  BY <1>1, <1>2, <1>3, <1>4, <1>5 DEF gathering_main

LEMMA LaunchKept ==
  ASSUME LaunchInv, NEW t \in Thread, func(t) \/ launched_task(t)
  PROVE  LaunchInv'
<1> USE DEF LaunchInv, Goto, At, Thread, Ended, End
<1>0. Value(42) # Pending
  BY DEF Value, Pending
<1>1. ASSUME NEW policy, NEW started,
             Step(t, 17, [mem EXCEPT !.result_ = Pending, !.policy = policy,
                                     !.started = started], 30)
      PROVE  LaunchInv'
  <2>1. t = 1 /\ ~ (pc[1] = 0)
    BY <1>1 DEF Step
  <2>2. /\ DOMAIN mem' = DOMAIN mem /\ mem'.result_ = Pending /\ mem'.results = mem.results
        /\ DOMAIN pc' = DOMAIN pc /\ pc'[1] = 30 /\ \A o \in 2 .. 4 : pc'[o] = pc[o]
    BY <1>1, <2>1 DEF Step
  <2> QED
    BY <2>1, <2>2
<1>2. CASE Fulfil(t, 30, "result_", Value(42), 130)
  <2>1. t = 1 /\ ~ (pc[1] = 0)
    BY <1>2 DEF Fulfil, Await, Step
  <2>2. /\ DOMAIN mem' = DOMAIN mem /\ mem'.result_ = Value(42) /\ mem'.results = mem.results
        /\ DOMAIN pc' = DOMAIN pc /\ pc'[1] = 130 /\ \A o \in 2 .. 4 : pc'[o] = pc[o]
    BY <1>2, <2>1 DEF Fulfil, Await, Step
  <2> QED
    BY <2>1, <2>2
<1>3. CASE Await(t, 30, mem.result_ # Pending, mem, 130)
  <2>1. t = 1 /\ ~ (pc[1] = 0) /\ mem.result_ = Value(42)
    BY <1>3 DEF Await, Step
  <2>2. /\ mem' = mem
        /\ DOMAIN pc' = DOMAIN pc /\ pc'[1] = 130 /\ \A o \in 2 .. 4 : pc'[o] = pc[o]
    BY <1>3, <2>1 DEF Await, Step
  <2> QED
    BY <2>1, <2>2
<1>4. CASE Step(t, 130, [mem EXCEPT !.results = Append(@, mem.result_[2])],
                IF call_of(mem) = 3 THEN End ELSE 17)
  <2> DEFINE s == mem.results
  <2>1. /\ t = 1 /\ pc[1] = 130 /\ mem.result_[2] = 42
        /\ s \in Seq(Nat) /\ Len(s) < 3 /\ \A k \in 1 .. Len(s) : s[k] = 42
    BY <1>4 DEF Step, Value
  <2>2. /\ DOMAIN mem' = DOMAIN mem /\ mem'.result_ = mem.result_ /\ mem'.results = Append(s, 42)
        /\ DOMAIN pc' = DOMAIN pc /\ pc'[1] = (IF Len(s) + 1 = 3 THEN 0 ELSE 17)
        /\ \A o \in 2 .. 4 : pc'[o] = pc[o]
    BY <1>4, <2>1 DEF Step, call_of
  <2> HIDE DEF s
  <2>3. /\ Append(s, 42) \in Seq(Nat) /\ Len(Append(s, 42)) = Len(s) + 1 /\ Len(s) \in Nat
        /\ Append(s, 42)[Len(s) + 1] = 42
        /\ \A k \in 1 .. Len(s) : Append(s, 42)[k] = s[k]
        /\ \A k \in 1 .. Len(s) + 1 : k \in 1 .. Len(s) \/ k = Len(s) + 1
    BY <2>1, NumberAppended
  <2>4. \A k \in 1 .. Len(Append(s, 42)) : Append(s, 42)[k] = 42
    BY <2>1, <2>3
  <2> QED
    BY <2>1, <2>2, <2>3, <2>4
<1>5. CASE Step(t, 10, mem, End) \/ Started(t, 10, 13)
  <2>1. t \in 2 .. 4 /\ mem' = mem /\ \E line \in {13, 0} : pc' = [pc EXCEPT ![t] = line]
    BY <1>5 DEF Started, Await, Step
  <2> QED
    BY <2>1
<1>6. CASE Fulfil(t, 13, "result_", Value(42), End)
  <2>1. t \in 2 .. 4
    BY <1>6 DEF Fulfil, Await, Step
  <2>2. /\ DOMAIN mem' = DOMAIN mem /\ mem'.result_ = Value(42) /\ mem'.results = mem.results
        /\ pc' = [pc EXCEPT ![t] = 0]
    BY <1>6, <2>1 DEF Fulfil, Await, Step
  <2>3. /\ DOMAIN pc' = DOMAIN pc /\ pc'[1] = pc[1] /\ pc'[t] = 0
        /\ \A o \in 2 .. 4 : o # t => pc'[o] = pc[o]
    BY <2>1, <2>2
  <2> QED
    BY <2>1, <2>2, <2>3
<1> HIDE DEF LaunchInv, End
<1> QED
  BY <1>1, <1>2, <1>3, <1>4, <1>5, <1>6 DEF func, launched_task

LEMMA CountdownKept ==
  ASSUME CountdownInv, NEW t \in Thread, countdown_main(t)
  PROVE  CountdownInv'
<1> USE DEF CountdownInv, Goto, At, Thread, Ended, End
<1>0. t = 1 /\ Rounds \in Nat \ {0} /\ Len(mem.printed) \in Nat
  BY RoundsAssumption
<1>1. CASE pc[1] = 45 /\ next(1, 45, 46, 0)
  <2> DEFINE i == IF mem.state = "initial" THEN Rounds ELSE mem.i - 1
  <2>0. mem.state # "done" /\ mem.state \in {"initial", "suspended"}
    BY <1>1
  <2>1. CASE i > 0
    <3>1. countdown(mem) = [mem EXCEPT !.i = i, !.value = i, !.state = "suspended"]
      BY <2>1 DEF countdown, Yields
    <3>2. i \in 1 .. Rounds /\ Len(mem.printed) = Rounds - i
      BY <1>0, <1>1, <2>0, <2>1
    <3> HIDE DEF i
    <3>3. countdown(mem).state = "suspended"
      BY <3>1
    <3>4. mem' = countdown(mem) /\ pc' = [pc EXCEPT ![1] = 46]
      BY <1>1, <2>0, <3>3 DEF next, Step
    <3>5. /\ DOMAIN mem' = DOMAIN mem /\ mem'.i = i /\ mem'.value = i
          /\ mem'.state = "suspended" /\ mem'.printed = mem.printed
      BY <3>1, <3>4
    <3>6. DOMAIN pc' = {1} /\ pc'[1] = 46
      BY <3>4
    <3> QED
      BY <3>2, <3>5, <3>6
  <2>2. CASE ~ (i > 0)
    <3>1. countdown(mem) = [mem EXCEPT !.state = "done"]
      BY <2>2 DEF countdown, Returns
    <3>2. Len(mem.printed) = Rounds
      BY <1>0, <1>1, <2>0, <2>2
    <3> HIDE DEF i
    <3>3. countdown(mem).state = "done"
      BY <3>1
    <3>4. mem' = countdown(mem) /\ pc' = [pc EXCEPT ![1] = 0]
      BY <1>1, <2>0, <3>3 DEF next, Step
    <3>5. DOMAIN mem' = DOMAIN mem /\ mem'.state = "done" /\ mem'.printed = mem.printed
      BY <3>1, <3>4
    <3>6. DOMAIN pc' = {1} /\ pc'[1] = 0
      BY <3>4
    <3> QED
      BY <3>2, <3>5, <3>6
  <2> QED
    BY <2>1, <2>2
<1>2. CASE Step(1, 46, [mem EXCEPT !.printed = Append(@, mem.value)], 45)
  <2> DEFINE s == mem.printed
  <2>1. /\ pc[1] = 46 /\ mem.state = "suspended" /\ mem.i \in 1 .. Rounds /\ mem.value = mem.i
        /\ s \in Seq(Nat) /\ Len(s) = Rounds - mem.i /\ mem.value \in Nat
        /\ \A k \in 1 .. Len(s) : s[k] = Rounds - k + 1
    BY <1>0, <1>2 DEF Step
  <2>2. /\ DOMAIN mem' = DOMAIN mem /\ mem'.i = mem.i /\ mem'.value = mem.value
        /\ mem'.state = mem.state /\ mem'.printed = Append(s, mem.value)
        /\ DOMAIN pc' = {1} /\ pc'[1] = 45
    BY <1>2 DEF Step
  <2> HIDE DEF s
  <2>3. /\ Append(s, mem.value) \in Seq(Nat) /\ Len(Append(s, mem.value)) = Len(s) + 1
        /\ Append(s, mem.value)[Len(s) + 1] = mem.value
        /\ \A k \in 1 .. Len(s) : Append(s, mem.value)[k] = s[k]
        /\ \A k \in 1 .. Len(s) + 1 : k \in 1 .. Len(s) \/ k = Len(s) + 1
    BY <2>1, NumberAppended
  <2>4. mem.value = Rounds - (Len(s) + 1) + 1 /\ Len(s) + 1 = Rounds - mem.i + 1
    BY <1>0, <2>1
  <2>5. \A k \in 1 .. Len(Append(s, mem.value)) : Append(s, mem.value)[k] = Rounds - k + 1
    BY <2>1, <2>3, <2>4
  <2> QED
    BY <2>1, <2>2, <2>3, <2>4, <2>5
<1> HIDE DEF CountdownInv
<1> QED
  BY <1>0, <1>1, <1>2 DEF countdown_main

LEMMA CountKept ==
  ASSUME CountInv, NEW t \in Thread, count_main(t)
  PROVE  CountInv'
<1> USE DEF CountInv, Goto, At, Thread, Ended, End
<1>0. t = 1 /\ Rounds \in Nat \ {0} /\ Len(mem.printed) \in Nat
  BY RoundsAssumption
<1> DEFINE m == count_to(mem)
<1>1. CASE pc[1] = 40 /\ Step(1, 40, m, IF m.state = "done" THEN End ELSE 140)
  <2> DEFINE i == IF mem.state = "initial" THEN 1 ELSE mem.i + 1
  <2>0. mem.state \in {"initial", "suspended"}
    BY <1>1
  <2>1. i \in Nat \ {0} /\ Len(mem.printed) = i - 1 /\ i <= Rounds + 1
    BY <1>0, <1>1, <2>0
  <2>2. CASE i <= Rounds
    <3>1. m = [mem EXCEPT !.i = i, !.value = i, !.state = "suspended"]
      BY <2>2 DEF count_to, Yields
    <3> HIDE DEF i, m
    <3>2. m.state = "suspended"
      BY <3>1
    <3>3. mem' = m /\ pc' = [pc EXCEPT ![1] = 140]
      BY <1>1, <3>2 DEF Step
    <3>4. /\ DOMAIN mem' = DOMAIN mem /\ mem'.i = i /\ mem'.value = i
          /\ mem'.state = "suspended" /\ mem'.printed = mem.printed
      BY <3>1, <3>3
    <3>5. DOMAIN pc' = {1} /\ pc'[1] = 140
      BY <3>3
    <3> QED
      BY <1>0, <2>1, <2>2, <3>4, <3>5
  <2>3. CASE ~ (i <= Rounds)
    <3>1. m = [mem EXCEPT !.state = "done"]
      BY <2>3 DEF count_to, Returns
    <3>2. Len(mem.printed) = Rounds
      BY <1>0, <2>1, <2>3
    <3> HIDE DEF i, m
    <3>3. m.state = "done"
      BY <3>1
    <3>4. mem' = m /\ pc' = [pc EXCEPT ![1] = 0]
      BY <1>1, <3>3 DEF Step
    <3>5. DOMAIN mem' = DOMAIN mem /\ mem'.state = "done" /\ mem'.printed = mem.printed
      BY <3>1, <3>4
    <3>6. DOMAIN pc' = {1} /\ pc'[1] = 0
      BY <3>4
    <3> QED
      BY <3>2, <3>5, <3>6
  <2> QED
    BY <2>2, <2>3
<1>2. CASE Step(1, 140, [mem EXCEPT !.printed = Append(@, mem.value)], 40)
  <2> DEFINE s == mem.printed
  <2>1. /\ pc[1] = 140 /\ mem.state = "suspended" /\ mem.i \in 1 .. Rounds /\ mem.value = mem.i
        /\ s \in Seq(Nat) /\ Len(s) = mem.i - 1 /\ mem.value \in Nat
        /\ \A k \in 1 .. Len(s) : s[k] = k
    BY <1>0, <1>2 DEF Step
  <2>2. /\ DOMAIN mem' = DOMAIN mem /\ mem'.i = mem.i /\ mem'.value = mem.value
        /\ mem'.state = mem.state /\ mem'.printed = Append(s, mem.value)
        /\ DOMAIN pc' = {1} /\ pc'[1] = 40
    BY <1>2 DEF Step
  <2> HIDE DEF s
  <2>3. /\ Append(s, mem.value) \in Seq(Nat) /\ Len(Append(s, mem.value)) = Len(s) + 1
        /\ Append(s, mem.value)[Len(s) + 1] = mem.value
        /\ \A k \in 1 .. Len(s) : Append(s, mem.value)[k] = s[k]
        /\ \A k \in 1 .. Len(s) + 1 : k \in 1 .. Len(s) \/ k = Len(s) + 1
    BY <2>1, NumberAppended
  <2>4. mem.value = Len(s) + 1 /\ Len(s) + 1 = mem.i
    BY <1>0, <2>1
  <2>5. \A k \in 1 .. Len(Append(s, mem.value)) : Append(s, mem.value)[k] = k
    BY <2>1, <2>3, <2>4
  <2> QED
    BY <2>1, <2>2, <2>3, <2>4, <2>5
<1> HIDE DEF CountInv
<1> QED
  BY <1>0, <1>1, <1>2 DEF count_main

LEMMA FunctionIsSequence ==
  ASSUME NEW n \in Nat, NEW f \in [1 .. n -> Nat]
  PROVE  f \in Seq(Nat) /\ Len(f) = n
OBVIOUS

LEMMA DoubledGrows ==
  ASSUME NEW n \in Nat
  PROVE  /\ Doubled(n) \in Seq(Nat)
         /\ Doubled(n) \o <<n, n>> = Doubled(n + 1)
<1> DEFINE d == Doubled(n)
           s == d \o <<n, n>>
           e == Doubled(n + 1)
<1>1. /\ (2 * n) \div 2 = n /\ (2 * n + 1) \div 2 = n
      /\ \A k \in 1 .. 2 * (n + 1) : (k - 1) \div 2 \in Nat
      /\ \A k \in 1 .. 2 * n : (k - 1) \div 2 \in Nat
  OBVIOUS
<1>2. /\ d \in [1 .. 2 * n -> Nat] /\ \A k \in 1 .. 2 * n : d[k] = (k - 1) \div 2
      /\ e \in [1 .. 2 * (n + 1) -> Nat] /\ \A k \in 1 .. 2 * (n + 1) : e[k] = (k - 1) \div 2
  BY <1>1 DEF Doubled
<1>3. /\ d \in Seq(Nat) /\ Len(d) = 2 * n /\ e \in Seq(Nat) /\ Len(e) = 2 * (n + 1)
      /\ <<n, n>> \in Seq(Nat) /\ Len(<<n, n>>) = 2 /\ <<n, n>>[1] = n /\ <<n, n>>[2] = n
  <2> HIDE DEF d, e
  <2>1. 2 * n \in Nat /\ 2 * (n + 1) \in Nat
    OBVIOUS
  <2>2. d \in Seq(Nat) /\ Len(d) = 2 * n
    BY <1>2, <2>1, FunctionIsSequence
  <2>3. e \in Seq(Nat) /\ Len(e) = 2 * (n + 1)
    BY <1>2, <2>1, FunctionIsSequence
  <2>4. /\ <<n, n>> \in Seq(Nat) /\ Len(<<n, n>>) = 2 /\ <<n, n>>[1] = n /\ <<n, n>>[2] = n
    OBVIOUS
  <2> QED
    BY <2>2, <2>3, <2>4
<1> HIDE DEF d, e
<1>4. /\ s \in Seq(Nat) /\ Len(s) = Len(d) + 2
      /\ \A k \in 1 .. Len(d) + 2 : s[k] = IF k <= Len(d) THEN d[k] ELSE <<n, n>>[k - Len(d)]
  BY <1>3, ConcatProperties
<1> HIDE DEF s
<1>5. ASSUME NEW k \in 1 .. 2 * (n + 1) PROVE s[k] = e[k]
  <2>1. CASE k <= 2 * n
    BY <1>2, <1>3, <1>4, <2>1
  <2>2. CASE k = 2 * n + 1
    <3>1. ~ (k <= Len(d)) /\ k - Len(d) = 1 /\ k - 1 = 2 * n /\ k \in 1 .. Len(d) + 2
      BY <1>3, <2>2
    <3>2. s[k] = n
      <4>1. s[k] = <<n, n>>[k - Len(d)]
        BY <1>4, <3>1
      <4> QED
        BY <1>3, <3>1, <4>1
    <3>3. e[k] = (2 * n) \div 2
      BY <1>2, <3>1
    <3> QED
      BY <1>1, <3>2, <3>3
  <2>3. CASE k = 2 * n + 2
    <3>1. ~ (k <= Len(d)) /\ k - Len(d) = 2 /\ k - 1 = 2 * n + 1 /\ k \in 1 .. Len(d) + 2
      BY <1>3, <2>3
    <3>2. s[k] = n
      <4>1. s[k] = <<n, n>>[k - Len(d)]
        BY <1>4, <3>1
      <4> QED
        BY <1>3, <3>1, <4>1
    <3>3. e[k] = (2 * n + 1) \div 2
      BY <1>2, <3>1
    <3> QED
      BY <1>1, <3>2, <3>3
  <2> QED
    BY <2>1, <2>2, <2>3
<1>6. s = e
  <2>1. Len(s) = 2 * (n + 1)
    BY <1>3, <1>4
  <2> QED
    BY <1>3, <1>4, <1>5, <2>1
<1> QED
  BY <1>3, <1>6 DEF d, s, e

LEMMA MonitorKept ==
  ASSUME MonitorInv, NEW t \in Thread, str_monitor(t)
  PROVE  MonitorInv'
<1> USE DEF MonitorInv, Goto, At, Thread, Ended, End
<1>0. t = 1 /\ Rounds \in Nat \ {0} /\ mem.i \in Nat /\ Len(mem.printed) \in Nat
  BY RoundsAssumption
<1>1. CASE Step(1, 11, [mem EXCEPT !.i = @ + 1], IF mem.i < Rounds THEN 84 ELSE End)
  <2>1. /\ DOMAIN mem' = DOMAIN mem /\ mem'.i = mem.i + 1 /\ mem'.data = mem.data
        /\ mem'.printed = mem.printed
        /\ DOMAIN pc' = {1} /\ pc'[1] = IF mem.i < Rounds THEN 84 ELSE 0
    BY <1>1 DEF Step
  <2>2. /\ mem.i <= Rounds /\ mem.data = Doubled(mem.i) /\ Len(mem.printed) = mem.i
        /\ (mem.i + 1) - 1 = mem.i
    BY <1>0, <1>1 DEF Step
  <2> QED
    BY <1>0, <2>1, <2>2
<1>2. CASE MonitorCall(1, [mem EXCEPT !.data = @ \o <<mem.i - 1, mem.i - 1>>], 16)
  <2>1. pc[1] = 84 /\ mem.i \in 1 .. Rounds /\ mem.data = Doubled(mem.i - 1)
    BY <1>2 DEF MonitorCall, Guarded
  <2>2. mem.i - 1 \in Nat /\ (mem.i - 1) + 1 = mem.i
    BY <2>1
  <2>3. mem.data \o <<mem.i - 1, mem.i - 1>> = Doubled(mem.i)
    <3> DEFINE n == mem.i - 1
    <3>1. n \in Nat /\ n + 1 = mem.i /\ mem.data = Doubled(n)
      BY <2>1, <2>2
    <3> HIDE DEF n
    <3>2. Doubled(n) \o <<n, n>> = Doubled(n + 1)
      BY <3>1, DoubledGrows
    <3> QED
      BY <3>1, <3>2 DEF n
  <2>4. /\ DOMAIN mem' = DOMAIN mem /\ mem'.i = mem.i /\ mem'.data = Doubled(mem.i)
        /\ mem'.printed = mem.printed /\ DOMAIN pc' = {1} /\ pc'[1] = 16
    BY <1>2, <2>3 DEF MonitorCall, Guarded, Step
  <2> QED
    BY <2>1, <2>4
<1>3. CASE Guarded(1, 16, "data_mut", [mem EXCEPT !.printed = Append(@, mem.data)], 11)
  <2> DEFINE s == mem.printed
             d == Doubled(mem.i)
  <2>1. /\ pc[1] = 16 /\ mem.i \in 1 .. Rounds /\ mem.data = d
        /\ s \in Seq(Seq(Nat)) /\ Len(s) = mem.i - 1
        /\ \A k \in 1 .. Len(s) : s[k] = Doubled(k)
    BY <1>3 DEF Guarded
  <2>2. d \in Seq(Nat)
    BY <2>1, DoubledGrows
  <2>3. /\ DOMAIN mem' = DOMAIN mem /\ mem'.i = mem.i /\ mem'.data = d
        /\ mem'.printed = Append(s, d) /\ DOMAIN pc' = {1} /\ pc'[1] = 11
    BY <1>3, <2>1 DEF Guarded, Step
  <2> HIDE DEF s, d
  <2>4. /\ Append(s, d) \in Seq(Seq(Nat)) /\ Len(Append(s, d)) = Len(s) + 1
        /\ Append(s, d)[Len(s) + 1] = d
        /\ \A k \in 1 .. Len(s) : Append(s, d)[k] = s[k]
        /\ \A k \in 1 .. Len(s) + 1 : k \in 1 .. Len(s) \/ k = Len(s) + 1
    BY <2>1, <2>2
  <2>5. Len(s) + 1 = mem.i
    BY <2>1
  <2>6. \A k \in 1 .. Len(Append(s, d)) : Append(s, d)[k] = Doubled(k)
    BY <2>1, <2>4, <2>5 DEF d
  <2> QED
    BY <2>1, <2>3, <2>4, <2>5, <2>6 DEF d
<1> HIDE DEF MonitorInv
<1> QED
  BY <1>0, <1>1, <1>2, <1>3 DEF str_monitor

LEMMA TellersStep ==
  ASSUME NEW t, ThreadStep(t)
  PROVE  /\ program = "multiple_waiting_threads" => produce(t) \/ consume(t)
         /\ program = "packet" => packet_producer(t) \/ packet_consumer(t)
         /\ program = "throwing_producer" => throwing_produce(t) \/ catching_consume(t)
         /\ program = "server_fetching_data" =>
              fetch_server_data(t) \/ fetch_server_data_with_error(t) \/ server_main(t)
         /\ program = "package_task_test" =>
              task_thread(t) \/ packaged_add(t) \/ own_task(t)
         /\ program = "packaged_task" => p_task(t) \/ display_result(t)
         /\ program = "asynk_task_launch" =>
              compute_value(t) \/ process_value(t) \/ launching_main(t)
         /\ program = "futures_demo" => count_objects(t) \/ asking_main(t)
         /\ program = "futures_promise" => fibonacci(t) \/ promising_main(t)
         /\ program = "promise_exception" => calculate_square_root(t) \/ print_result(t)
         /\ program = "fibonacci" => fibonacci_of(t) \/ waiting_main(t)
         /\ program = "concurrent_tasks" => square(t) \/ gathering_main(t)
         /\ program = "arithmetic" => run_code(t) \/ printing(t)
         /\ program = "launch_opts" => func(t) \/ launched_task(t)
         /\ program = "countdown" => countdown_main(t)
         /\ program = "count_to" => count_main(t)
         /\ program = "str_monitor" => str_monitor(t)
BY DEF ThreadStep, LockStep, MonitorStep, EventStep, FutureStep, SchedulerStep, KernelStep,
       DataStep

LEMMA TellersStart ==
  ASSUME Init
  PROVE  /\ program = "multiple_waiting_threads" => Boot(program, SharedFuture)
         /\ program = "packet" => Boot(program, PacketMain)
         /\ program = "throwing_producer" => Boot(program, ThrowingMain)
         /\ program = "server_fetching_data" => Boot(program, ServerMain)
         /\ program = "package_task_test" => Boot(program, PackageTask)
         /\ program = "packaged_task" => Boot(program, PackagedTask)
         /\ program = "asynk_task_launch" => Boot(program, AsyncTaskLaunch)
         /\ program = "futures_demo" => Boot(program, FuturesDemo)
         /\ program = "futures_promise" => Boot(program, FuturesPromise)
         /\ program = "promise_exception" => Boot(program, SquareRoot)
         /\ program = "fibonacci" => Boot(program, FibonacciMain)
         /\ program = "concurrent_tasks" => Boot(program, ConcurrentTasks)
         /\ program = "arithmetic" => Boot(program, ArithmeticMain)
         /\ program = "launch_opts" => Boot(program, LaunchOptions)
         /\ program = "countdown" => Boot(program, CountdownMain)
         /\ program = "count_to" => Boot(program, CountMain)
         /\ program = "str_monitor" => Boot(program, StrMonitor)
<1>1. CASE Boots(LockMains)
  BY <1>1, BootOf DEF LockMains
<1>2. CASE Boots(MonitorMains)
  BY <1>2, BootOf DEF MonitorMains
<1>3. CASE Boots(EventMains)
  BY <1>3, BootOf DEF EventMains
<1>4. CASE Boots(FutureMains)
  <2>0. program \in DOMAIN FutureMains /\ Boot(program, FutureMains[program])
    BY <1>4, BootOf
  <2>1. /\ program = "multiple_waiting_threads" => Boot(program, SharedFuture)
        /\ program = "packet" => Boot(program, PacketMain)
        /\ program = "throwing_producer" => Boot(program, ThrowingMain)
        /\ program = "server_fetching_data" => Boot(program, ServerMain)
    BY <2>0 DEF FutureMains
  <2>2. /\ program = "package_task_test" => Boot(program, PackageTask)
        /\ program = "packaged_task" => Boot(program, PackagedTask)
        /\ program = "asynk_task_launch" => Boot(program, AsyncTaskLaunch)
        /\ program = "futures_demo" => Boot(program, FuturesDemo)
    BY <2>0 DEF FutureMains
  <2>3. /\ program = "futures_promise" => Boot(program, FuturesPromise)
        /\ program = "promise_exception" => Boot(program, SquareRoot)
        /\ program = "fibonacci" => Boot(program, FibonacciMain)
        /\ program = "concurrent_tasks" => Boot(program, ConcurrentTasks)
    BY <2>0 DEF FutureMains
  <2>4. /\ program = "arithmetic" => Boot(program, ArithmeticMain)
        /\ program = "launch_opts" => Boot(program, LaunchOptions)
        /\ program = "countdown" => Boot(program, CountdownMain)
        /\ program = "count_to" => Boot(program, CountMain)
    BY <2>0 DEF FutureMains
  <2>5. program # "str_monitor"
    BY <2>0 DEF FutureMains
  <2> QED
    BY <2>1, <2>2, <2>3, <2>4, <2>5
<1>5. CASE Boots(SchedulerMains)
  BY <1>5, BootOf DEF SchedulerMains
<1>6. CASE Boots(KernelMains)
  BY <1>6, BootOf DEF KernelMains
<1>7. CASE Boots(DataMains)
  BY <1>7, BootOf DEF DataMains
<1> QED
  BY <1>1, <1>2, <1>3, <1>4, <1>5, <1>6, <1>7 DEF Init

LEMMA ResultStart == Init => ResultInv
<1> SUFFICES ASSUME Init PROVE ResultInv
  OBVIOUS
<1> USE DEF Boot, Main, Thread, Ended, End
<1>1. ASSUME program = "multiple_waiting_threads" PROVE SharedFutureInv
  BY <1>1, TellersStart DEF SharedFuture, SharedFutureInv
<1>2. ASSUME program = "packet" PROVE PacketInv
  BY <1>2, TellersStart DEF PacketMain, PacketInv, HandOver
<1>3. ASSUME program = "throwing_producer" PROVE ThrownInv
  BY <1>3, TellersStart DEF ThrowingMain, ThrownInv
<1>4. ASSUME program = "server_fetching_data" PROVE ServerInv
  <2>1. /\ pc = <<130, 62, 90>>
        /\ mem = [server_promise |-> Pending, error_promise |-> Pending, response |-> Pending,
                  started |-> {}, got |-> <<Pending, Pending, Pending>>, printed |-> <<>>]
    BY <1>4, TellersStart DEF ServerMain
  <2>2. /\ Thread = 1 .. 3 /\ pc[1] = 130 /\ pc[2] = 62 /\ pc[3] = 90
        /\ DOMAIN mem = {"server_promise", "error_promise", "response", "started", "got",
                         "printed"}
        /\ DOMAIN mem.got = 1 .. 3 /\ mem.server_promise = Pending
        /\ mem.error_promise = Pending /\ mem.printed = <<>>
    BY <2>1
  <2>3. Told(<<>>) /\ Len(<<>>) = 0
    BY DEF Told
  <2>4. Told(mem.printed) /\ Len(mem.printed) = Reports(pc[1])
    BY <2>2, <2>3 DEF Reports
  <2> QED
    BY <2>2, <2>4 DEF ServerInv
<1>5. ASSUME program = "package_task_test" PROVE PackageInv
  BY <1>5, TellersStart DEF PackageTask, PackageInv
<1>6. ASSUME program = "packaged_task" PROVE PackagedInv
  BY <1>6, TellersStart DEF PackagedTask, PackagedInv, HandOver
<1>7. ASSUME program = "asynk_task_launch" PROVE AsyncInv
  BY <1>7, TellersStart DEF AsyncTaskLaunch, AsyncInv
<1>8. ASSUME program = "futures_demo" PROVE DemoInv
  BY <1>8, TellersStart DEF FuturesDemo, DemoInv, HandOver
<1>9. ASSUME program = "futures_promise" PROVE FatherInv
  BY <1>9, TellersStart DEF FuturesPromise, FatherInv
<1>10. ASSUME program = "promise_exception" PROVE RootInv
  BY <1>10, TellersStart DEF SquareRoot, RootInv
<1>11. ASSUME program = "fibonacci" PROVE FibonacciInv
  BY <1>11, TellersStart DEF FibonacciMain, FibonacciInv
<1>12. ASSUME program = "concurrent_tasks" PROVE SquaresInv
  <2>1. /\ pc = <<9, 9, 9, 9, 27>>
        /\ mem = [futures |-> <<Pending, Pending, Pending, Pending>>, results |-> <<>>]
    BY <1>12, TellersStart DEF ConcurrentTasks
  <2>2. /\ Thread = 1 .. 5 /\ DOMAIN mem = {"futures", "results"} /\ pc[5] = 27
        /\ DOMAIN mem.futures = 1 .. 4 /\ mem.results = <<>>
        /\ \A t \in 1 .. 4 : pc[t] = 9 /\ mem.futures[t] = Pending
    BY <2>1
  <2> QED
    BY <2>2, NothingYet DEF SquaresInv
<1>13. ASSUME program = "arithmetic" PROVE ArithmeticInv
  BY <1>13, TellersStart DEF ArithmeticMain, ArithmeticInv
<1>14. ASSUME program = "launch_opts" PROVE LaunchInv
  <2>1. /\ pc = <<17, 10, 10, 10>>
        /\ mem = [result_ |-> Pending, policy |-> "none", started |-> {}, results |-> <<>>]
    BY <1>14, TellersStart DEF LaunchOptions
  <2>2. /\ Thread = 1 .. 4 /\ DOMAIN mem = {"result_", "policy", "started", "results"}
        /\ pc[1] = 17 /\ mem.result_ = Pending /\ mem.results = <<>>
        /\ \A t \in 2 .. 4 : pc[t] = 10
    BY <2>1
  <2> QED
    BY <2>2, NothingYet DEF LaunchInv
<1>15. ASSUME program = "countdown" PROVE CountdownInv
  <2>1. /\ pc = <<45>>
        /\ mem = [i |-> 0, value |-> 0, state |-> "initial", printed |-> <<>>]
    BY <1>15, TellersStart DEF CountdownMain
  <2>2. /\ Thread = {1} /\ pc[1] = 45 /\ DOMAIN mem = {"i", "value", "state", "printed"}
        /\ mem.state = "initial" /\ mem.printed = <<>>
    BY <2>1
  <2> QED
    BY <2>2, NothingYet DEF CountdownInv
<1>16. ASSUME program = "count_to" PROVE CountInv
  <2>1. /\ pc = <<40>>
        /\ mem = [i |-> 0, value |-> 0, state |-> "initial", printed |-> <<>>]
    BY <1>16, TellersStart DEF CountMain
  <2>2. /\ Thread = {1} /\ pc[1] = 40 /\ DOMAIN mem = {"i", "value", "state", "printed"}
        /\ mem.state = "initial" /\ mem.printed = <<>>
    BY <2>1
  <2> QED
    BY <2>2, NothingYet DEF CountInv
<1>17. ASSUME program = "str_monitor" PROVE MonitorInv
  <2>1. pc = <<11>> /\ mem = [i |-> 0, data |-> <<>>, printed |-> <<>>]
    BY <1>17, TellersStart DEF StrMonitor
  <2>2. /\ Thread = {1} /\ pc[1] = 11 /\ DOMAIN mem = {"i", "data", "printed"}
        /\ mem.i = 0 /\ mem.data = <<>> /\ mem.printed = <<>>
    BY <2>1
  <2>3. Doubled(0) = <<>>
    BY DEF Doubled
  <2> QED
    BY <2>2, <2>3, NothingYet, RoundsAssumption DEF MonitorInv
<1> HIDE DEF Boot, Main, Thread, Ended, End
<1> QED
  BY <1>1, <1>2, <1>3, <1>4, <1>5, <1>6, <1>7, <1>8, <1>9, <1>10,
     <1>11, <1>12, <1>13, <1>14, <1>15, <1>16, <1>17 DEF ResultInv

LEMMA ResultNext == LockInv /\ ResultInv /\ [Next]_vars => ResultInv'
<1> SUFFICES ASSUME LockInv, ResultInv, [Next]_vars PROVE ResultInv'
  OBVIOUS
<1>1. program' = program
  BY LockNext
<1>2. CASE UNCHANGED <<pc, mem>>
  <2>1. /\ SharedFutureInv => SharedFutureInv'
        /\ PacketInv => PacketInv'
        /\ ThrownInv => ThrownInv'
        /\ ServerInv => ServerInv'
    BY <1>2 DEF Thread, Ended, SharedFutureInv, PacketInv, ThrownInv, ServerInv, HandOver
  <2>2. /\ PackageInv => PackageInv'
        /\ PackagedInv => PackagedInv'
        /\ AsyncInv => AsyncInv'
        /\ DemoInv => DemoInv'
    BY <1>2 DEF Thread, Ended, PackageInv, PackagedInv, AsyncInv, DemoInv, HandOver
  <2>3. /\ FatherInv => FatherInv'
        /\ RootInv => RootInv'
        /\ FibonacciInv => FibonacciInv'
        /\ SquaresInv => SquaresInv'
    BY <1>2 DEF Thread, Ended, FatherInv, RootInv, FibonacciInv, SquaresInv
  <2>4. /\ ArithmeticInv => ArithmeticInv'
        /\ LaunchInv => LaunchInv'
        /\ CountdownInv => CountdownInv'
        /\ CountInv => CountInv'
    BY <1>2 DEF Thread, Ended, ArithmeticInv, LaunchInv, CountdownInv, CountInv
  <2>5. /\ MonitorInv => MonitorInv'
    BY <1>2 DEF Thread, Ended, MonitorInv
  <2> QED
    BY <1>1, <2>1, <2>2, <2>3, <2>4, <2>5 DEF ResultInv
<1>3. CASE \E t \in Thread : ThreadStep(t)
  <2> PICK t \in Thread : ThreadStep(t)
    BY <1>3
  <2>1. program = "multiple_waiting_threads" => SharedFutureInv'
    BY TellersStep, SharedFutureKept DEF ResultInv
  <2>2. program = "packet" => PacketInv'
    BY TellersStep, PacketKept DEF ResultInv
  <2>3. program = "throwing_producer" => ThrownInv'
    BY TellersStep, ThrownKept DEF ResultInv
  <2>4. program = "server_fetching_data" => ServerInv'
    BY TellersStep, ServerKept DEF ResultInv
  <2>5. program = "package_task_test" => PackageInv'
    BY TellersStep, PackageKept DEF ResultInv
  <2>6. program = "packaged_task" => PackagedInv'
    BY TellersStep, PackagedKept DEF ResultInv
  <2>7. program = "asynk_task_launch" => AsyncInv'
    BY TellersStep, AsyncKept DEF ResultInv
  <2>8. program = "futures_demo" => DemoInv'
    BY TellersStep, DemoKept DEF ResultInv
  <2>9. program = "futures_promise" => FatherInv'
    BY TellersStep, FatherKept DEF ResultInv
  <2>10. program = "promise_exception" => RootInv'
    BY TellersStep, RootKept DEF ResultInv
  <2>11. program = "fibonacci" => FibonacciInv'
    BY TellersStep, FibonacciKept DEF ResultInv
  <2>12. program = "concurrent_tasks" => SquaresInv'
    BY TellersStep, SquaresKept DEF ResultInv
  <2>13. program = "arithmetic" => ArithmeticInv'
    BY TellersStep, ArithmeticKept DEF ResultInv
  <2>14. program = "launch_opts" => LaunchInv'
    BY TellersStep, LaunchKept DEF ResultInv
  <2>15. program = "countdown" => CountdownInv'
    BY TellersStep, CountdownKept DEF ResultInv
  <2>16. program = "count_to" => CountInv'
    BY TellersStep, CountKept DEF ResultInv
  <2>17. program = "str_monitor" => MonitorInv'
    BY TellersStep, MonitorKept DEF ResultInv
  <2> QED
    BY <1>1, <2>1, <2>2, <2>3, <2>4, <2>5, <2>6, <2>7, <2>8, <2>9, <2>10,
       <2>11, <2>12, <2>13, <2>14, <2>15, <2>16, <2>17 DEF ResultInv
<1> QED
  BY <1>2, <1>3 DEF Next, SpuriousWakeup, vars, machineVars

\* What is handed over in a promise, a future or a task reaches whoever asks for it, value
\* or exception, whichever thread is first, and the generators and the monitor deliver each
\* element once and in order, for loops of any length.
THEOREM ResultsAreDelivered == Spec => []ResultsDelivered
<1>1. ResultInv => ResultsDelivered
  <2> SUFFICES ASSUME ResultInv PROVE ResultsDelivered
    OBVIOUS
  <2> USE DEF AtEnd, AllEnded, Ended
  <2>1. /\ AtEnd("multiple_waiting_threads") => mem.got[2] = Value(42) /\ mem.got[3] = Value(42)
        /\ AtEnd("packet") => mem.got[2] = Value("ID-9001")
        /\ AtEnd("throwing_producer") => mem.printed = "exception"
    BY DEF ResultInv, SharedFutureInv, PacketInv, HandOver, ThrownInv, End
  <2>2. ASSUME AtEnd("server_fetching_data")
        PROVE  mem.printed = <<"value", "exception">>
    <3> DEFINE s == mem.printed
    <3>1. Told(s) /\ Len(s) = 2
      <4>1. Told(mem.printed) /\ Len(mem.printed) = Reports(pc[1]) /\ 1 \in Thread
        BY <2>2 DEF ResultInv, ServerInv
      <4>2. pc[1] = End
        BY <2>2, <4>1
      <4>3. Reports(End) = 2
        BY DEF Reports, End
      <4> QED
        BY <4>1, <4>2, <4>3
    <3> HIDE DEF s
    <3>2. s \in Seq({"value", "exception"}) /\ s[1] = "value" /\ s[2] = "exception"
      BY <3>1 DEF Told
    <3>3. s = <<s[1], s[2]>>
      BY <3>1, <3>2
    <3> QED
      BY <3>2, <3>3 DEF s
  <2>3. /\ AtEnd("package_task_test") => mem.future_1 = Value(11) /\ mem.got[1] = Value(15)
        /\ AtEnd("packaged_task") => mem.got[2] = Value(7)
        /\ AtEnd("asynk_task_launch") => mem.got[1] = Value(52)
        /\ AtEnd("futures_demo") => mem.got[1] = Value(52)
    BY DEF ResultInv, PackageInv, PackagedInv, HandOver, AsyncInv, DemoInv
  <2>4. /\ AtEnd("futures_promise") => mem.got[1] = Value(21)
        /\ program = "fibonacci" /\ Ended(1) => mem.policy = "async" /\ mem.got[1] = Value(5)
        /\ AtEnd("arithmetic") => mem.sum = 150 /\ mem.got[1] = Value(50)
    BY DEF ResultInv, FatherInv, FibonacciInv, ArithmeticInv
  <2>5. AtEnd("promise_exception") => mem.got[1] = mem.prom /\ mem.prom[1] = "value"
    BY DEF ResultInv, RootInv, Value
  <2>6. ASSUME program = "concurrent_tasks"
        PROVE  /\ mem.results = [k \in DOMAIN mem.results |-> k * k]
               /\ AllEnded => Len(mem.results) = 4
    <3> DEFINE s == mem.results
    <3>1. /\ s \in Seq(Nat) /\ \A k \in 1 .. Len(s) : s[k] = k * k
          /\ AllEnded => Len(s) = 4
      BY <2>6 DEF ResultInv, SquaresInv
    <3> HIDE DEF s
    <3>2. DOMAIN s = 1 .. Len(s) /\ s = [k \in DOMAIN s |-> s[k]]
      BY <3>1
    <3> QED
      BY <3>1, <3>2 DEF s
  <2>7. ASSUME AtEnd("launch_opts") PROVE mem.results = <<42, 42, 42>>
    <3> DEFINE s == mem.results
    <3>1. s \in Seq(Nat) /\ Len(s) = 3 /\ \A k \in 1 .. Len(s) : s[k] = 42
      BY <2>7 DEF ResultInv, LaunchInv
    <3> HIDE DEF s
    <3>2. s = <<s[1], s[2], s[3]>> /\ s[1] = 42 /\ s[2] = 42 /\ s[3] = 42
      BY <3>1
    <3> QED
      BY <3>2 DEF s
  <2>8. ASSUME AtEnd("countdown") PROVE mem.printed = [k \in 1 .. Rounds |-> Rounds - k + 1]
    <3> DEFINE s == mem.printed
    <3>1. /\ s \in Seq(Nat) /\ Len(s) = Rounds
          /\ \A k \in 1 .. Len(s) : s[k] = Rounds - k + 1
      BY <2>8 DEF ResultInv, CountdownInv
    <3> HIDE DEF s
    <3>2. s = [k \in 1 .. Rounds |-> s[k]]
      BY <3>1
    <3> QED
      BY <3>1, <3>2 DEF s
  <2>9. ASSUME AtEnd("count_to") PROVE mem.printed = [k \in 1 .. Rounds |-> k]
    <3> DEFINE s == mem.printed
    <3>1. s \in Seq(Nat) /\ Len(s) = Rounds /\ \A k \in 1 .. Len(s) : s[k] = k
      BY <2>9 DEF ResultInv, CountInv
    <3> HIDE DEF s
    <3>2. s = [k \in 1 .. Rounds |-> s[k]]
      BY <3>1
    <3> QED
      BY <3>1, <3>2 DEF s
  <2>10. ASSUME AtEnd("str_monitor")
         PROVE  mem.printed[Rounds] = [k \in 1 .. 2 * Rounds |-> (k - 1) \div 2]
    <3>1. /\ Len(mem.printed) = (Rounds + 1) - 1
          /\ \A k \in 1 .. Len(mem.printed) : mem.printed[k] = Doubled(k)
      BY <2>10 DEF ResultInv, MonitorInv, End
    <3>2. Rounds \in 1 .. Len(mem.printed)
      BY <3>1, RoundsAssumption
    <3> QED
      BY <3>1, <3>2 DEF Doubled
  <2> HIDE DEF AtEnd, AllEnded, Ended
  <2> QED
    BY <2>1, <2>2, <2>3, <2>4, <2>5, <2>6, <2>7, <2>8, <2>9, <2>10 DEF ResultsDelivered
<1> QED
  BY <1>1, LocksInvariant, LockStart, LockNext, ResultStart, ResultNext, PTL DEF Spec

-----------------------------------------------------------------------------
\* Counts

\* The calls that an agent of scoped_lock_dead_lock.cpp is through: two of the three counters
\* have each of them.
Calls(t) == IF pc[t] = 61 THEN mem.i[t] ELSE mem.i[t] - 1
AgentsInv ==
    /\ Thread = 1 .. 3 /\ DOMAIN mem = {"database", "cache", "network", "i", "f"}
    /\ mem.i \in [1 .. 3 -> Nat] /\ mem.f = <<20, 34, 48>>
    /\ pc[1] \in {61, 20, 27, End} /\ pc[2] \in {61, 34, 41, End} /\ pc[3] \in {61, 48, 55, End}
    /\ \A t \in 1 .. 3 : /\ Calls(t) \in 0 .. Rounds
                         /\ pc[t] \notin {61, End} => Calls(t) < Rounds
                         /\ Ended(t) => Calls(t) = Rounds
    /\ mem.database = Calls(1) + Calls(3)
    /\ mem.cache = Calls(1) + Calls(2)
    /\ mem.network = Calls(2) + Calls(3)

\* No sushi of starvation.cc is eaten twice, and nobody leaves before it is all eaten.
SushiInv ==
    /\ Thread = 1 .. 3 /\ DOMAIN mem = {"sushi_count", "sushi_eaten"}
    /\ mem.sushi_count \in Nat /\ mem.sushi_eaten \in [1 .. 3 -> Nat]
    /\ mem.sushi_count + mem.sushi_eaten[1] + mem.sushi_eaten[2] + mem.sushi_eaten[3] = Sushi
    /\ \A t \in 1 .. 3 : pc[t] \in {10, 11, 12, End} /\ (Ended(t) => mem.sushi_count = 0)

\* objects.cpp: what a thread has read under the mutex is still the value when it writes.
Added(t) == IF pc[t] \in {51, End} THEN t ELSE 0
ObjectInv ==
    /\ Thread = 1 .. 5 /\ DOMAIN mem = {"value", "read"} /\ DOMAIN mem.read = 1 .. 5
    /\ mem.value = 10 + Added(1) + Added(2) + Added(3) + Added(4) + Added(5)
    /\ \A t \in 1 .. 5 : /\ pc[t] \in {39, 45, 26, 51, End}
                         /\ pc[t] = 26 => mem.read[t] = mem.value

\* Two threads that count in a loop, whose head and body are these lines.
CountingInv(count, before, head, body, after) ==
    /\ Thread = 1 .. 2 /\ DOMAIN mem = {count, "i"}
    /\ mem.i \in [1 .. 2 -> 0 .. Rounds] /\ mem[count] = mem.i[1] + mem.i[2]
    /\ \A t \in 1 .. 2 : /\ pc[t] \in before \cup {head, body} \cup after
                         /\ pc[t] = body => mem.i[t] < Rounds
                         /\ pc[t] \in after => mem.i[t] = Rounds
ShoppersInv == CountingInv("item_count", {10}, 11, 14, {16, End})
AtomicShoppersInv == CountingInv("item_count", {13}, 14, 16, {18, End})
BasicCounterInv == CountingInv("counter", {}, 9, 10, {End})

\* recursive_mutex.cpp: the depth is how far the owner has come from its first argument, and
\* on the way back it has the factorial of the argument before.
Arguments == <<3, 4, 5, 3, 4>>
Before(n) == <<1, 1, 2, 6, 24>>[n]
FactorialInv ==
    /\ Thread = 1 .. 5 /\ DOMAIN owner = {"rm"} /\ owner["rm"] \in 0 .. 5
    /\ DOMAIN mem = {"depth", "n", "fact"}
    /\ mem.n \in [1 .. 5 -> Nat] /\ mem.fact \in [1 .. 5 -> Nat]
    /\ owner["rm"] = Nobody => mem.depth = 0
    /\ \A t \in 1 .. 5 :
          /\ pc[t] \in {9, 12, 28, End}
          /\ pc[t] = 9 =>
                /\ mem.fact[t] = 1
                /\ IF owner["rm"] = t
                   THEN mem.n[t] \in 1 .. Arguments[t] - 1 /\ mem.depth = Arguments[t] - mem.n[t]
                   ELSE mem.n[t] = Arguments[t]
          /\ pc[t] = 12 => /\ owner["rm"] = t /\ mem.n[t] \in 1 .. Arguments[t]
                           /\ mem.fact[t] = Before(mem.n[t])
                           /\ mem.depth = Arguments[t] - mem.n[t] + 1
          /\ pc[t] \in {28, End} =>
                owner["rm"] # t /\ mem.fact[t] = Arguments[t] * Before(Arguments[t])

\* thread_pool.cpp: who counts the workers down to 0 is the last one, and prints.
Left(t) == IF pc[t] \in {17, 18, 22} THEN 1 ELSE 0
CounterPoolInv ==
    /\ Thread = 1 .. 3 /\ DOMAIN mem = {"shared_counter", "workers_left", "printed", "i"}
    /\ mem.i \in [1 .. 3 -> 0 .. Rounds]
    /\ mem.shared_counter = mem.i[1] + mem.i[2] + mem.i[3]
    /\ mem.workers_left = Left(1) + Left(2) + Left(3)
    /\ \A t \in 1 .. 3 : /\ pc[t] \in {17, 18, 22, 24, End}
                         /\ pc[t] = 18 => mem.i[t] < Rounds
                         /\ pc[t] \in {22, 24, End} => mem.i[t] = Rounds
    /\ OneAt({24})
    /\ mem.printed = IF AllEnded THEN <<3 * Rounds>> ELSE <<>>
    /\ (\E t \in 1 .. 3 : pc[t] = 24) => mem.workers_left = 0
    /\ mem.workers_left = 0 => AllEnded \/ \E t \in 1 .. 3 : pc[t] = 24

\* atomics_class.cpp: the winner has counted to the end, and the others add to that.
RaceInv ==
    /\ Thread = 1 .. 4 /\ DOMAIN mem = {"ready", "winner", "won", "g_count", "i"}
    /\ mem.i \in [1 .. 4 -> 0 .. Rounds] /\ mem.g_count = mem.i[2] + mem.i[3] + mem.i[4]
    /\ mem.winner \in BOOLEAN /\ (mem.winner => \E t \in 2 .. 4 : mem.i[t] = Rounds)
    /\ pc[1] \in {52, End}
    /\ \A t \in 2 .. 4 : /\ pc[t] \in {33, 34, 35, 36, 38, End}
                         /\ pc[t] \in {35, 36} => mem.i[t] < Rounds
                         /\ pc[t] = 38 => mem.i[t] = Rounds
                         /\ Ended(t) => mem.winner

\* semaphore.h: a permit released is there, dropped at the maximum, or acquired.
Released(t) == IF pc[t] \in {19, 20, End} THEN 1 ELSE 0
Acquired(t) == IF Ended(t) THEN 1 ELSE 0
PermitsInv ==
    /\ Thread = 1 .. 5 /\ DOMAIN mem = {"counter", "dropped"}
    /\ mem.counter \in 0 .. max_counter /\ mem.dropped \in Nat
    /\ mem.counter + mem.dropped + Acquired(2) + Acquired(3)
         = Released(1) + Released(4) + Released(5)
    /\ \A t \in {1, 4, 5} : pc[t] \in {11, 14, 19, 20, End}
    /\ \A t \in {2, 3} : pc[t] \in {23, 27, 30, End} /\ (pc[t] = 30 => mem.counter # 0)

\* data_race.cpp: who writes has read what was there after its own last write.
DataRaceInv ==
    /\ Thread = 1 .. 2 /\ DOMAIN mem = {"counter", "i", "read"}
    /\ mem.i \in [1 .. 2 -> 0 .. Rounds] /\ mem.read \in [1 .. 2 -> Nat]
    /\ mem.counter \in 0 .. mem.i[1] + mem.i[2]
    /\ \A t \in 1 .. 2 : /\ pc[t] \in {11, 111, End}
                         /\ pc[t] = 111 => /\ mem.i[t] < Rounds
                                           /\ mem.read[t] <= mem.i[1] + mem.i[2]
                                           /\ mem.i[t] > 0 => mem.read[t] > 0
                         /\ mem.i[t] > 0 => mem.counter > 0
                         /\ Ended(t) => mem.i[t] = Rounds
    /\ mem.i[1] > 1 /\ mem.i[2] > 1 => mem.counter > 1

\* exec_policies.cpp: the first to read reads 0, and no write counts more than the writers.
Wrote(t) == IF Ended(t) THEN 1 ELSE 0
PositionsInv ==
    /\ Thread = 1 .. 4 /\ DOMAIN mem = {"counter", "read", "v", "v2", "result"}
    /\ mem.read \in [1 .. 3 -> Nat] /\ mem.v \in [1 .. 3 -> Nat]
    /\ mem.counter \in 0 .. Wrote(1) + Wrote(2) + Wrote(3)
    /\ pc[4] \in {29, 40, End}
    /\ \A t \in 1 .. 3 :
          /\ pc[t] \in {13, 113, End}
          /\ pc[t] = 113 => mem.read[t] <= Wrote(1) + Wrote(2) + Wrote(3)
          /\ Ended(t) => mem.counter > 0 /\ mem.v[t] = mem.read[t]
    /\ \/ mem.counter = 0 /\ \A t \in 1 .. 3 : pc[t] = 13
       \/ \E t \in 1 .. 3 : pc[t] # 13 /\ mem.read[t] = 0

\* What the counts rest on in each program.
CountInvariant ==
    /\ program = "scoped_lock_dead_lock" => AgentsInv
    /\ program = "starvation" => SushiInv
    /\ program = "objects" => ObjectInv
    /\ program = "mutex_example_1" => ShoppersInv
    /\ program = "atomic_example" => AtomicShoppersInv
    /\ program = "recursive_mutex" => FactorialInv
    /\ program = "basic_counter" => BasicCounterInv
    /\ program = "counter_pool" => CounterPoolInv
    /\ program = "atomics_class" => RaceInv
    /\ program = "semaphore" => PermitsInv
    /\ program = "data_race" => DataRaceInv
    /\ program = "exec_policies" => PositionsInv

LEMMA AgentsKept ==
  ASSUME AgentsInv, NEW t \in Thread, agent_a(t) \/ agent_b(t) \/ agent_c(t) \/ run_agent(t)
  PROVE  AgentsInv'
<1>0. /\ t \in 1 .. 3 /\ mem.i[t] \in Nat /\ Rounds \in Nat
      /\ \A u \in 1 .. 3 : mem.i[u] \in Nat /\ Calls(u) \in 0 .. Rounds
  BY RoundsAssumption DEF AgentsInv
<1>1. ASSUME NEW from, NEW to, NEW M, LockAll(t, from, M, to), {from, to} \cap {61, End} = {},
             \/ t = 1 /\ {from, to} = {20, 27}
             \/ t = 2 /\ {from, to} = {34, 41}
             \/ t = 3 /\ {from, to} = {48, 55}
      PROVE  AgentsInv'
  <2>1. /\ mem' = mem /\ pc[t] = from /\ pc' = [pc EXCEPT ![t] = to]
    BY <1>1 DEF LockAll, At, Goto
  <2>2. DOMAIN pc' = DOMAIN pc /\ pc'[t] = to /\ \A u \in 1 .. 3 : u # t => pc'[u] = pc[u]
    BY <1>0, <2>1 DEF AgentsInv, Thread
  <2>3. \A u \in 1 .. 3 : Calls(u)' = Calls(u)
    BY <1>0, <1>1, <2>1, <2>2 DEF Calls
  <2>4. \A u \in 1 .. 3 : /\ (pc'[u] = 61 <=> pc[u] = 61) /\ (pc'[u] = End <=> pc[u] = End)
    BY <1>0, <1>1, <2>1, <2>2
  <2> QED
    BY <1>0, <1>1, <2>1, <2>2, <2>3, <2>4 DEF AgentsInv, Thread, Ended, End
<1>2. ASSUME NEW from \in {27, 41, 55}, pc[t] = from, pc' = [pc EXCEPT ![t] = 61],
             DOMAIN mem' = DOMAIN mem, mem'.i = mem.i, mem'.f = mem.f,
             mem'.database = mem.database + (IF t \in {1, 3} THEN 1 ELSE 0),
             mem'.cache = mem.cache + (IF t \in {1, 2} THEN 1 ELSE 0),
             mem'.network = mem.network + (IF t \in {2, 3} THEN 1 ELSE 0)
      PROVE  AgentsInv'
  <2>2. DOMAIN pc' = DOMAIN pc /\ pc'[t] = 61 /\ \A u \in 1 .. 3 : u # t => pc'[u] = pc[u]
    BY <1>0, <1>2 DEF AgentsInv, Thread
  <2>3. Calls(t)' = Calls(t) + 1 /\ \A u \in 1 .. 3 : u # t => Calls(u)' = Calls(u)
    BY <1>0, <1>2, <2>2 DEF Calls
  <2>4. Calls(t) < Rounds
    BY <1>0, <1>2 DEF AgentsInv, End
  <2>5. t = 1 \/ t = 2 \/ t = 3
    BY <1>0
  <2>6. /\ mem'.database = Calls(1)' + Calls(3)'
        /\ mem'.cache = Calls(1)' + Calls(2)'
        /\ mem'.network = Calls(2)' + Calls(3)'
    BY <1>0, <1>2, <2>3, <2>5 DEF AgentsInv
  <2> QED
    BY <1>0, <1>2, <2>2, <2>3, <2>4, <2>5, <2>6 DEF AgentsInv, Thread, Ended, End
<1>3. CASE agent_a(t)
  <2>1. t = 1
    BY <1>0, <1>3 DEF AgentsInv, agent_a, LockAll, Unlock, At, End
  <2>2. CASE LockAll(t, 20, {"database", "cache"}, 27)
    BY <1>1, <2>1, <2>2 DEF End
  <2>3. CASE Unlock(t, 27, {"database", "cache"},
                    [mem EXCEPT !.database = @ + 1, !.cache = @ + 1], 61)
    <3>1. /\ pc[t] = 27 /\ pc' = [pc EXCEPT ![t] = 61] /\ DOMAIN mem' = DOMAIN mem
          /\ mem'.i = mem.i /\ mem'.f = mem.f
          /\ mem'.database = mem.database + 1 /\ mem'.cache = mem.cache + 1
          /\ mem'.network = mem.network
      BY <2>3 DEF Unlock, At, Goto, AgentsInv
    <3> QED
      BY <1>0, <1>2, <2>1, <3>1 DEF AgentsInv
  <2> QED
    BY <1>3, <2>2, <2>3 DEF agent_a
<1>4. CASE agent_b(t)
  <2>1. t = 2
    BY <1>0, <1>4 DEF AgentsInv, agent_b, LockAll, Unlock, At, End
  <2>2. CASE LockAll(t, 34, {"cache", "network"}, 41)
    BY <1>1, <2>1, <2>2 DEF End
  <2>3. CASE Unlock(t, 41, {"cache", "network"},
                    [mem EXCEPT !.cache = @ + 1, !.network = @ + 1], 61)
    <3>1. /\ pc[t] = 41 /\ pc' = [pc EXCEPT ![t] = 61] /\ DOMAIN mem' = DOMAIN mem
          /\ mem'.i = mem.i /\ mem'.f = mem.f
          /\ mem'.database = mem.database /\ mem'.cache = mem.cache + 1
          /\ mem'.network = mem.network + 1
      BY <2>3 DEF Unlock, At, Goto, AgentsInv
    <3> QED
      BY <1>0, <1>2, <2>1, <3>1 DEF AgentsInv
  <2> QED
    BY <1>4, <2>2, <2>3 DEF agent_b
<1>5. CASE agent_c(t)
  <2>1. t = 3
    BY <1>0, <1>5 DEF AgentsInv, agent_c, LockAll, Unlock, At, End
  <2>2. CASE LockAll(t, 48, {"network", "database"}, 55)
    BY <1>1, <2>1, <2>2 DEF End
  <2>3. CASE Unlock(t, 55, {"network", "database"},
                    [mem EXCEPT !.network = @ + 1, !.database = @ + 1], 61)
    <3>1. /\ pc[t] = 55 /\ pc' = [pc EXCEPT ![t] = 61] /\ DOMAIN mem' = DOMAIN mem
          /\ mem'.i = mem.i /\ mem'.f = mem.f
          /\ mem'.database = mem.database + 1 /\ mem'.cache = mem.cache
          /\ mem'.network = mem.network + 1
      BY <2>3 DEF Unlock, At, Goto, AgentsInv
    <3> QED
      BY <1>0, <1>2, <2>1, <3>1 DEF AgentsInv
  <2> QED
    BY <1>5, <2>2, <2>3 DEF agent_c
<1>6. CASE run_agent(t)
  <2> DEFINE to == IF mem.i[t] < Rounds THEN mem.f[t] ELSE End
  <2>1. /\ DOMAIN mem' = DOMAIN mem /\ mem'.i = [mem.i EXCEPT ![t] = mem.i[t] + 1]
        /\ mem'.f = mem.f /\ mem'.database = mem.database /\ mem'.cache = mem.cache
        /\ mem'.network = mem.network /\ pc[t] = 61 /\ pc' = [pc EXCEPT ![t] = to]
    BY <1>6 DEF run_agent, Step, At, Goto, AgentsInv
  <2>2. /\ mem.f = <<20, 34, 48>> /\ mem.i \in [1 .. 3 -> Nat]
    BY DEF AgentsInv
  <2>3. /\ mem'.i \in [1 .. 3 -> Nat] /\ mem'.i[t] = mem.i[t] + 1
        /\ \A u \in 1 .. 3 : u # t => mem'.i[u] = mem.i[u]
    BY <1>0, <2>1, <2>2
  <2>4. /\ to # 61 /\ (to = End <=> mem.i[t] >= Rounds)
        /\ t = 1 => to \in {20, End}
        /\ t = 2 => to \in {34, End}
        /\ t = 3 => to \in {48, End}
    BY <1>0, <2>2 DEF End
  <2> HIDE DEF to
  <2>5. DOMAIN pc' = DOMAIN pc /\ pc'[t] = to /\ \A u \in 1 .. 3 : u # t => pc'[u] = pc[u]
    BY <1>0, <2>1 DEF AgentsInv, Thread
  <2>6. \A u \in 1 .. 3 : Calls(u)' = Calls(u)
    BY <1>0, <2>1, <2>3, <2>4, <2>5 DEF Calls
  <2>7. Calls(t) = mem.i[t]
    BY <2>1 DEF Calls
  <2>8. \A u \in 1 .. 3 : /\ Calls(u)' \in 0 .. Rounds
                          /\ pc'[u] \notin {61, End} => Calls(u)' < Rounds
                          /\ pc'[u] = End => Calls(u)' = Rounds
    BY <1>0, <2>4, <2>5, <2>6, <2>7 DEF AgentsInv, Ended
  <2>9. /\ pc'[1] \in {61, 20, 27, End} /\ pc'[2] \in {61, 34, 41, End}
        /\ pc'[3] \in {61, 48, 55, End}
    BY <1>0, <2>4, <2>5 DEF AgentsInv
  <2> QED
    BY <2>1, <2>3, <2>5, <2>6, <2>8, <2>9 DEF AgentsInv, Thread, Ended
<1> QED
  BY <1>3, <1>4, <1>5, <1>6

LEMMA SushiKept ==
  ASSUME SushiInv, NEW t \in Thread, starvation(t)
  PROVE  SushiInv'
<1> USE DEF SushiInv, Goto, At, Thread, Ended, End
<1>1. CASE Test(t, 10, mem.sushi_count > 0, 11, End)
  BY <1>1 DEF Test, Step
<1>2. CASE Lock(t, 11, "chopsticks", 12)
  BY <1>2 DEF Lock, LockAll
<1>3. CASE mem.sushi_count = 0 /\ Unlock(t, 12, {"chopsticks"}, mem, 10)
  BY <1>3 DEF Unlock
<1>4. CASE /\ mem.sushi_count # 0
           /\ Unlock(t, 12, {"chopsticks"},
                     [mem EXCEPT !.sushi_count = @ - 1, !.sushi_eaten[t] = @ + 1], 10)
  <2>1. /\ DOMAIN mem' = DOMAIN mem /\ mem'.sushi_count = mem.sushi_count - 1
        /\ mem'.sushi_eaten = [mem.sushi_eaten EXCEPT ![t] = mem.sushi_eaten[t] + 1]
        /\ DOMAIN pc' = DOMAIN pc /\ \A u \in 1 .. 3 : pc'[u] = pc[u] \/ pc'[u] = 10
    BY <1>4 DEF Unlock
  <2>2. t \in 1 .. 3 /\ mem.sushi_eaten[t] + 1 \in Nat /\ mem.sushi_count - 1 \in Nat
    BY <1>4
  <2>3. /\ mem'.sushi_eaten \in [1 .. 3 -> Nat]
        /\ mem'.sushi_eaten[t] = mem.sushi_eaten[t] + 1
        /\ \A u \in 1 .. 3 : u # t => mem'.sushi_eaten[u] = mem.sushi_eaten[u]
    BY <2>1, <2>2
  <2>4. /\ \A u \in 1 .. 3 : mem.sushi_eaten[u] \in Nat
        /\ t = 1 \/ t = 2 \/ t = 3
    BY <2>2
  <2>5. mem'.sushi_count + mem'.sushi_eaten[1] + mem'.sushi_eaten[2] + mem'.sushi_eaten[3] = Sushi
    <3>1. mem.sushi_count + mem.sushi_eaten[1] + mem.sushi_eaten[2] + mem.sushi_eaten[3] = Sushi
          /\ mem.sushi_count \in Nat
      OBVIOUS
    <3> HIDE DEF SushiInv
    <3> QED
      BY <2>1, <2>3, <2>4, <3>1
  <2>6. \A u \in 1 .. 3 : pc'[u] \in {10, 11, 12, End} /\ pc'[u] # End
    BY <1>4, <2>1
  <2> QED
    BY <2>1, <2>2, <2>3, <2>5, <2>6
<1> QED
  BY <1>1, <1>2, <1>3, <1>4 DEF starvation

LEMMA ObjectKept ==
  ASSUME LockInv, program = "objects", ObjectInv, NEW t \in Thread, test_thread(t)
  PROVE  ObjectInv'
<1>1. \A u \in 1 .. 5 : /\ pc[u] \in {45, 26, 51} /\ pc[t] \in {45, 26, 51} => u = t
  BY DEF LockInv, LocksHeld, Holds, ObjectInv
<1> USE DEF ObjectInv, Goto, At, Thread, End
<1>2. CASE Lock(t, 39, "mtx", 45)
  BY <1>2 DEF Lock, LockAll, Added
<1>3. CASE Step(t, 45, [mem EXCEPT !.read[t] = mem.value], 26)
  <2>1. /\ DOMAIN mem' = DOMAIN mem /\ mem'.value = mem.value
        /\ mem'.read = [mem.read EXCEPT ![t] = mem.value] /\ pc' = [pc EXCEPT ![t] = 26]
    BY <1>3 DEF Step
  <2>2. pc[t] = 45
    BY <1>3 DEF Step
  <2> QED
    BY <1>1, <2>1, <2>2 DEF Added
<1>4. CASE Step(t, 26, [mem EXCEPT !.value = mem.read[t] + t], 51)
  <2>1. /\ DOMAIN mem' = DOMAIN mem /\ mem'.read = mem.read
        /\ mem'.value = mem.value + t /\ pc' = [pc EXCEPT ![t] = 51] /\ pc[t] = 26
    BY <1>4 DEF Step
  <2>2. /\ DOMAIN pc' = DOMAIN pc /\ pc'[t] = 51
        /\ \A u \in 1 .. 5 : u # t => pc'[u] = pc[u] /\ pc[u] # 26
    BY <1>1, <2>1
  <2>3. \A u \in 1 .. 5 : Added(u) \in Nat
    BY DEF Added
  <2>4. Added(t) = 0 /\ Added(t)' = t /\ \A u \in 1 .. 5 : u # t => Added(u)' = Added(u)
    BY <2>1, <2>2 DEF Added
  <2>5. t = 1 \/ t = 2 \/ t = 3 \/ t = 4 \/ t = 5
    OBVIOUS
  <2>6. mem'.value = 10 + Added(1)' + Added(2)' + Added(3)' + Added(4)' + Added(5)'
    <3>1. mem.value = 10 + Added(1) + Added(2) + Added(3) + Added(4) + Added(5)
      OBVIOUS
    <3> HIDE DEF ObjectInv
    <3> QED
      BY <2>1, <2>3, <2>4, <2>5, <3>1
  <2> QED
    BY <2>1, <2>2, <2>6
<1>5. CASE Unlock(t, 51, {"mtx"}, mem, End)
  BY <1>5 DEF Unlock, Added
<1> QED
  BY <1>2, <1>3, <1>4, <1>5 DEF test_thread

\* A turn of the loop, whichever of the two threads takes it.
LEMMA CountingTurn ==
  ASSUME NEW count \in {"item_count", "counter"}, NEW before, NEW head, NEW body, NEW after,
         CountingInv(count, before, head, body, after), NEW t \in Thread,
         body # head, body \notin after, head \notin after,
         DOMAIN mem' = DOMAIN mem, mem'[count] = mem[count] + 1,
         mem'.i = [mem.i EXCEPT ![t] = mem.i[t] + 1],
         pc[t] = body, pc' = [pc EXCEPT ![t] = head]
  PROVE  CountingInv(count, before, head, body, after)'
<1> DEFINE i == mem.i
           j == mem'.i
<1>1. DOMAIN mem = {count, "i"}
  BY DEF CountingInv
<1>2. j = [i EXCEPT ![t] = i[t] + 1]
  OBVIOUS
<1>3. /\ t \in 1 .. 2 /\ i \in [1 .. 2 -> 0 .. Rounds] /\ i[t] < Rounds
      /\ mem[count] = i[1] + i[2] /\ DOMAIN pc = 1 .. 2
  BY DEF CountingInv, Thread
<1> HIDE DEF i, j
<1>4. i[1] \in 0 .. Rounds /\ i[2] \in 0 .. Rounds /\ i[t] \in 0 .. Rounds /\ Rounds \in Nat
  BY <1>3, RoundsAssumption
<1>5. i[t] + 1 \in 0 .. Rounds
  BY <1>3, <1>4
<1>6. /\ j \in [1 .. 2 -> 0 .. Rounds] /\ j[t] = i[t] + 1
      /\ \A u \in 1 .. 2 : u # t => j[u] = i[u]
  BY <1>2, <1>3, <1>5
<1>7. mem'[count] = j[1] + j[2]
  <2>1. CASE t = 1
    BY <1>2, <1>3, <1>4, <1>6, <2>1
  <2>2. CASE t = 2
    BY <1>2, <1>3, <1>4, <1>6, <2>2
  <2> QED
    BY <1>3, <2>1, <2>2
<1>8. /\ DOMAIN pc' = 1 .. 2 /\ pc'[t] = head
      /\ \A u \in 1 .. 2 : u # t => pc'[u] = pc[u]
  BY <1>2, <1>3
<1> QED
  BY <1>1, <1>2, <1>6, <1>7, <1>8 DEF CountingInv, Thread, i, j

LEMMA CountingTest ==
  ASSUME NEW count, NEW before, NEW head, NEW body, NEW after, NEW last \in after,
         CountingInv(count, before, head, body, after), NEW t \in Thread,
         body # head, body \notin after,
         Test(t, head, mem.i[t] < Rounds, body, last)
  PROVE  CountingInv(count, before, head, body, after)'
<1> USE DEF CountingInv, Goto, At, Thread
<1>1. /\ mem' = mem /\ pc[t] = head /\ t \in 1 .. 2
      /\ pc' = [pc EXCEPT ![t] = IF mem.i[t] < Rounds THEN body ELSE last]
  BY DEF Test, Step
<1>2. Rounds \in Nat /\ mem.i[t] \in 0 .. Rounds
  BY <1>1, RoundsAssumption
<1>3. mem.i[t] < Rounds \/ mem.i[t] = Rounds
  BY <1>2
<1> QED
  BY <1>1, <1>2, <1>3

LEMMA ShoppersKept ==
  ASSUME ShoppersInv, NEW t \in Thread, shopper(t)
  PROVE  ShoppersInv'
<1>1. CASE Lock(t, 10, "pencil", 11)
  BY <1>1 DEF Lock, LockAll, ShoppersInv, CountingInv, Goto, At, Thread, End
<1>2. CASE Test(t, 11, mem.i[t] < Rounds, 14, 16)
  BY <1>2, CountingTest DEF ShoppersInv, End
<1>3. CASE Step(t, 14, [mem EXCEPT !.item_count = @ + 1, !.i[t] = @ + 1], 11)
  <2>1. DOMAIN mem = {"item_count", "i"}
    BY DEF ShoppersInv, CountingInv
  <2>2. /\ DOMAIN mem' = DOMAIN mem /\ mem'["item_count"] = mem["item_count"] + 1
        /\ mem'.i = [mem.i EXCEPT ![t] = mem.i[t] + 1]
        /\ pc[t] = 14 /\ pc' = [pc EXCEPT ![t] = 11]
    BY <1>3, <2>1 DEF Step, At, Goto
  <2>3. /\ "item_count" \in {"item_count", "counter"}
        /\ 14 # 11 /\ 14 \notin {16, End} /\ 11 \notin {16, End}
    BY DEF End
  <2>4. CountingInv("item_count", {10}, 11, 14, {16, End})
    BY DEF ShoppersInv
  <2>5. CountingInv("item_count", {10}, 11, 14, {16, End})'
    BY <2>2, <2>3, <2>4, CountingTurn, Zenon
  <2> QED
    BY <2>5 DEF ShoppersInv
<1>4. CASE Unlock(t, 16, {"pencil"}, mem, End)
  BY <1>4 DEF Unlock, ShoppersInv, CountingInv, Goto, At, Thread, End
<1> QED
  BY <1>1, <1>2, <1>3, <1>4 DEF shopper

LEMMA AtomicShoppersKept ==
  ASSUME AtomicShoppersInv, NEW t \in Thread, atomic_shopper(t)
  PROVE  AtomicShoppersInv'
<1>1. CASE Lock(t, 13, "pencil", 14)
  BY <1>1 DEF Lock, LockAll, AtomicShoppersInv, CountingInv, Goto, At, Thread, End
<1>2. CASE Test(t, 14, mem.i[t] < Rounds, 16, 18)
  BY <1>2, CountingTest DEF AtomicShoppersInv, End
<1>3. CASE Step(t, 16, [mem EXCEPT !.item_count = @ + 1, !.i[t] = @ + 1], 14)
  <2>1. DOMAIN mem = {"item_count", "i"}
    BY DEF AtomicShoppersInv, CountingInv
  <2>2. /\ DOMAIN mem' = DOMAIN mem /\ mem'["item_count"] = mem["item_count"] + 1
        /\ mem'.i = [mem.i EXCEPT ![t] = mem.i[t] + 1]
        /\ pc[t] = 16 /\ pc' = [pc EXCEPT ![t] = 14]
    BY <1>3, <2>1 DEF Step, At, Goto
  <2>3. /\ "item_count" \in {"item_count", "counter"}
        /\ 16 # 14 /\ 16 \notin {18, End} /\ 14 \notin {18, End}
    BY DEF End
  <2>4. CountingInv("item_count", {13}, 14, 16, {18, End})
    BY DEF AtomicShoppersInv
  <2>5. CountingInv("item_count", {13}, 14, 16, {18, End})'
    BY <2>2, <2>3, <2>4, CountingTurn, Zenon
  <2> QED
    BY <2>5 DEF AtomicShoppersInv
<1>4. CASE Unlock(t, 18, {"pencil"}, mem, End)
  BY <1>4 DEF Unlock, AtomicShoppersInv, CountingInv, Goto, At, Thread, End
<1> QED
  BY <1>1, <1>2, <1>3, <1>4 DEF atomic_shopper

LEMMA BasicCounterKept ==
  ASSUME BasicCounterInv, NEW t \in Thread, counter_worker(t)
  PROVE  BasicCounterInv'
<1>1. CASE Test(t, 9, mem.i[t] < Rounds, 10, End)
  BY <1>1, CountingTest DEF BasicCounterInv, End
<1>2. CASE Step(t, 10, [mem EXCEPT !.counter = @ + 1, !.i[t] = @ + 1], 9)
  <2>1. DOMAIN mem = {"counter", "i"}
    BY DEF BasicCounterInv, CountingInv
  <2>2. /\ DOMAIN mem' = DOMAIN mem /\ mem'["counter"] = mem["counter"] + 1
        /\ mem'.i = [mem.i EXCEPT ![t] = mem.i[t] + 1]
        /\ pc[t] = 10 /\ pc' = [pc EXCEPT ![t] = 9]
    BY <1>2, <2>1 DEF Step, At, Goto
  <2>3. /\ "counter" \in {"item_count", "counter"}
        /\ 10 # 9 /\ 10 \notin {End} /\ 9 \notin {End}
    BY DEF End
  <2>4. CountingInv("counter", {}, 9, 10, {End})
    BY DEF BasicCounterInv
  <2>5. CountingInv("counter", {}, 9, 10, {End})'
    BY <2>2, <2>3, <2>4, CountingTurn, Zenon
  <2> QED
    BY <2>5 DEF BasicCounterInv
<1> QED
  BY <1>1, <1>2 DEF counter_worker

LEMMA FactorialKept ==
  ASSUME FactorialInv, NEW t \in Thread, factorial(t)
  PROVE  FactorialInv'
<1> DEFINE o == owner["rm"]
<1>0. /\ t \in 1 .. 5 /\ t # Nobody /\ mem.n[t] \in Nat /\ mem.fact[t] \in Nat
      /\ Arguments[t] \in 3 .. 5 /\ Nobody = 0 /\ DOMAIN pc = 1 .. 5
  BY DEF FactorialInv, Thread, Arguments, Nobody
<1>1. ASSUME o \in {Nobody, t}, At(t, 9), owner' = [owner EXCEPT !["rm"] = t],
             mem' = [mem EXCEPT !.depth = @ + 1, !.n[t] = IF @ <= 1 THEN @ ELSE @ - 1],
             Goto(t, IF mem.n[t] <= 1 THEN 12 ELSE 9)
      PROVE  FactorialInv'
  <2> DEFINE to == IF mem.n[t] <= 1 THEN 12 ELSE 9
             n == IF mem.n[t] <= 1 THEN mem.n[t] ELSE mem.n[t] - 1
  <2>1. /\ DOMAIN owner' = {"rm"} /\ owner'["rm"] = t
        /\ DOMAIN mem' = DOMAIN mem /\ mem'.depth = mem.depth + 1 /\ mem'.fact = mem.fact
        /\ mem'.n = [mem.n EXCEPT ![t] = n] /\ pc' = [pc EXCEPT ![t] = to] /\ pc[t] = 9
    BY <1>1 DEF FactorialInv, At, Goto
  <2>2. /\ mem.fact[t] = 1 /\ mem.n[t] \in 1 .. Arguments[t]
        /\ mem.depth = Arguments[t] - mem.n[t]
    <3>1. CASE o = t
      BY <1>0, <2>1, <3>1 DEF FactorialInv
    <3>2. CASE o = Nobody
      BY <1>0, <2>1, <3>2 DEF FactorialInv
    <3> QED
      BY <1>1, <3>1, <3>2
  <2>3. n \in Nat /\ n \in 1 .. Arguments[t] /\ (to = 9 => n = mem.n[t] - 1) /\ to \in {9, 12}
        /\ (to = 12 => n = 1 /\ mem.n[t] = 1)
    BY <1>0, <2>2
  <2> HIDE DEF to, n
  <2>4. /\ mem'.n \in [1 .. 5 -> Nat] /\ mem'.n[t] = n
        /\ \A u \in 1 .. 5 : u # t => mem'.n[u] = mem.n[u]
    BY <1>0, <2>1, <2>3, OneAssigned DEF FactorialInv
  <2>5. DOMAIN pc' = 1 .. 5 /\ pc'[t] = to /\ \A u \in 1 .. 5 : u # t => pc'[u] = pc[u]
    BY <1>0, <2>1, LineAssigned
  <2>6. ASSUME NEW u \in 1 .. 5, u # t
        PROVE  /\ pc'[u] \in {9, 28, End}
               /\ pc'[u] = 9 => mem'.fact[u] = 1 /\ mem'.n[u] = Arguments[u]
               /\ pc'[u] \in {28, End} => mem'.fact[u] = Arguments[u] * Before(Arguments[u])
    <3>1. o # u
      BY <1>0, <1>1, <2>6
    <3> QED
      BY <2>1, <2>4, <2>5, <2>6, <3>1 DEF FactorialInv
  <2>7. ASSUME to = 12
        PROVE  /\ mem'.n[t] \in 1 .. Arguments[t] /\ mem'.fact[t] = Before(mem'.n[t])
               /\ mem'.depth = Arguments[t] - mem'.n[t] + 1
    BY <1>0, <2>1, <2>2, <2>3, <2>4, <2>7 DEF Before
  <2>8. ASSUME to = 9
        PROVE  /\ mem'.fact[t] = 1 /\ mem'.n[t] \in 1 .. Arguments[t] - 1
               /\ mem'.depth = Arguments[t] - mem'.n[t]
    BY <1>0, <2>1, <2>2, <2>3, <2>4, <2>8
  <2>9. /\ DOMAIN mem' = {"depth", "n", "fact"} /\ mem'.fact \in [1 .. 5 -> Nat]
        /\ Thread' = 1 .. 5 /\ owner'["rm"] \in 0 .. 5 /\ owner'["rm"] # Nobody
    BY <1>0, <2>1, <2>5 DEF FactorialInv, Thread
  <2>10. ASSUME NEW u \in 1 .. 5
         PROVE  /\ pc'[u] \in {9, 12, 28, End}
                /\ pc'[u] = 9 =>
                      /\ mem'.fact[u] = 1
                      /\ IF owner'["rm"] = u
                         THEN /\ mem'.n[u] \in 1 .. Arguments[u] - 1
                              /\ mem'.depth = Arguments[u] - mem'.n[u]
                         ELSE mem'.n[u] = Arguments[u]
                /\ pc'[u] = 12 => /\ owner'["rm"] = u /\ mem'.n[u] \in 1 .. Arguments[u]
                                  /\ mem'.fact[u] = Before(mem'.n[u])
                                  /\ mem'.depth = Arguments[u] - mem'.n[u] + 1
                /\ pc'[u] \in {28, End} =>
                      owner'["rm"] # u /\ mem'.fact[u] = Arguments[u] * Before(Arguments[u])
    <3>1. CASE u = t
      BY <2>1, <2>3, <2>5, <2>7, <2>8, <3>1 DEF End
    <3>2. CASE u # t
      BY <2>1, <2>6, <3>2 DEF End
    <3> QED
      BY <3>1, <3>2
  <2> QED
    BY <2>1, <2>4, <2>9, <2>10 DEF FactorialInv, Thread
<1>2. ASSUME At(t, 12), Goto(t, IF mem.depth > 1 THEN 12 ELSE 28),
             mem' = [mem EXCEPT !.depth = @ - 1, !.n[t] = @ + 1, !.fact[t] = @ * mem.n[t]],
             DOMAIN owner' = DOMAIN owner,
             owner'["rm"] = IF mem.depth > 1 THEN owner["rm"] ELSE Nobody
      PROVE  FactorialInv'
  <2> DEFINE n == mem.n[t]
  <2>1. /\ DOMAIN mem' = DOMAIN mem /\ mem'.depth = mem.depth - 1 /\ pc[t] = 12
        /\ mem'.n = [mem.n EXCEPT ![t] = n + 1]
        /\ mem'.fact = [mem.fact EXCEPT ![t] = mem.fact[t] * n]
        /\ pc' = [pc EXCEPT ![t] = IF mem.depth > 1 THEN 12 ELSE 28]
    BY <1>2 DEF FactorialInv, At, Goto
  <2>2. /\ n \in 1 .. Arguments[t] /\ mem.fact[t] = Before(n)
        /\ mem.depth = Arguments[t] - n + 1 /\ owner["rm"] = t
    BY <1>0, <2>1 DEF FactorialInv
  <2>3. /\ n + 1 \in Nat /\ Before(n) * n \in Nat /\ Before(n) * n = n * Before(n)
        /\ n < 5 => Before(n + 1) = Before(n) * n
    <3>1. n = 1 \/ n = 2 \/ n = 3 \/ n = 4 \/ n = 5
      BY <1>0, <2>2
    <3> HIDE DEF n
    <3> QED
      BY <3>1 DEF Before
  <2> HIDE DEF n
  <2>4. /\ mem'.n \in [1 .. 5 -> Nat] /\ mem'.n[t] = n + 1
        /\ \A u \in 1 .. 5 : u # t => mem'.n[u] = mem.n[u]
    BY <1>0, <2>1, <2>3, OneAssigned DEF FactorialInv
  <2>5. /\ mem'.fact \in [1 .. 5 -> Nat] /\ mem'.fact[t] = Before(n) * n
        /\ \A u \in 1 .. 5 : u # t => mem'.fact[u] = mem.fact[u]
    <3>1. mem'.fact = [mem.fact EXCEPT ![t] = Before(n) * n]
      BY <2>1, <2>2
    <3> QED
      BY <1>0, <2>3, <3>1, OneAssigned DEF FactorialInv
  <2>6. /\ DOMAIN pc' = 1 .. 5 /\ pc'[t] = (IF mem.depth > 1 THEN 12 ELSE 28)
        /\ \A u \in 1 .. 5 : u # t => pc'[u] = pc[u]
    BY <1>0, <2>1, LineAssigned
  <2>7. ASSUME NEW u \in 1 .. 5, u # t
        PROVE  /\ pc'[u] \in {9, 28, End} /\ owner'["rm"] # u
               /\ pc'[u] = 9 => mem'.fact[u] = 1 /\ mem'.n[u] = Arguments[u]
               /\ pc'[u] \in {28, End} => mem'.fact[u] = Arguments[u] * Before(Arguments[u])
    <3>1. owner["rm"] # u /\ owner'["rm"] # u
      BY <1>0, <1>2, <2>2, <2>7
    <3> QED
      BY <2>4, <2>5, <2>6, <2>7, <3>1 DEF FactorialInv
  <2>8. CASE mem.depth > 1
    <3>1. /\ n < Arguments[t] /\ n < 5 /\ n + 1 \in 1 .. Arguments[t]
          /\ mem.depth - 1 = Arguments[t] - (n + 1) + 1
      BY <1>0, <2>2, <2>8
    <3>2. /\ mem'.n[t] \in 1 .. Arguments[t] /\ mem'.fact[t] = Before(mem'.n[t])
          /\ mem'.depth = Arguments[t] - mem'.n[t] + 1 /\ owner'["rm"] = t /\ pc'[t] = 12
      BY <1>2, <2>1, <2>2, <2>3, <2>4, <2>5, <2>6, <2>8, <3>1
    <3>3. /\ DOMAIN mem' = {"depth", "n", "fact"} /\ DOMAIN owner' = {"rm"}
          /\ Thread' = 1 .. 5 /\ owner'["rm"] \in 0 .. 5 /\ owner'["rm"] # Nobody
      BY <1>0, <1>2, <2>1, <2>6, <3>2 DEF FactorialInv, Thread
    <3> QED
      BY <2>4, <2>5, <2>7, <3>2, <3>3 DEF FactorialInv, Thread, End
  <2>9. CASE ~(mem.depth > 1)
    <3>1. n = Arguments[t] /\ mem.depth - 1 = 0
      BY <1>0, <2>2, <2>9
    <3>2. /\ mem'.fact[t] = Arguments[t] * Before(Arguments[t]) /\ mem'.depth = 0
          /\ owner'["rm"] = Nobody /\ pc'[t] = 28
      BY <1>2, <2>1, <2>3, <2>5, <2>6, <2>9, <3>1
    <3>3. /\ DOMAIN mem' = {"depth", "n", "fact"} /\ DOMAIN owner' = {"rm"}
          /\ Thread' = 1 .. 5 /\ owner'["rm"] \in 0 .. 5 /\ owner'["rm"] # t
      BY <1>0, <1>2, <2>1, <2>6, <3>2 DEF FactorialInv, Thread
    <3> QED
      BY <2>4, <2>5, <2>7, <3>2, <3>3 DEF FactorialInv, Thread, End
  <2> QED
    BY <2>8, <2>9
<1>3. CASE Guarded(t, 28, "rm", mem, End)
  BY <1>0, <1>3 DEF FactorialInv, Guarded, Step, At, Goto, Thread, End
<1> DEFINE returned == [mem EXCEPT !.depth = @ - 1, !.n[t] = @ + 1, !.fact[t] = @ * mem.n[t]]
<1>4. CASE mem.depth > 1 /\ Step(t, 12, returned, 12)
  BY <1>2, <1>4 DEF Step
<1>5. CASE ~(mem.depth > 1) /\ Unlock(t, 12, {"rm"}, returned, 28)
  <2>1. DOMAIN owner' = DOMAIN owner /\ owner'["rm"] = Nobody
    BY <1>5 DEF Unlock, FactorialInv
  <2> QED
    BY <1>2, <1>5, <2>1 DEF Unlock
<1> HIDE DEF o
<1> QED
  BY <1>1, <1>3, <1>4, <1>5 DEF factorial, o

LEMMA CounterPoolKept ==
  ASSUME CounterPoolInv, NEW t \in Thread, pool_worker(t)
  PROVE  CounterPoolInv'
<1>0. /\ t \in 1 .. 3 /\ mem.i \in [1 .. 3 -> 0 .. Rounds] /\ mem.i[t] \in 0 .. Rounds
      /\ Rounds \in Nat /\ DOMAIN pc = 1 .. 3 /\ (t = 1 \/ t = 2 \/ t = 3)
  BY RoundsAssumption DEF CounterPoolInv, Thread
<1>1. ASSUME NEW line, pc' = [pc EXCEPT ![t] = line]
      PROVE  DOMAIN pc' = 1 .. 3 /\ pc'[t] = line /\ \A u \in 1 .. 3 : u # t => pc'[u] = pc[u]
  BY <1>0, <1>1, LineAssigned
<1>2. CASE Test(t, 17, mem.i[t] < Rounds, 18, 22)
  <2> DEFINE to == IF mem.i[t] < Rounds THEN 18 ELSE 22
  <2>1. mem' = mem /\ pc[t] = 17 /\ pc' = [pc EXCEPT ![t] = to]
    BY <1>2 DEF Test, Step, At, Goto
  <2>2. to \in {18, 22} /\ (to = 18 => mem.i[t] < Rounds) /\ (to = 22 => mem.i[t] = Rounds)
    BY <1>0
  <2> HIDE DEF to
  <2>3. DOMAIN pc' = 1 .. 3 /\ pc'[t] = to /\ \A u \in 1 .. 3 : u # t => pc'[u] = pc[u]
    BY <1>1, <2>1
  <2>4. /\ \A u \in 1 .. 3 : Left(u)' = Left(u)
        /\ \A u \in 1 .. 3 : (pc'[u] = 24 <=> pc[u] = 24) /\ (pc'[u] = End <=> pc[u] = End)
    BY <1>0, <2>1, <2>2, <2>3 DEF Left, End
  <2>5. AllEnded' <=> AllEnded
    BY <1>0, <2>3, <2>4 DEF AllEnded, Ended, Thread
  <2>6. \A u \in 1 .. 3 : /\ pc'[u] \in {17, 18, 22, 24, End}
                          /\ pc'[u] = 18 => mem.i[u] < Rounds
                          /\ pc'[u] \in {22, 24, End} => mem.i[u] = Rounds
    BY <2>1, <2>2, <2>3 DEF CounterPoolInv, End
  <2> QED
    BY <1>0, <2>1, <2>3, <2>4, <2>5, <2>6 DEF CounterPoolInv, OneAt, Thread
<1>3. CASE Step(t, 18, [mem EXCEPT !.shared_counter = @ + 1, !.i[t] = @ + 1], 17)
  <2>1. /\ pc[t] = 18 /\ pc' = [pc EXCEPT ![t] = 17] /\ DOMAIN mem' = DOMAIN mem
        /\ mem'.shared_counter = mem.shared_counter + 1
        /\ mem'.i = [mem.i EXCEPT ![t] = mem.i[t] + 1]
        /\ mem'.workers_left = mem.workers_left /\ mem'.printed = mem.printed
    BY <1>3 DEF Step, At, Goto, CounterPoolInv
  <2>2. mem.i[t] + 1 \in 0 .. Rounds
    <3>1. pc[t] = 18
      BY <2>1
    <3>2. mem.i[t] < Rounds
      BY <1>0, <3>1 DEF CounterPoolInv
    <3> QED
      BY <1>0, <3>2
  <2>3. /\ mem'.i \in [1 .. 3 -> 0 .. Rounds] /\ mem'.i[t] = mem.i[t] + 1
        /\ \A u \in 1 .. 3 : u # t => mem'.i[u] = mem.i[u]
    BY <1>0, <2>1, <2>2, OneAssigned
  <2>4. DOMAIN pc' = 1 .. 3 /\ pc'[t] = 17 /\ \A u \in 1 .. 3 : u # t => pc'[u] = pc[u]
    BY <1>1, <2>1
  <2>5. mem'.shared_counter = mem'.i[1] + mem'.i[2] + mem'.i[3]
    <3>1. /\ mem.shared_counter = mem.i[1] + mem.i[2] + mem.i[3]
          /\ \A u \in 1 .. 3 : mem.i[u] \in 0 .. Rounds
      BY <1>0 DEF CounterPoolInv
    <3> QED
      BY <1>0, <2>1, <2>3, <3>1
  <2>6. /\ \A u \in 1 .. 3 : Left(u)' = Left(u)
        /\ \A u \in 1 .. 3 : (pc'[u] = 24 <=> pc[u] = 24) /\ (pc'[u] = End <=> pc[u] = End)
    BY <1>0, <2>1, <2>4 DEF Left, End
  <2>7. AllEnded' <=> AllEnded
    BY <1>0, <2>4, <2>6 DEF AllEnded, Ended, Thread
  <2>8. \A u \in 1 .. 3 : /\ pc'[u] \in {17, 18, 22, 24, End}
                          /\ pc'[u] = 18 => mem'.i[u] < Rounds
                          /\ pc'[u] \in {22, 24, End} => mem'.i[u] = Rounds
    <3> TAKE u \in 1 .. 3
    <3>1. CASE u = t
      BY <2>4, <3>1 DEF End
    <3>2. CASE u # t
      <4>1. pc'[u] = pc[u] /\ mem'.i[u] = mem.i[u]
        BY <2>3, <2>4, <3>2
      <4> QED
        BY <4>1 DEF CounterPoolInv
    <3> QED
      BY <3>1, <3>2
  <2>9. /\ Thread' = 1 .. 3 /\ OneAt({24})'
        /\ (\E u \in 1 .. 3 : pc'[u] = 24) <=> (\E u \in 1 .. 3 : pc[u] = 24)
    BY <1>0, <2>4, <2>6 DEF CounterPoolInv, OneAt, Thread
  <2>10. /\ DOMAIN mem' = {"shared_counter", "workers_left", "printed", "i"}
         /\ mem'.workers_left = Left(1)' + Left(2)' + Left(3)'
    BY <2>1, <2>6 DEF CounterPoolInv
  <2>11. /\ mem'.printed = (IF AllEnded' THEN <<3 * Rounds>> ELSE <<>>)
         /\ (\E u \in 1 .. 3 : pc'[u] = 24) => mem'.workers_left = 0
         /\ mem'.workers_left = 0 => AllEnded' \/ \E u \in 1 .. 3 : pc'[u] = 24
    <3> HIDE DEF AllEnded
    <3> QED
      BY <2>1, <2>7, <2>9 DEF CounterPoolInv
  <2> QED
    BY <2>3, <2>5, <2>8, <2>9, <2>10, <2>11 DEF CounterPoolInv
<1>4. CASE Step(t, 22, [mem EXCEPT !.workers_left = @ - 1],
                IF mem.workers_left = 1 THEN 24 ELSE End)
  <2> DEFINE to == IF mem.workers_left = 1 THEN 24 ELSE End
  <2>1. /\ pc[t] = 22 /\ pc' = [pc EXCEPT ![t] = to] /\ DOMAIN mem' = DOMAIN mem
        /\ mem'.workers_left = mem.workers_left - 1 /\ mem'.i = mem.i
        /\ mem'.shared_counter = mem.shared_counter /\ mem'.printed = mem.printed
    BY <1>4 DEF Step, At, Goto, CounterPoolInv
  <2>2. DOMAIN pc' = 1 .. 3 /\ pc'[t] = to /\ \A u \in 1 .. 3 : u # t => pc'[u] = pc[u]
    BY <1>1, <2>1
  <2>3. to \in {24, End} /\ (to = 24 <=> mem.workers_left = 1)
    BY DEF End
  <2> HIDE DEF to
  <2>4. /\ Left(t) = 1 /\ Left(t)' = 0 /\ \A u \in 1 .. 3 : u # t => Left(u)' = Left(u)
        /\ \A u \in 1 .. 3 : Left(u) \in {0, 1}
    BY <2>1, <2>2, <2>3 DEF Left, End
  <2>5. mem'.workers_left = Left(1)' + Left(2)' + Left(3)' /\ mem.workers_left > 0
    BY <1>0, <2>1, <2>4 DEF CounterPoolInv
  <2>6. \A u \in 1 .. 3 : u # t => pc[u] # 24
    BY <2>5 DEF CounterPoolInv
  <2>7. ~AllEnded /\ mem.printed = <<>>
    BY <1>0, <2>1 DEF AllEnded, Ended, Thread, End, CounterPoolInv
  <2>8. ASSUME mem.workers_left # 1
        PROVE  (\E u \in 1 .. 3 : Left(u)' = 1) /\ mem'.workers_left # 0
    <3>1. mem.workers_left = Left(1) + Left(2) + Left(3)
      BY DEF CounterPoolInv
    <3>2. /\ Left(1) \in {0, 1} /\ Left(2) \in {0, 1} /\ Left(3) \in {0, 1}
      BY <2>4
    <3>3. mem'.workers_left # 0
      BY <2>1, <2>8, <3>1, <3>2
    <3>4. \A u \in 1 .. 3 : Left(u)' \in {0, 1}
      BY DEF Left
    <3>5. Left(1)' = 1 \/ Left(2)' = 1 \/ Left(3)' = 1
      BY <2>5, <3>3, <3>4
    <3> QED
      BY <3>3, <3>5
  <2>9. ~AllEnded'
    <3>1. CASE to = 24
      BY <1>0, <2>2, <3>1 DEF AllEnded, Ended, Thread, End
    <3>2. CASE to = End
      <4>1. PICK u \in 1 .. 3 : Left(u)' = 1
        BY <2>3, <2>8, <3>2 DEF End
      <4> QED
        BY <2>2, <4>1 DEF AllEnded, Ended, Thread, End, Left
    <3> QED
      BY <2>3, <3>1, <3>2
  <2>10. /\ OneAt({24})' /\ ((\E u \in 1 .. 3 : pc'[u] = 24) => mem'.workers_left = 0)
         /\ mem'.workers_left = 0 => \E u \in 1 .. 3 : pc'[u] = 24
    <3>1. OneAt({24})'
      BY <1>0, <2>2, <2>6 DEF OneAt, Thread
    <3>2. mem.workers_left \in Int
      BY <2>4 DEF CounterPoolInv
    <3>3. ASSUME NEW u \in 1 .. 3, pc'[u] = 24
          PROVE  mem'.workers_left = 0
      <4>1. to = 24
        BY <2>2, <2>6, <3>3
      <4> QED
        BY <2>1, <2>3, <3>2, <4>1
    <3>4. ASSUME mem'.workers_left = 0
          PROVE  pc'[t] = 24
      <4>1. mem.workers_left = 1
        BY <2>8, <3>4
      <4> QED
        BY <2>2, <2>3, <4>1
    <3> QED
      BY <1>0, <3>1, <3>3, <3>4
  <2>11. \A u \in 1 .. 3 : /\ pc'[u] \in {17, 18, 22, 24, End}
                           /\ pc'[u] = 18 => mem.i[u] < Rounds
                           /\ pc'[u] \in {22, 24, End} => mem.i[u] = Rounds
    BY <2>1, <2>2, <2>3 DEF CounterPoolInv, End
  <2>12. /\ DOMAIN mem' = {"shared_counter", "workers_left", "printed", "i"}
         /\ mem'.i \in [1 .. 3 -> 0 .. Rounds] /\ Thread' = 1 .. 3
         /\ mem'.shared_counter = mem'.i[1] + mem'.i[2] + mem'.i[3]
         /\ mem'.printed = <<>>
    BY <1>0, <2>1, <2>2, <2>7 DEF CounterPoolInv, Thread
  <2> HIDE DEF CounterPoolInv
  <2>13. mem'.printed = (IF AllEnded' THEN <<3 * Rounds>> ELSE <<>>)
    BY <2>9, <2>12
  <2> QED
    BY <2>1, <2>5, <2>10, <2>11, <2>12, <2>13 DEF CounterPoolInv
<1>5. CASE Step(t, 24, [mem EXCEPT !.printed = Append(@, mem.shared_counter)], End)
  <2>1. /\ pc[t] = 24 /\ pc' = [pc EXCEPT ![t] = End] /\ DOMAIN mem' = DOMAIN mem
        /\ mem'.workers_left = mem.workers_left /\ mem'.i = mem.i
        /\ mem'.shared_counter = mem.shared_counter
        /\ mem'.printed = Append(mem.printed, mem.shared_counter)
    BY <1>5 DEF Step, At, Goto, CounterPoolInv
  <2>2. DOMAIN pc' = 1 .. 3 /\ pc'[t] = End /\ \A u \in 1 .. 3 : u # t => pc'[u] = pc[u]
    BY <1>1, <2>1
  <2>3. mem.workers_left = 0 /\ \A u \in 1 .. 3 : Left(u) \in {0, 1}
    BY <2>1, <1>0 DEF CounterPoolInv, Left
  <2>4. \A u \in 1 .. 3 : Left(u) = 0
    BY <2>3 DEF CounterPoolInv
  <2>5. \A u \in 1 .. 3 : u # t => pc[u] = End
    BY <1>0, <2>1, <2>4 DEF CounterPoolInv, Left, OneAt, Thread
  <2>6. \A u \in 1 .. 3 : mem.i[u] = Rounds
    BY <1>0, <2>1, <2>5 DEF CounterPoolInv
  <2>7. mem.shared_counter = 3 * Rounds
    BY <1>0, <2>6 DEF CounterPoolInv
  <2>8. mem.printed = <<>>
    BY <1>0, <2>1 DEF AllEnded, Ended, Thread, End, CounterPoolInv
  <2>9. mem'.printed = <<3 * Rounds>>
    BY <2>1, <2>7, <2>8
  <2>10. \A u \in 1 .. 3 : pc'[u] = End
    BY <2>2, <2>5
  <2>11. AllEnded' /\ OneAt({24})' /\ \A u \in 1 .. 3 : Left(u)' = 0
    BY <2>2, <2>10 DEF AllEnded, Ended, Thread, OneAt, End, Left
  <2>12. /\ DOMAIN mem' = {"shared_counter", "workers_left", "printed", "i"}
         /\ mem'.i \in [1 .. 3 -> 0 .. Rounds] /\ Thread' = 1 .. 3
         /\ mem'.shared_counter = mem'.i[1] + mem'.i[2] + mem'.i[3]
    BY <1>0, <2>1, <2>2 DEF CounterPoolInv, Thread
  <2>13. mem'.printed = (IF AllEnded' THEN <<3 * Rounds>> ELSE <<>>)
    BY <2>9, <2>11
  <2>14. mem'.workers_left = Left(1)' + Left(2)' + Left(3)' /\ mem'.workers_left = 0
    BY <2>1, <2>3, <2>11
  <2>15. \A u \in 1 .. 3 : pc'[u] = End /\ mem'.i[u] = Rounds
    BY <2>1, <2>6, <2>10
  <2> HIDE DEF CounterPoolInv
  <2> QED
    BY <2>11, <2>12, <2>13, <2>14, <2>15 DEF CounterPoolInv, End
<1> QED
  BY <1>2, <1>3, <1>4, <1>5 DEF pool_worker

LEMMA RaceKept ==
  ASSUME RaceInv, NEW t \in Thread, countem(t) \/ swarm_main(t)
  PROVE  RaceInv'
<1>0. /\ t \in 1 .. 4 /\ mem.i \in [1 .. 4 -> 0 .. Rounds] /\ mem.i[t] \in 0 .. Rounds
      /\ Rounds \in Nat /\ DOMAIN pc = 1 .. 4
  BY RoundsAssumption DEF RaceInv, Thread
<1> USE DEF Goto, At, End
<1>1. CASE Await(t, 33, mem.ready, mem, 34)
  BY <1>0, <1>1 DEF Await, Step, RaceInv, Thread, Ended
<1>2. CASE Test(t, 34, mem.i[t] < Rounds, 35, 38)
  <2>1. /\ mem' = mem /\ pc[t] = 34
        /\ pc' = [pc EXCEPT ![t] = IF mem.i[t] < Rounds THEN 35 ELSE 38]
    BY <1>2 DEF Test, Step
  <2>2. mem.i[t] < Rounds \/ mem.i[t] = Rounds
    BY <1>0
  <2> QED
    BY <1>0, <2>1, <2>2 DEF RaceInv, Thread, Ended
<1>3. CASE Test(t, 35, mem.winner, End, 36)
  BY <1>0, <1>3 DEF Test, Step, RaceInv, Thread, Ended
<1>4. CASE Step(t, 36, [mem EXCEPT !.g_count = @ + 1, !.i[t] = @ + 1], 34)
  <2>1. /\ DOMAIN mem' = DOMAIN mem /\ mem'.g_count = mem.g_count + 1
        /\ mem'.i = [mem.i EXCEPT ![t] = mem.i[t] + 1]
        /\ mem'.winner = mem.winner /\ pc[t] = 36 /\ pc' = [pc EXCEPT ![t] = 34]
    BY <1>4 DEF Step, RaceInv
  <2>2. t \in 2 .. 4 /\ mem.i[t] < Rounds /\ mem.i[t] + 1 \in 0 .. Rounds
    BY <1>0, <2>1 DEF RaceInv
  <2>3. /\ mem'.i \in [1 .. 4 -> 0 .. Rounds] /\ mem'.i[t] = mem.i[t] + 1
        /\ \A u \in 1 .. 4 : u # t => mem'.i[u] = mem.i[u]
    BY <1>0, <2>1, <2>2, OneAssigned
  <2>4. mem'.g_count = mem'.i[2] + mem'.i[3] + mem'.i[4]
    <3>1. /\ mem.g_count = mem.i[2] + mem.i[3] + mem.i[4]
          /\ \A u \in 1 .. 4 : mem.i[u] \in 0 .. Rounds
          /\ t = 2 \/ t = 3 \/ t = 4
      BY <1>0, <2>2 DEF RaceInv
    <3> QED
      BY <1>0, <2>1, <2>3, <3>1
  <2>5. mem'.winner => \E u \in 2 .. 4 : mem'.i[u] = Rounds
    BY <2>1, <2>2, <2>3 DEF RaceInv
  <2>6. DOMAIN pc' = 1 .. 4 /\ pc'[t] = 34 /\ \A u \in 1 .. 4 : u # t => pc'[u] = pc[u]
    BY <1>0, <2>1, LineAssigned
  <2>7. /\ mem.winner \in BOOLEAN /\ pc'[1] \in {52, 0}
        /\ \A u \in 2 .. 4 : /\ pc'[u] \in {33, 34, 35, 36, 38, 0}
                             /\ pc'[u] \in {35, 36} => mem'.i[u] < Rounds
                             /\ pc'[u] = 38 => mem'.i[u] = Rounds
                             /\ pc'[u] = 0 => mem.winner
    BY <2>2, <2>3, <2>6 DEF RaceInv, Ended
  <2> QED
    BY <2>1, <2>3, <2>4, <2>5, <2>6, <2>7 DEF RaceInv, Thread, Ended
<1>5. CASE Step(t, 38, [mem EXCEPT !.winner = TRUE,
                                   !.won = IF mem.winner THEN @ ELSE @ \cup {t}], End)
  <2>1. /\ DOMAIN mem' = DOMAIN mem /\ mem'.g_count = mem.g_count /\ mem'.i = mem.i
        /\ mem'.winner = TRUE /\ pc[t] = 38 /\ pc' = [pc EXCEPT ![t] = 0]
    BY <1>5 DEF Step, RaceInv
  <2>2. t \in 2 .. 4 /\ mem.i[t] = Rounds
    BY <1>0, <2>1 DEF RaceInv
  <2>3. DOMAIN pc' = 1 .. 4 /\ pc'[t] = 0 /\ \A u \in 1 .. 4 : u # t => pc'[u] = pc[u]
    BY <1>0, <2>1, LineAssigned
  <2>4. mem'.winner \in BOOLEAN /\ \E u \in 2 .. 4 : mem'.i[u] = Rounds
    BY <2>1, <2>2
  <2>5. /\ pc'[1] \in {52, 0}
        /\ \A u \in 2 .. 4 : /\ pc'[u] \in {33, 34, 35, 36, 38, 0}
                             /\ pc'[u] \in {35, 36} => mem'.i[u] < Rounds
                             /\ pc'[u] = 38 => mem'.i[u] = Rounds
                             /\ pc'[u] = 0 => mem'.winner
    BY <2>1, <2>2, <2>3 DEF RaceInv, Ended
  <2>6. mem'.i \in [1 .. 4 -> 0 .. Rounds] /\ mem'.g_count = mem'.i[2] + mem'.i[3] + mem'.i[4]
    BY <2>1 DEF RaceInv
  <2>7. DOMAIN mem' = {"ready", "winner", "won", "g_count", "i"}
    BY <2>1 DEF RaceInv
  <2> QED
    BY <2>3, <2>4, <2>5, <2>6, <2>7 DEF RaceInv, Thread, Ended
<1>6. CASE Step(t, 52, [mem EXCEPT !.ready = TRUE], End)
  <2>1. /\ DOMAIN mem' = DOMAIN mem /\ mem'.g_count = mem.g_count /\ mem'.i = mem.i
        /\ mem'.winner = mem.winner /\ pc[t] = 52 /\ pc' = [pc EXCEPT ![t] = 0]
    BY <1>6 DEF Step, RaceInv
  <2>2. t = 1
    BY <1>0, <2>1 DEF RaceInv
  <2> QED
    BY <1>0, <2>1, <2>2 DEF RaceInv, Thread, Ended
<1> QED
  BY <1>1, <1>2, <1>3, <1>4, <1>5, <1>6 DEF countem, swarm_main

LEMMA PermitsKept ==
  ASSUME LockInv, program = "semaphore", PermitsInv, NEW t \in Thread, release(t) \/ acquire(t)
  PROVE  PermitsInv'
<1>0. \A u \in 1 .. 5 : pc[u] \in {14, 30} /\ pc[t] \in {14, 30} => u = t
  BY DEF LockInv, LocksHeld, Holds, PermitsInv
<1>9. max_counter \in Nat
  BY MonitorAssumption
<1> USE DEF PermitsInv, Goto, At, Thread, End
<1>1. ASSUME NEW to, mem' = mem, pc[t] \in {11, 23, 27}, to = (IF pc[t] = 11 THEN 14 ELSE 27),
             pc' = [pc EXCEPT ![t] = to]
      PROVE  PermitsInv'
  <2>1. /\ DOMAIN pc' = 1 .. 5 /\ pc'[t] = to /\ \A u \in 1 .. 5 : u # t => pc'[u] = pc[u]
    BY <1>1
  <2>2. \A u \in 1 .. 5 : Released(u)' = Released(u) /\ Acquired(u)' = Acquired(u)
    BY <1>1, <2>1 DEF Released, Acquired, Ended
  <2>4. /\ \A u \in {1, 4, 5} : pc'[u] \in {11, 14, 19, 20, 0}
        /\ \A u \in {2, 3} : pc'[u] \in {23, 27, 30, 0} /\ (pc'[u] = 30 => mem'.counter # 0)
    BY <1>1, <2>1
  <2>5. /\ Thread' = 1 .. 5 /\ DOMAIN mem' = {"counter", "dropped"}
        /\ mem'.counter \in 0 .. max_counter /\ mem'.dropped \in Nat
    BY <1>1, <2>1
  <2>6. mem'.counter + mem'.dropped + Acquired(2)' + Acquired(3)'
          = Released(1)' + Released(4)' + Released(5)'
    <3>1. /\ mem'.counter = mem.counter /\ mem'.dropped = mem.dropped
          /\ mem.counter + mem.dropped + Acquired(2) + Acquired(3)
               = Released(1) + Released(4) + Released(5)
      BY <1>1
    <3> HIDE DEF PermitsInv
    <3> QED
      BY <2>2, <3>1
  <2> QED
    BY <2>4, <2>5, <2>6
<1>2. CASE Lock(t, 11, "mut", 14)
  <2>1. mem' = mem /\ pc[t] = 11 /\ pc' = [pc EXCEPT ![t] = 14]
    BY <1>2 DEF Lock, LockAll
  <2> HIDE DEF PermitsInv
  <2> QED
    BY <1>1, <2>1
<1>3. CASE Lock(t, 23, "mut", 27) \/ Lock(t, 27, "mut", 27) \/ SleepOn(t, 27, "cv", "mut", 27)
  <2>1. mem' = mem /\ pc[t] \in {23, 27} /\ pc' = [pc EXCEPT ![t] = 27]
    BY <1>3 DEF Lock, LockAll, SleepOn
  <2>2. pc[t] \in {11, 23, 27} /\ 27 = IF pc[t] = 11 THEN 14 ELSE 27
    BY <2>1
  <2> HIDE DEF PermitsInv, Goto, At, Thread, End
  <2> QED
    BY <1>1, <2>1, <2>2, Zenon
<1>4. CASE Step(t, 14, IF mem.counter < max_counter THEN [mem EXCEPT !.counter = @ + 1]
                       ELSE [mem EXCEPT !.dropped = @ + 1], 19)
  <2>1. /\ DOMAIN mem' = DOMAIN mem /\ pc[t] = 14 /\ pc' = [pc EXCEPT ![t] = 19]
        /\ \/ /\ mem.counter < max_counter /\ mem'.counter = mem.counter + 1
              /\ mem'.dropped = mem.dropped
           \/ mem'.counter = mem.counter /\ mem'.dropped = mem.dropped + 1
    BY <1>4 DEF Step
  <2>2. /\ DOMAIN pc' = 1 .. 5 /\ pc'[t] = 19 /\ \A u \in 1 .. 5 : u # t => pc'[u] = pc[u]
        /\ t = 1 \/ t = 4 \/ t = 5
    BY <2>1
  <2>3. /\ Released(t) = 0 /\ Released(t)' = 1
        /\ \A u \in 1 .. 5 : u # t => Released(u)' = Released(u)
        /\ \A u \in {2, 3} : Acquired(u)' = Acquired(u)
        /\ \A u \in 1 .. 5 : Released(u) \in Nat /\ Acquired(u) \in Nat
    BY <2>1, <2>2 DEF Released, Acquired, Ended
  <2>4. mem'.counter + mem'.dropped = mem.counter + mem.dropped + 1
    BY <2>1
  <2>5. mem'.counter \in 0 .. max_counter /\ mem'.dropped \in Nat /\ mem'.counter >= mem.counter
    BY <1>9, <2>1
  <2>6. mem'.counter + mem'.dropped + Acquired(2)' + Acquired(3)'
          = Released(1)' + Released(4)' + Released(5)'
    <3>1. /\ mem.counter + mem.dropped + Acquired(2) + Acquired(3)
               = Released(1) + Released(4) + Released(5)
          /\ mem.counter \in Nat /\ mem.dropped \in Nat
      BY <1>9
    <3> HIDE DEF PermitsInv
    <3> QED
      BY <2>2, <2>3, <2>4, <2>5, <3>1
  <2> QED
    BY <2>1, <2>2, <2>5, <2>6
<1>5. CASE NotifyAll(t, 19, "cv", mem, 20)
  <2>1. mem' = mem /\ pc[t] = 19 /\ pc' = [pc EXCEPT ![t] = 20]
    BY <1>5 DEF NotifyAll, Wake
  <2> QED
    BY <2>1 DEF Released, Acquired, Ended
<1>6. CASE Unlock(t, 20, {"mut"}, mem, End)
  <2>1. mem' = mem /\ pc[t] = 20 /\ pc' = [pc EXCEPT ![t] = 0]
    BY <1>6 DEF Unlock
  <2> QED
    BY <2>1 DEF Released, Acquired, Ended
<1>7. CASE mem.counter # 0 /\ Step(t, 27, mem, 30)
  <2>1. mem' = mem /\ pc[t] = 27 /\ pc' = [pc EXCEPT ![t] = 30]
    BY <1>7 DEF Step
  <2> QED
    BY <1>7, <2>1 DEF Released, Acquired, Ended
<1>8. CASE Unlock(t, 30, {"mut"}, [mem EXCEPT !.counter = @ - 1], End)
  <2>1. /\ DOMAIN mem' = DOMAIN mem /\ pc[t] = 30 /\ pc' = [pc EXCEPT ![t] = 0]
        /\ mem'.counter = mem.counter - 1 /\ mem'.dropped = mem.dropped
    BY <1>8 DEF Unlock
  <2>2. /\ DOMAIN pc' = 1 .. 5 /\ pc'[t] = 0 /\ \A u \in 1 .. 5 : u # t => pc'[u] = pc[u]
        /\ t = 2 \/ t = 3
    BY <2>1
  <2>3. mem'.counter \in 0 .. max_counter
    BY <1>9, <2>1, <2>2
  <2>4. /\ Acquired(t) = 0 /\ Acquired(t)' = 1
        /\ \A u \in {2, 3} : u # t => Acquired(u)' = Acquired(u)
        /\ \A u \in {1, 4, 5} : Released(u)' = Released(u)
        /\ \A u \in 1 .. 5 : Released(u) \in Nat /\ Acquired(u) \in Nat
    BY <2>1, <2>2 DEF Released, Acquired, Ended
  <2>6. mem'.counter + mem'.dropped + Acquired(2)' + Acquired(3)'
          = Released(1)' + Released(4)' + Released(5)'
    <3>1. /\ mem.counter + mem.dropped + Acquired(2) + Acquired(3)
               = Released(1) + Released(4) + Released(5)
          /\ mem.counter \in Nat /\ mem.dropped \in Nat
      BY <1>9
    <3> HIDE DEF PermitsInv
    <3> QED
      BY <2>1, <2>2, <2>4, <3>1
  <2>7. \A u \in {2, 3} : pc'[u] # 30
    BY <1>0, <2>1, <2>2
  <2> QED
    BY <2>1, <2>2, <2>3, <2>6, <2>7
<1>10. CASE release(t)
  <2> HIDE DEF PermitsInv
  <2> QED
    BY <1>2, <1>4, <1>5, <1>6, <1>10 DEF release
<1>11. CASE acquire(t)
  <2> HIDE DEF PermitsInv
  <2>1. WaitUntil(t, 27, "cv", "mut", mem.counter # 0, 30)
           => \/ mem.counter # 0 /\ Step(t, 27, mem, 30)
              \/ SleepOn(t, 27, "cv", "mut", 27)
              \/ Lock(t, 27, "mut", 27)
    BY Zenon DEF WaitUntil, Await
  <2> QED
    BY <1>2, <1>3, <1>7, <1>8, <1>11, <2>1 DEF acquire
<1> QED
  BY <1>10, <1>11

LEMMA DataRaceKept ==
  ASSUME DataRaceInv, NEW t \in Thread, increment_counter(t)
  PROVE  DataRaceInv'
<1>0. /\ t \in 1 .. 2 /\ mem.i \in [1 .. 2 -> 0 .. Rounds] /\ mem.read \in [1 .. 2 -> Nat]
      /\ Rounds \in Nat /\ Rounds > 1 /\ DOMAIN pc = 1 .. 2
      /\ DOMAIN mem = {"counter", "i", "read"} /\ mem.counter \in Nat
      /\ \A u \in 1 .. 2 : mem.i[u] \in 0 .. Rounds /\ mem.i[u] \in Nat /\ mem.read[u] \in Nat
      /\ mem.counter <= mem.i[1] + mem.i[2]
  BY RoundsAssumption DEF DataRaceInv, Thread
<1>1. CASE mem.i[t] < Rounds /\ Step(t, 11, [mem EXCEPT !.read[t] = mem.counter], 111)
  <2>1. /\ DOMAIN mem' = DOMAIN mem /\ mem'.counter = mem.counter /\ mem'.i = mem.i
        /\ mem'.read = [mem.read EXCEPT ![t] = mem.counter]
        /\ pc[t] = 11 /\ pc' = [pc EXCEPT ![t] = 111] /\ mem.i[t] < Rounds
    BY <1>0, <1>1 DEF Step, At, Goto
  <2>2. DOMAIN pc' = 1 .. 2 /\ pc'[t] = 111 /\ \A u \in 1 .. 2 : u # t => pc'[u] = pc[u]
    BY <1>0, <2>1, LineAssigned
  <2>3. /\ mem'.read \in [1 .. 2 -> Nat] /\ mem'.read[t] = mem.counter
        /\ \A u \in 1 .. 2 : u # t => mem'.read[u] = mem.read[u]
    BY <1>0, <2>1, OneAssigned
  <2>4. mem.i[t] > 0 => mem.counter > 0
    BY <1>0 DEF DataRaceInv
  <2>5. \A u \in 1 .. 2 :
           /\ pc'[u] \in {11, 111, End}
           /\ pc'[u] = 111 => /\ mem.i[u] < Rounds
                              /\ mem'.read[u] <= mem.i[1] + mem.i[2]
                              /\ mem.i[u] > 0 => mem'.read[u] > 0
           /\ mem.i[u] > 0 => mem.counter > 0
           /\ pc'[u] = End => mem.i[u] = Rounds
    BY <1>0, <2>1, <2>2, <2>3, <2>4 DEF DataRaceInv, Ended, End
  <2> QED
    BY <1>0, <2>1, <2>2, <2>3, <2>5 DEF DataRaceInv, Thread, Ended
<1>2. CASE mem.i[t] = Rounds /\ Step(t, 11, mem, End)
  <2>1. mem' = mem /\ mem.i[t] = Rounds /\ pc' = [pc EXCEPT ![t] = End]
    BY <1>2 DEF Step, Goto
  <2>2. DOMAIN pc' = 1 .. 2 /\ pc'[t] = End /\ \A u \in 1 .. 2 : u # t => pc'[u] = pc[u]
    BY <1>0, <2>1, LineAssigned
  <2> QED
    BY <1>0, <2>1, <2>2 DEF DataRaceInv, Thread, Ended, End
<1>3. CASE Step(t, 111, [mem EXCEPT !.counter = mem.read[t] + 1, !.i[t] = @ + 1], 11)
  <2>1. /\ DOMAIN mem' = DOMAIN mem /\ mem'.counter = mem.read[t] + 1
        /\ mem'.i = [mem.i EXCEPT ![t] = mem.i[t] + 1] /\ mem'.read = mem.read
        /\ pc[t] = 111 /\ pc' = [pc EXCEPT ![t] = 11]
    BY <1>0, <1>3 DEF Step, At, Goto
  <2>2. DOMAIN pc' = 1 .. 2 /\ pc'[t] = 11 /\ \A u \in 1 .. 2 : u # t => pc'[u] = pc[u]
    BY <1>0, <2>1, LineAssigned
  <2>3. /\ mem.i[t] < Rounds /\ mem.read[t] <= mem.i[1] + mem.i[2]
        /\ mem.i[t] > 0 => mem.read[t] > 0
    BY <1>0, <2>1 DEF DataRaceInv
  <2>4. mem.i[t] + 1 \in 0 .. Rounds
    BY <1>0, <2>3
  <2>5. /\ mem'.i \in [1 .. 2 -> 0 .. Rounds] /\ mem'.i[t] = mem.i[t] + 1
        /\ \A u \in 1 .. 2 : u # t => mem'.i[u] = mem.i[u]
    BY <1>0, <2>1, <2>4, OneAssigned
  <2>6. mem'.i[1] + mem'.i[2] = mem.i[1] + mem.i[2] + 1
    <3>1. t = 1 \/ t = 2
      BY <1>0
    <3> QED
      BY <1>0, <2>5, <3>1
  <2>7. /\ mem'.counter \in 0 .. mem'.i[1] + mem'.i[2] /\ mem'.counter > 0
        /\ mem'.i[t] > 1 => mem'.counter > 1
    BY <1>0, <2>1, <2>3, <2>5, <2>6
  <2>8. \A u \in 1 .. 2 :
           /\ pc'[u] \in {11, 111, End}
           /\ pc'[u] = 111 => /\ mem'.i[u] < Rounds
                              /\ mem.read[u] <= mem'.i[1] + mem'.i[2]
                              /\ mem'.i[u] > 0 => mem.read[u] > 0
           /\ pc'[u] = End => mem'.i[u] = Rounds
    <3> TAKE u \in 1 .. 2
    <3>1. CASE u = t
      BY <2>2, <3>1 DEF End
    <3>2. CASE u # t
      <4>1. /\ pc'[u] = pc[u] /\ mem'.i[u] = mem.i[u]
            /\ pc[u] = 111 => mem.read[u] <= mem.i[1] + mem.i[2]
        BY <2>2, <2>5, <3>2 DEF DataRaceInv
      <4>2. pc[u] = 111 => mem.read[u] <= mem'.i[1] + mem'.i[2]
        BY <1>0, <2>6, <4>1
      <4> QED
        BY <4>1, <4>2 DEF DataRaceInv, Ended
    <3> QED
      BY <3>1, <3>2
  <2>9. mem'.i[1] > 1 /\ mem'.i[2] > 1 => mem'.counter > 1
    BY <1>0, <2>7
  <2> QED
    BY <1>0, <2>1, <2>2, <2>5, <2>7, <2>8, <2>9 DEF DataRaceInv, Thread, Ended
<1> QED
  BY <1>1, <1>2, <1>3 DEF increment_counter

LEMMA PositionsKept ==
  ASSUME PositionsInv, NEW t \in Thread, count_position(t) \/ policies_main(t)
  PROVE  PositionsInv'
<1>0. /\ t \in 1 .. 4 /\ DOMAIN pc = 1 .. 4 /\ DOMAIN mem = {"counter", "read", "v", "v2", "result"}
      /\ mem.read \in [1 .. 3 -> Nat] /\ mem.v \in [1 .. 3 -> Nat] /\ mem.counter \in Nat
      /\ mem.counter <= Wrote(1) + Wrote(2) + Wrote(3)
      /\ \A u \in 1 .. 4 : Wrote(u) \in {0, 1}
  BY DEF PositionsInv, Thread, Wrote
<1>1. CASE Step(t, 13, [mem EXCEPT !.read[t] = mem.counter], 113)
  <2>1. /\ DOMAIN mem' = DOMAIN mem /\ mem'.counter = mem.counter /\ mem'.v = mem.v
        /\ mem'.read = [mem.read EXCEPT ![t] = mem.counter]
        /\ pc[t] = 13 /\ pc' = [pc EXCEPT ![t] = 113]
    BY <1>0, <1>1 DEF Step, At, Goto
  <2>2. t \in 1 .. 3
    BY <1>0, <2>1 DEF PositionsInv, End
  <2>3. DOMAIN pc' = 1 .. 4 /\ pc'[t] = 113 /\ \A u \in 1 .. 4 : u # t => pc'[u] = pc[u]
    BY <1>0, <2>1, LineAssigned
  <2>4. /\ mem'.read \in [1 .. 3 -> Nat] /\ mem'.read[t] = mem.counter
        /\ \A u \in 1 .. 3 : u # t => mem'.read[u] = mem.read[u]
    BY <1>0, <2>1, <2>2, OneAssigned
  <2>5. \A u \in 1 .. 4 : Wrote(u)' = Wrote(u)
    BY <1>0, <2>1, <2>3 DEF Wrote, Ended, End
  <2>6. \A u \in 1 .. 3 :
           /\ pc'[u] \in {13, 113, End}
           /\ pc'[u] = 113 => mem'.read[u] <= Wrote(1) + Wrote(2) + Wrote(3)
           /\ pc'[u] = End => mem.counter > 0 /\ mem.v[u] = mem'.read[u]
    BY <1>0, <2>3, <2>4 DEF PositionsInv, Ended, End
  <2>7. \E u \in 1 .. 3 : pc'[u] # 13 /\ mem'.read[u] = 0
    <3>1. CASE mem.counter = 0 /\ \A u \in 1 .. 3 : pc[u] = 13
      BY <2>2, <2>3, <2>4, <3>1
    <3>2. CASE \E u \in 1 .. 3 : pc[u] # 13 /\ mem.read[u] = 0
      <4>1. PICK u \in 1 .. 3 : pc[u] # 13 /\ mem.read[u] = 0
        BY <3>2
      <4>2. pc'[u] # 13 /\ mem'.read[u] = 0
        BY <2>1, <2>3, <2>4, <4>1
      <4> QED
        BY <4>2
    <3> QED
      BY <3>1, <3>2 DEF PositionsInv
  <2>8. pc'[4] = pc[4]
    BY <2>2, <2>3
  <2> QED
    BY <1>0, <2>1, <2>3, <2>4, <2>5, <2>6, <2>7, <2>8 DEF PositionsInv, Thread, Ended
<1>2. CASE Step(t, 113, [mem EXCEPT !.v[t] = mem.read[t], !.counter = mem.read[t] + 1], End)
  <2>1. /\ DOMAIN mem' = DOMAIN mem /\ mem'.counter = mem.read[t] + 1 /\ mem'.read = mem.read
        /\ mem'.v = [mem.v EXCEPT ![t] = mem.read[t]]
        /\ pc[t] = 113 /\ pc' = [pc EXCEPT ![t] = End]
    BY <1>0, <1>2 DEF Step, At, Goto
  <2>2. t \in 1 .. 3
    BY <1>0, <2>1 DEF PositionsInv, End
  <2>3. DOMAIN pc' = 1 .. 4 /\ pc'[t] = End /\ \A u \in 1 .. 4 : u # t => pc'[u] = pc[u]
    BY <1>0, <2>1, LineAssigned
  <2>4. mem.read[t] \in Nat /\ mem.read[t] <= Wrote(1) + Wrote(2) + Wrote(3)
    BY <1>0, <2>1, <2>2 DEF PositionsInv
  <2>5. /\ mem'.v \in [1 .. 3 -> Nat] /\ mem'.v[t] = mem.read[t]
        /\ \A u \in 1 .. 3 : u # t => mem'.v[u] = mem.v[u]
    BY <1>0, <2>1, <2>2, <2>4, OneAssigned
  <2>6. /\ Wrote(t) = 0 /\ Wrote(t)' = 1 /\ \A u \in 1 .. 4 : u # t => Wrote(u)' = Wrote(u)
    BY <1>0, <2>1, <2>3 DEF Wrote, Ended, End
  <2>7. Wrote(1)' + Wrote(2)' + Wrote(3)' = Wrote(1) + Wrote(2) + Wrote(3) + 1
    <3>1. t = 1 \/ t = 2 \/ t = 3
      BY <2>2
    <3> QED
      BY <1>0, <2>6, <3>1
  <2>8. mem'.counter \in 0 .. Wrote(1)' + Wrote(2)' + Wrote(3)' /\ mem'.counter > 0
    BY <1>0, <2>1, <2>4, <2>7
  <2>9. \A u \in 1 .. 3 :
           /\ pc'[u] \in {13, 113, End}
           /\ pc'[u] = 113 => mem.read[u] <= Wrote(1)' + Wrote(2)' + Wrote(3)'
           /\ pc'[u] = End => mem'.v[u] = mem.read[u]
    <3> TAKE u \in 1 .. 3
    <3>1. CASE u = t
      BY <2>3, <2>5, <3>1 DEF End
    <3>2. CASE u # t
      <4>1. pc'[u] = pc[u] /\ mem'.v[u] = mem.v[u] /\ mem.read[u] \in Nat
        BY <1>0, <2>3, <2>5, <3>2
      <4>2. /\ pc[u] \in {13, 113, End}
            /\ pc[u] = 113 => mem.read[u] <= Wrote(1) + Wrote(2) + Wrote(3)
            /\ pc[u] = End => mem.v[u] = mem.read[u]
        BY DEF PositionsInv, Ended
      <4> QED
        BY <1>0, <2>7, <4>1, <4>2
    <3> QED
      BY <3>1, <3>2
  <2>10. \E u \in 1 .. 3 : pc'[u] # 13 /\ mem'.read[u] = 0
    <3>1. PICK u \in 1 .. 3 : pc[u] # 13 /\ mem.read[u] = 0
      BY <2>1, <2>2 DEF PositionsInv
    <3>2. pc'[u] # 13 /\ mem'.read[u] = 0
      BY <2>1, <2>3, <3>1 DEF End
    <3> QED
      BY <3>2
  <2>11. pc'[4] = pc[4]
    BY <2>2, <2>3
  <2> QED
    BY <1>0, <2>1, <2>3, <2>5, <2>8, <2>9, <2>10, <2>11 DEF PositionsInv, Thread, Ended
<1>3. CASE policies_main(t)
  <2>1. /\ pc[t] \in {29, 40} /\ DOMAIN mem' = DOMAIN mem
        /\ mem'.counter = mem.counter /\ mem'.read = mem.read /\ mem'.v = mem.v
        /\ pc' = [pc EXCEPT ![t] = pc'[t]] /\ pc'[t] \in {40, End}
    <3>1. CASE pc[t] = 29
      BY <1>0, <1>3, <3>1 DEF policies_main, Await, Step, At, Goto
    <3>2. CASE pc[t] = 40
      BY <1>0, <1>3, <3>2 DEF policies_main, Await, Step, At, Goto
    <3> QED
      BY <1>3, <3>1, <3>2 DEF policies_main, Await, Step, At
  <2>2. t = 4
    BY <1>0, <2>1 DEF PositionsInv, End
  <2>3. DOMAIN pc' = 1 .. 4 /\ \A u \in 1 .. 3 : pc'[u] = pc[u]
    BY <1>0, <2>1, <2>2
  <2>4. \A u \in 1 .. 3 : Wrote(u)' = Wrote(u)
    BY <2>3 DEF Wrote, Ended
  <2> QED
    BY <2>1, <2>2, <2>3, <2>4 DEF PositionsInv, Thread, Ended
<1> QED
  BY <1>1, <1>2, <1>3 DEF count_position

LEMMA CountersStep ==
  ASSUME NEW t, ThreadStep(t)
  PROVE  /\ program = "scoped_lock_dead_lock" =>
              agent_a(t) \/ agent_b(t) \/ agent_c(t) \/ run_agent(t)
         /\ program = "starvation" => starvation(t)
         /\ program = "objects" => test_thread(t)
         /\ program = "mutex_example_1" => shopper(t)
         /\ program = "atomic_example" => atomic_shopper(t)
         /\ program = "recursive_mutex" => factorial(t)
         /\ program = "basic_counter" => counter_worker(t)
         /\ program = "counter_pool" => pool_worker(t)
         /\ program = "atomics_class" => countem(t) \/ swarm_main(t)
         /\ program = "semaphore" => release(t) \/ acquire(t)
         /\ program = "data_race" => increment_counter(t)
         /\ program = "exec_policies" => count_position(t) \/ policies_main(t)
BY DEF ThreadStep, LockStep, MonitorStep, EventStep, FutureStep, SchedulerStep, KernelStep,
       DataStep

LEMMA CountersStart ==
  ASSUME Init
  PROVE  /\ program = "scoped_lock_dead_lock" => Boot(program, ScopedLockDeadLock)
         /\ program = "starvation" => Boot(program, Starvation)
         /\ program = "objects" => Boot(program, Objects)
         /\ program = "mutex_example_1" => Boot(program, Shoppers)
         /\ program = "atomic_example" => Boot(program, AtomicShoppers)
         /\ program = "recursive_mutex" => Boot(program, RecursiveMutex)
         /\ program = "basic_counter" => Boot(program, BasicCounter)
         /\ program = "counter_pool" => Boot(program, CounterPool)
         /\ program = "atomics_class" => Boot(program, Swarm)
         /\ program = "semaphore" => Boot(program, SemaphoreMain)
         /\ program = "data_race" => Boot(program, DataRace)
         /\ program = "exec_policies" => Boot(program, ExecPolicies)
<1>1. CASE Boots(LockMains)
  <2>0. program \in DOMAIN LockMains /\ Boot(program, LockMains[program])
    BY <1>1, BootOf
  <2>1. /\ program = "scoped_lock_dead_lock" => Boot(program, ScopedLockDeadLock)
        /\ program = "starvation" => Boot(program, Starvation)
        /\ program = "objects" => Boot(program, Objects)
    BY <2>0 DEF LockMains
  <2>2. /\ program = "mutex_example_1" => Boot(program, Shoppers)
        /\ program = "atomic_example" => Boot(program, AtomicShoppers)
        /\ program = "recursive_mutex" => Boot(program, RecursiveMutex)
    BY <2>0 DEF LockMains
  <2>3. program \notin {"basic_counter", "counter_pool", "atomics_class", "semaphore",
                        "data_race", "exec_policies"}
    BY <2>0 DEF LockMains
  <2> QED
    BY <2>1, <2>2, <2>3
<1>2. CASE Boots(MonitorMains)
  BY <1>2, BootOf DEF MonitorMains
<1>3. CASE Boots(EventMains)
  BY <1>3, BootOf DEF EventMains
<1>4. CASE Boots(FutureMains)
  BY <1>4, BootOf DEF FutureMains
<1>5. CASE Boots(SchedulerMains)
  BY <1>5, BootOf DEF SchedulerMains
<1>6. CASE Boots(KernelMains)
  BY <1>6, BootOf DEF KernelMains
<1>7. CASE Boots(DataMains)
  BY <1>7, BootOf DEF DataMains
<1> QED
  BY <1>1, <1>2, <1>3, <1>4, <1>5, <1>6, <1>7 DEF Init

LEMMA CountStart == Init => CountInvariant
<1> SUFFICES ASSUME Init PROVE CountInvariant
  OBVIOUS
<1>0. Rounds \in Nat /\ 0 < Rounds /\ Sushi \in Nat /\ max_counter \in Nat
  BY RoundsAssumption, LockAssumption, MonitorAssumption
<1> USE DEF Boot, Main, Thread, Ended, End, Nobody
<1>1. ASSUME program = "scoped_lock_dead_lock" PROVE AgentsInv
  <2>1. /\ pc = <<61, 61, 61>>
        /\ mem = [database |-> 0, cache |-> 0, network |-> 0,
                  i |-> <<0, 0, 0>>, f |-> <<20, 34, 48>>]
    BY <1>1, CountersStart DEF ScopedLockDeadLock
  <2>2. /\ Thread = 1 .. 3 /\ DOMAIN mem = {"database", "cache", "network", "i", "f"}
        /\ mem.i \in [1 .. 3 -> Nat] /\ mem.f = <<20, 34, 48>>
        /\ \A t \in 1 .. 3 : pc[t] = 61 /\ mem.i[t] = 0
        /\ mem.database = 0 /\ mem.cache = 0 /\ mem.network = 0
    BY <2>1
  <2>3. \A t \in 1 .. 3 : Calls(t) = 0
    BY <2>2 DEF Calls
  <2> QED
    BY <1>0, <2>2, <2>3 DEF AgentsInv
<1>2. ASSUME program = "starvation" PROVE SushiInv
  BY <1>0, <1>2, CountersStart DEF Starvation, SushiInv
<1>3. ASSUME program = "objects" PROVE ObjectInv
  BY <1>3, CountersStart DEF Objects, ObjectInv, Added
<1>4. ASSUME program = "mutex_example_1" PROVE ShoppersInv
  BY <1>0, <1>4, CountersStart DEF Shoppers, ShoppersInv, CountingInv
<1>5. ASSUME program = "atomic_example" PROVE AtomicShoppersInv
  BY <1>0, <1>5, CountersStart DEF AtomicShoppers, AtomicShoppersInv, CountingInv
<1>6. ASSUME program = "basic_counter" PROVE BasicCounterInv
  BY <1>0, <1>6, CountersStart DEF BasicCounter, BasicCounterInv, CountingInv
<1>7. ASSUME program = "recursive_mutex" PROVE FactorialInv
  BY <1>7, CountersStart DEF RecursiveMutex, FactorialInv, Arguments
<1>8. ASSUME program = "counter_pool" PROVE CounterPoolInv
  BY <1>0, <1>8, CountersStart DEF CounterPool, CounterPoolInv, Left, OneAt, AllEnded
<1>9. ASSUME program = "atomics_class" PROVE RaceInv
  <2>1. /\ pc = <<52, 33, 33, 33>>
        /\ mem = [ready |-> FALSE, winner |-> FALSE, won |-> {}, g_count |-> 0,
                  i |-> <<0, 0, 0, 0>>]
    BY <1>9, CountersStart DEF Swarm
  <2>2. /\ Thread = 1 .. 4 /\ pc[1] = 52 /\ \A t \in 2 .. 4 : pc[t] = 33
        /\ DOMAIN mem = {"ready", "winner", "won", "g_count", "i"}
        /\ mem.winner = FALSE /\ mem.g_count = 0
    BY <2>1
  <2>3. mem.i \in [1 .. 4 -> 0 .. Rounds] /\ \A t \in 1 .. 4 : mem.i[t] = 0
    BY <1>0, <2>1
  <2>4. mem.winner \in BOOLEAN /\ ~mem.winner
    BY <2>2
  <2>5. mem.g_count = mem.i[2] + mem.i[3] + mem.i[4]
    BY <2>2, <2>3
  <2>6. \A t \in 2 .. 4 : /\ pc[t] \in {33, 34, 35, 36, 38, End}
                         /\ pc[t] \notin {35, 36, 38, End}
    BY <2>2
  <2>7. /\ Thread = 1 .. 4 /\ DOMAIN mem = {"ready", "winner", "won", "g_count", "i"}
        /\ pc[1] \in {52, End}
    BY <2>2
  <2> HIDE DEF Thread
  <2> QED
    BY <2>3, <2>4, <2>5, <2>6, <2>7 DEF RaceInv
<1>10. ASSUME program = "semaphore" PROVE PermitsInv
  BY <1>0, <1>10, CountersStart DEF SemaphoreMain, PermitsInv, Released, Acquired
<1>11. ASSUME program = "data_race" PROVE DataRaceInv
  BY <1>0, <1>11, CountersStart DEF DataRace, DataRaceInv
<1>12. ASSUME program = "exec_policies" PROVE PositionsInv
  BY <1>12, CountersStart DEF ExecPolicies, PositionsInv, Wrote
<1> QED
  BY <1>1, <1>2, <1>3, <1>4, <1>5, <1>6, <1>7, <1>8, <1>9, <1>10, <1>11, <1>12
  DEF CountInvariant

LEMMA CountNext == LockInv /\ CountInvariant /\ [Next]_vars => CountInvariant'
<1> SUFFICES ASSUME LockInv, CountInvariant, [Next]_vars PROVE CountInvariant'
  OBVIOUS
<1>1. program' = program
  BY LockNext
<1>2. CASE UNCHANGED <<pc, owner, mem>>
  <2>1. /\ AgentsInv => AgentsInv'
        /\ SushiInv => SushiInv'
        /\ ObjectInv => ObjectInv'
    BY <1>2 DEF Thread, Ended, AgentsInv, Calls, SushiInv, ObjectInv, Added
  <2>2. /\ ShoppersInv => ShoppersInv'
        /\ AtomicShoppersInv => AtomicShoppersInv'
        /\ BasicCounterInv => BasicCounterInv'
        /\ FactorialInv => FactorialInv'
    BY <1>2 DEF Thread, ShoppersInv, AtomicShoppersInv, BasicCounterInv, CountingInv, FactorialInv
  <2>3. /\ CounterPoolInv => CounterPoolInv'
        /\ RaceInv => RaceInv'
    BY <1>2 DEF Thread, Ended, AllEnded, CounterPoolInv, Left, OneAt, RaceInv
  <2>4. /\ PermitsInv => PermitsInv'
        /\ DataRaceInv => DataRaceInv'
        /\ PositionsInv => PositionsInv'
    BY <1>2 DEF Thread, Ended, PermitsInv, Released, Acquired, DataRaceInv, PositionsInv, Wrote
  <2> QED
    BY <1>1, <2>1, <2>2, <2>3, <2>4 DEF CountInvariant
<1>3. CASE \E t \in Thread : ThreadStep(t)
  <2> PICK t \in Thread : ThreadStep(t)
    BY <1>3
  <2>1. program = "scoped_lock_dead_lock" => AgentsInv'
    BY CountersStep, AgentsKept DEF CountInvariant
  <2>2. program = "starvation" => SushiInv'
    BY CountersStep, SushiKept DEF CountInvariant
  <2>3. program = "objects" => ObjectInv'
    BY CountersStep, ObjectKept DEF CountInvariant
  <2>4. program = "mutex_example_1" => ShoppersInv'
    BY CountersStep, ShoppersKept DEF CountInvariant
  <2>5. program = "atomic_example" => AtomicShoppersInv'
    BY CountersStep, AtomicShoppersKept DEF CountInvariant
  <2>6. program = "recursive_mutex" => FactorialInv'
    BY CountersStep, FactorialKept DEF CountInvariant
  <2>7. program = "basic_counter" => BasicCounterInv'
    BY CountersStep, BasicCounterKept DEF CountInvariant
  <2>8. program = "counter_pool" => CounterPoolInv'
    BY CountersStep, CounterPoolKept DEF CountInvariant
  <2>9. program = "atomics_class" => RaceInv'
    BY CountersStep, RaceKept DEF CountInvariant
  <2>10. program = "semaphore" => PermitsInv'
    BY CountersStep, PermitsKept DEF CountInvariant
  <2>11. program = "data_race" => DataRaceInv'
    BY CountersStep, DataRaceKept DEF CountInvariant
  <2>12. program = "exec_policies" => PositionsInv'
    BY CountersStep, PositionsKept DEF CountInvariant
  <2> QED
    BY <1>1, <2>1, <2>2, <2>3, <2>4, <2>5, <2>6, <2>7, <2>8, <2>9, <2>10, <2>11, <2>12
    DEF CountInvariant
<1> QED
  BY <1>2, <1>3 DEF Next, SpuriousWakeup, vars, machineVars

LEMMA SumOfThree ==
  ASSUME NEW a \in Int, NEW b \in Int, NEW c \in Int
  PROVE  SumOf[<<a, b, c>>] = a + b + c
<1>1. SumOf[<<a, b, c>>] = a + SumOf[<<b, c>>]
  <2>1. \A s \in Seq(Int) : SumOf[s] = IF s = <<>> THEN 0 ELSE Head(s) + SumOf[Tail(s)]
    BY SumDefined DEF SumsUp
  <2>2. <<a, b, c>> \in Seq(Int) /\ Head(<<a, b, c>>) = a /\ Tail(<<a, b, c>>) = <<b, c>>
    OBVIOUS
  <2> QED
    BY <2>1, <2>2
<1> QED
  BY <1>1, SumOfTwo

\* No increment is lost where a mutex or an atomic guards the count, and no permit, sushi or
\* agent's call; those who race for a count lose some, but leave two at least of two or more
\* each, for any number of rounds, of sushi and of permits.
THEOREM CountsAreRight == Spec => []CountsAddUp
<1>1. CountInvariant => CountsAddUp
  <2> SUFFICES ASSUME CountInvariant PROVE CountsAddUp
    OBVIOUS
  <2>0. Rounds \in Nat /\ Rounds > 1
    BY RoundsAssumption
  <2> USE DEF AtEnd, AllEnded, Ended
  <2>1. ASSUME AtEnd("scoped_lock_dead_lock")
        PROVE  \A count \in {mem.database, mem.cache, mem.network} : count = 2 * Rounds
    <3>1. AgentsInv /\ Calls(1) = Rounds /\ Calls(2) = Rounds /\ Calls(3) = Rounds
      BY <2>1 DEF CountInvariant, AgentsInv
    <3> QED
      BY <2>0, <3>1 DEF AgentsInv
  <2>2. ASSUME AtEnd("starvation") PROVE SumOf[mem.sushi_eaten] = Sushi
    <3> DEFINE s == mem.sushi_eaten
    <3>1. /\ s \in [1 .. 3 -> Nat] /\ mem.sushi_count = 0
          /\ mem.sushi_count + s[1] + s[2] + s[3] = Sushi
      BY <2>2 DEF CountInvariant, SushiInv
    <3> HIDE DEF s
    <3>2. s[1] \in Int /\ s[2] \in Int /\ s[3] \in Int /\ s = <<s[1], s[2], s[3]>>
      BY <3>1
    <3>3. SumOf[<<s[1], s[2], s[3]>>] = s[1] + s[2] + s[3]
      BY <3>2, SumOfThree
    <3>4. SumOf[s] = s[1] + s[2] + s[3]
      BY <3>2, <3>3
    <3> QED
      BY <3>1, <3>2, <3>4 DEF s
  <2>3. AtEnd("objects") => mem.value = 10 + 1 + 2 + 3 + 4 + 5
    BY DEF CountInvariant, ObjectInv, Added, End
  <2>4. AtEnd("mutex_example_1") \/ AtEnd("atomic_example") => mem.item_count = 2 * Rounds
    BY <2>0 DEF CountInvariant, ShoppersInv, AtomicShoppersInv, CountingInv
  <2>5. ASSUME AtEnd("recursive_mutex") PROVE mem.fact = <<6, 24, 120, 6, 24>>
    <3> DEFINE f == mem.fact
    <3>1. /\ f \in [1 .. 5 -> Nat]
          /\ \A t \in 1 .. 5 : f[t] = Arguments[t] * Before(Arguments[t])
      BY <2>5 DEF CountInvariant, FactorialInv
    <3> HIDE DEF f
    <3>2. f[1] = 6 /\ f[2] = 24 /\ f[3] = 120 /\ f[4] = 6 /\ f[5] = 24
      BY <3>1 DEF Arguments, Before
    <3>3. f = <<f[1], f[2], f[3], f[4], f[5]>>
      BY <3>1
    <3> QED
      BY <3>2, <3>3 DEF f
  <2>6. AtEnd("basic_counter") => mem.counter = 2 * Rounds
    BY <2>0 DEF CountInvariant, BasicCounterInv, CountingInv
  <2>7. AtEnd("counter_pool") => mem.printed = <<3 * Rounds>>
    BY DEF CountInvariant, CounterPoolInv
  <2>8. ASSUME AtEnd("atomics_class") PROVE mem.g_count \in Rounds .. 3 * Rounds
    <3>1. /\ \A t \in 2 .. 4 : mem.i[t] \in 0 .. Rounds
          /\ \E t \in 2 .. 4 : mem.i[t] = Rounds
          /\ mem.g_count = mem.i[2] + mem.i[3] + mem.i[4]
      BY <2>8 DEF CountInvariant, RaceInv
    <3>2. /\ mem.i[2] \in 0 .. Rounds /\ mem.i[3] \in 0 .. Rounds /\ mem.i[4] \in 0 .. Rounds
          /\ mem.i[2] = Rounds \/ mem.i[3] = Rounds \/ mem.i[4] = Rounds
      BY <3>1
    <3> QED
      BY <2>0, <3>1, <3>2
  <2>9. AtEnd("semaphore") => mem.counter + mem.dropped = 1
    BY DEF CountInvariant, PermitsInv, Released, Acquired, End
  <2>10. AtEnd("data_race") => mem.counter \in 2 .. 2 * Rounds
    BY <2>0 DEF CountInvariant, DataRaceInv
  <2>11. AtEnd("exec_policies") => mem.counter \in 1 .. 3 /\ \E t \in 1 .. 3 : mem.v[t] = 0
    BY DEF CountInvariant, PositionsInv, Wrote, End
  <2> HIDE DEF AtEnd, AllEnded, Ended
  <2> QED
    BY <2>1, <2>2, <2>3, <2>4, <2>5, <2>6, <2>7, <2>8, <2>9, <2>10, <2>11 DEF CountsAddUp
<1> QED
  BY <1>1, LocksInvariant, LockStart, LockNext, CountStart, CountNext, PTL DEF Spec

=============================================================================
