----------------------------- MODULE KernelProofs -----------------------------
(***************************************************************************)
(* The types of the states of all demonstration programs, the elements     *)
(* that the items of a launch write, and what the kernels deliver, for     *)
(* every value of the constants. The invariant of the locks and the lemmas *)
(* about steps, sums and sequences are those of DemonstrationsProofs.      *)
(***************************************************************************)
EXTENDS DemonstrationsProofs

-----------------------------------------------------------------------------
\* Types

\* What a step of thread t does to the machine, whichever statement it executes.
Proceeds(t) ==
    /\ program' = program
    /\ DOMAIN pc' = DOMAIN pc /\ pc'[t] \in Nat
    /\ \A u \in Thread : u # t => pc'[u] = pc[u]
    /\ DOMAIN owner' = DOMAIN owner
    /\ \A m \in DOMAIN owner : owner'[m] \in {owner[m], t, Nobody}
    /\ DOMAIN asleep' = DOMAIN asleep
    /\ \A c \in DOMAIN asleep : /\ asleep'[c] \subseteq asleep[c] \cup {t}
                                /\ t \in asleep'[c] => pc'[t] # End

LEMMA StepProceeds ==
  ASSUME NEW t \in Thread, NEW from, NEW new, NEW to \in Nat, Step(t, from, new, to)
  PROVE  Proceeds(t)
BY DEF Step, At, Goto, Sleeping, Proceeds, Thread

LEMMA TestProceeds ==
  ASSUME NEW t \in Thread, NEW from, NEW cond, NEW yes \in Nat, NEW no \in Nat,
         Test(t, from, cond, yes, no)
  PROVE  Proceeds(t)
<1>1. CASE cond
  BY <1>1, StepProceeds, Zenon DEF Test
<1>2. CASE ~cond
  BY <1>2, StepProceeds, Zenon DEF Test
<1> QED
  BY <1>1, <1>2

LEMMA AwaitProceeds ==
  ASSUME NEW t \in Thread, NEW from, NEW cond, NEW new, NEW to \in Nat,
         Await(t, from, cond, new, to)
  PROVE  Proceeds(t)
BY StepProceeds, Zenon DEF Await

LEMMA GuardedProceeds ==
  ASSUME NEW t \in Thread, NEW from, NEW m, NEW new, NEW to \in Nat,
         Guarded(t, from, m, new, to)
  PROVE  Proceeds(t)
BY StepProceeds, Zenon DEF Guarded

LEMMA LockAllProceeds ==
  ASSUME NEW t \in Thread, NEW from, NEW M, NEW to \in Nat, LockAll(t, from, M, to)
  PROVE  Proceeds(t)
BY DEF LockAll, At, Goto, Sleeping, Proceeds, Thread

LEMMA LockProceeds ==
  ASSUME NEW t \in Thread, NEW from, NEW m, NEW to \in Nat, Lock(t, from, m, to)
  PROVE  Proceeds(t)
BY LockAllProceeds, Zenon DEF Lock

LEMMA TryLockProceeds ==
  ASSUME NEW t \in Thread, NEW from, NEW M, NEW yes \in Nat, NEW no \in Nat,
         TryLock(t, from, M, yes, no)
  PROVE  Proceeds(t)
BY LockAllProceeds, StepProceeds, Zenon DEF TryLock

LEMMA UnlockProceeds ==
  ASSUME NEW t \in Thread, NEW from, NEW M, NEW new, NEW to \in Nat, Unlock(t, from, M, new, to)
  PROVE  Proceeds(t)
BY DEF Unlock, At, Goto, Sleeping, Proceeds, Thread

LEMMA FallAsleepProceeds ==
  ASSUME NEW t \in Thread, NEW from \in Nat \ {End}, NEW c, FallAsleep(t, from, c)
  PROVE  Proceeds(t)
BY DEF FallAsleep, At, Proceeds, Thread

LEMMA SleepOnProceeds ==
  ASSUME NEW t \in Thread, NEW from, NEW c, NEW m, NEW to \in Nat \ {End},
         SleepOn(t, from, c, m, to)
  PROVE  Proceeds(t)
BY DEF SleepOn, At, Goto, Proceeds, Thread

LEMMA WaitUntilProceeds ==
  ASSUME NEW t \in Thread, NEW from \in Nat \ {End}, NEW c, NEW m, NEW cond, NEW to \in Nat,
         WaitUntil(t, from, c, m, cond, to)
  PROVE  Proceeds(t)
<1>1. CASE Await(t, from, cond, mem, to)
  BY <1>1, AwaitProceeds, Zenon
<1>2. CASE SleepOn(t, from, c, m, from)
  BY <1>2, SleepOnProceeds, Zenon
<1>3. CASE Lock(t, from, m, from)
  <2>1. from \in Nat
    OBVIOUS
  <2> QED
    BY <1>3, <2>1, LockProceeds, Zenon
<1> QED
  BY <1>1, <1>2, <1>3, Zenon DEF WaitUntil

LEMMA WakeProceeds ==
  ASSUME NEW t \in Thread, NEW from, NEW c, NEW W, NEW new, NEW to \in Nat,
         Wake(t, from, c, W, new, to)
  PROVE  Proceeds(t)
BY DEF Wake, At, Goto, Sleeping, Proceeds, Thread

LEMMA NotifyAllProceeds ==
  ASSUME NEW t \in Thread, NEW from, NEW c, NEW new, NEW to \in Nat,
         NotifyAll(t, from, c, new, to)
  PROVE  Proceeds(t)
BY WakeProceeds, Zenon DEF NotifyAll

LEMMA NotifyOneProceeds ==
  ASSUME NEW t \in Thread, NEW from, NEW c, NEW new, NEW to \in Nat,
         NotifyOne(t, from, c, new, to)
  PROVE  Proceeds(t)
BY StepProceeds, WakeProceeds, Zenon DEF NotifyOne

LEMMA ItemProceeds ==
  ASSUME NEW t \in Thread, NEW from, NEW new, NEW to \in Nat, Item(t, from, new, to)
  PROVE  Proceeds(t)
<1>1. End \in Nat
  BY DEF End
<1> QED
  BY <1>1, AwaitProceeds, Zenon DEF Item

LEMMA LaunchProceeds ==
  ASSUME NEW t \in Thread, NEW from, NEW to \in Nat, Launch(t, from, to)
  PROVE  Proceeds(t)
BY StepProceeds, Zenon DEF Launch

LEMMA FinishProceeds ==
  ASSUME NEW t \in Thread, NEW from, NEW new, NEW to \in Nat, Finish(t, from, new, to)
  PROVE  Proceeds(t)
BY AwaitProceeds, Zenon DEF Finish

LEMMA GiveUpProceeds ==
  ASSUME NEW t \in Thread, NEW from, GiveUp(t, from)
  PROVE  Proceeds(t)
<1>1. End \in Nat
  BY DEF End
<1> QED
  BY <1>1, StepProceeds, Zenon DEF GiveUp

LEMMA ReportProceeds ==
  ASSUME NEW t \in Thread, NEW from, NEW ok, Report(t, from, ok)
  PROVE  Proceeds(t)
<1>1. End \in Nat
  BY DEF End
<1> QED
  BY <1>1, StepProceeds, Zenon DEF Report

LEMMA JoinsProceeds ==
  ASSUME NEW t \in Thread, NEW from, NEW new, Joins(t, from, new)
  PROVE  Proceeds(t)
<1>1. End \in Nat
  BY DEF End
<1> QED
  BY <1>1, StepProceeds, AwaitProceeds, Zenon DEF Joins

LEMMA FulfilProceeds ==
  ASSUME NEW t \in Thread, NEW from, NEW state, NEW result, NEW to \in Nat,
         Fulfil(t, from, state, result, to)
  PROVE  Proceeds(t)
BY AwaitProceeds, Zenon DEF Fulfil

LEMMA GetProceeds ==
  ASSUME NEW t \in Thread, NEW from, NEW state, NEW to \in Nat, Get(t, from, state, to)
  PROVE  Proceeds(t)
BY AwaitProceeds, Zenon DEF Get

LEMMA StartedProceeds ==
  ASSUME NEW t \in Thread, NEW from, NEW to \in Nat, Started(t, from, to)
  PROVE  Proceeds(t)
BY AwaitProceeds, Zenon DEF Started

LEMMA TransferProceeds ==
  ASSUME NEW t \in Thread, NEW from \in Nat, NEW source, NEW destination, NEW success \in Nat,
         NEW failure \in Nat, transfer(t, from, source, destination, success, failure)
  PROVE  Proceeds(t)
<1>1. from + 100 \in Nat
  OBVIOUS
<1> QED
  BY <1>1, LockAllProceeds, UnlockProceeds, Zenon DEF transfer

LEMMA TransfersProceed ==
  ASSUME NEW t \in Thread, Transfer(t)
  PROVE  Proceeds(t)
<1>1. 46 \in Nat /\ 48 \in Nat /\ 50 \in Nat /\ End \in Nat
  BY DEF End
<1> QED
  BY <1>1, StepProceeds, TransferProceeds, Zenon DEF Transfer

LEMMA FactorialProceeds ==
  ASSUME NEW t \in Thread, factorial(t)
  PROVE  Proceeds(t)
<1>1. 9 \in Nat /\ 12 \in Nat /\ 28 \in Nat /\ End \in Nat
  BY DEF End
<1>2. CASE \E new : Step(t, 12, new, 12)
  BY <1>1, <1>2, StepProceeds, Zenon
<1>3. CASE \E new : Unlock(t, 12, {"rm"}, new, 28)
  BY <1>1, <1>3, UnlockProceeds, Zenon
<1>4. CASE Guarded(t, 28, "rm", mem, End)
  BY <1>1, <1>4, GuardedProceeds, Zenon
<1>5. CASE \E to \in {9, 12} : /\ owner' = [owner EXCEPT !["rm"] = t] /\ At(t, 9)
                               /\ Goto(t, to) /\ UNCHANGED <<program, asleep>>
  BY <1>5 DEF At, Goto, Sleeping, Proceeds, Thread, End
<1>6. (IF mem.n[t] <= 1 THEN 12 ELSE 9) \in {9, 12}
  OBVIOUS
<1> QED
  BY <1>2, <1>3, <1>4, <1>5, <1>6, Zenon DEF factorial

LEMMA AgentsProceed ==
  ASSUME NEW t \in Thread, mem.f[t] \in Nat,
         agent_a(t) \/ agent_b(t) \/ agent_c(t) \/ run_agent(t)
  PROVE  Proceeds(t)
<1>1. 27 \in Nat /\ 41 \in Nat /\ 55 \in Nat /\ 61 \in Nat
  OBVIOUS
<1>2. (IF mem.i[t] < Rounds THEN mem.f[t] ELSE End) \in Nat
  BY DEF End
<1> QED
  BY <1>1, <1>2, LockAllProceeds, StepProceeds, UnlockProceeds, Zenon
  DEF agent_a, agent_b, agent_c, run_agent

LEMMA StrMonitorProceeds ==
  ASSUME NEW t \in Thread, str_monitor(t)
  PROVE  Proceeds(t)
<1>1. 11 \in Nat /\ 16 \in Nat /\ (IF mem.i < Rounds THEN 84 ELSE End) \in Nat
  BY DEF End
<1> QED
  BY <1>1, GuardedProceeds, StepProceeds, Zenon DEF str_monitor, MonitorCall

LEMMA SafeQueueProceeds ==
  ASSUME NEW t \in Thread, push(t) \/ pop(t) \/ wait_pop(t)
  PROVE  Proceeds(t)
<1>1. 13 \in Nat /\ 15 \in Nat /\ 39 \in Nat \ {End} /\ 42 \in Nat /\ End \in Nat
  BY DEF End
<1>2. 39 \in Nat
  OBVIOUS
<1>3. CASE push(t)
  BY <1>1, <1>3, LockProceeds, NotifyOneProceeds, UnlockProceeds, Zenon DEF push
<1>4. CASE pop(t)
  BY <1>1, <1>4, GuardedProceeds, Zenon DEF pop
<1>5. CASE wait_pop(t)
  BY <1>1, <1>2, <1>5, LockProceeds, WaitUntilProceeds, UnlockProceeds, Zenon DEF wait_pop
<1> QED
  BY <1>3, <1>4, <1>5

LEMMA UpdateProceeds ==
  ASSUME NEW t \in Thread, NEW from \in Nat, NEW config, NEW to \in Nat,
         update(t, from, config, to)
  PROVE  Proceeds(t)
<1>1. from + 100 \in Nat
  OBVIOUS
<1> QED
  BY <1>1, StepProceeds, Zenon DEF update

LEMMA ConfigProceeds ==
  ASSUME NEW t \in Thread, config_reader(t) \/ config_writer(t)
  PROVE  Proceeds(t)
<1>1. /\ 36 \in Nat /\ 37 \in Nat /\ 38 \in Nat /\ 39 \in Nat /\ 46 \in Nat /\ 48 \in Nat
      /\ End \in Nat
  BY DEF End
<1> QED
  BY <1>1, StepProceeds, TestProceeds, UpdateProceeds, Zenon DEF config_reader, config_writer

LEMMA LockFreeStackProceeds ==
  ASSUME NEW t \in Thread, stack_main(t) \/ stack_destructor(t) \/ stack_worker(t)
  PROVE  Proceeds(t)
<1>1. /\ 19 \in Nat /\ 31 \in Nat /\ 32 \in Nat /\ 33 \in Nat /\ 53 \in Nat /\ 68 \in Nat
      /\ End \in Nat /\ (IF mem.i[t] < Rounds THEN 28 ELSE End) \in Nat
  BY DEF End
<1>2. CASE stack_main(t)
  BY <1>1, <1>2, AwaitProceeds, StepProceeds, Zenon DEF stack_main
<1>3. CASE stack_destructor(t)
  BY <1>1, <1>3, StepProceeds, Zenon DEF stack_destructor
<1>4. CASE stack_worker(t)
  BY <1>1, <1>4, StepProceeds, Zenon DEF stack_worker, stack_push_node, push_succeeds
<1> QED
  BY <1>2, <1>3, <1>4

LEMMA LaunchOptsProceed ==
  ASSUME NEW t \in Thread, func(t) \/ launched_task(t)
  PROVE  Proceeds(t)
<1>1. /\ 17 \in Nat /\ 30 \in Nat /\ 130 \in Nat /\ End \in Nat
      /\ 13 \in Nat
      /\ (IF call_of(mem) = 3 THEN End ELSE 17) \in Nat
  BY DEF End
<1>2. CASE func(t)
  BY <1>1, <1>2, AwaitProceeds, FulfilProceeds, StepProceeds, Zenon DEF func
<1>3. CASE launched_task(t)
  BY <1>1, <1>3, StepProceeds, FulfilProceeds, StartedProceeds, Zenon DEF launched_task
<1> QED
  BY <1>2, <1>3

LEMMA SaxpyProceeds ==
  ASSUME NEW t \in Thread,
         saxpy_main(t) \/ saxpy(t) \/ nonlinear_main(t) \/ nonlinear(t)
           \/ stencil_main(t) \/ stencil1d(t)
  PROVE  Proceeds(t)
<1>1. /\ End \in Nat /\ 63 \in Nat /\ 66 \in Nat /\ 68 \in Nat /\ 69 \in Nat /\ 72 \in Nat
      /\ 74 \in Nat
  BY DEF End
<1>2. CASE saxpy_main(t) \/ nonlinear_main(t) \/ stencil_main(t)
  BY <1>1, <1>2, GiveUpProceeds, LaunchProceeds, FinishProceeds, ReportProceeds, Zenon
  DEF saxpy_main, nonlinear_main, stencil_main
<1>3. CASE saxpy(t) \/ nonlinear(t) \/ stencil1d(t)
  BY <1>1, <1>3, ItemProceeds, Zenon DEF saxpy, nonlinear, stencil1d
<1> QED
  BY <1>2, <1>3

LEMMA ReductionProceeds ==
  ASSUME NEW t \in Thread, reduction_main(t) \/ mul(t) \/ reduce(t)
  PROVE  Proceeds(t)
<1>1. End \in Nat /\ 51 \in Nat /\ 61 \in Nat /\ 119 \in Nat /\ 130 \in Nat
  BY DEF End
<1>2. CASE reduction_main(t)
  BY <1>1, <1>2, GiveUpProceeds, LaunchProceeds, FinishProceeds, ReportProceeds, Zenon
  DEF reduction_main
<1>3. CASE mul(t)
  BY <1>1, <1>3, ItemProceeds, Zenon DEF mul
<1>4. CASE reduce(t)
  BY <1>1, <1>4, AwaitProceeds, StepProceeds, Zenon DEF reduce
<1> QED
  BY <1>2, <1>3, <1>4

LEMMA SelectProceeds ==
  ASSUME NEW t \in Thread, select_main(t) \/ select_item(t)
  PROVE  Proceeds(t)
<1>1. End \in Nat /\ 61 \in Nat /\ 93 \in Nat /\ 94 \in Nat /\ 126 \in Nat /\ 128 \in Nat
  BY DEF End
<1>2. CASE select_main(t)
  BY <1>1, <1>2, AwaitProceeds, StepProceeds, TestProceeds, Zenon DEF select_main
<1>3. CASE select_item(t)
  BY <1>1, <1>3, AwaitProceeds, Zenon DEF select_item
<1> QED
  BY <1>2, <1>3

LEMMA ForReductionProceeds ==
  ASSUME NEW t \in Thread, for_reduction(t) \/ matrix_sum(t)
  PROVE  Proceeds(t)
<1>1. 10 \in Nat /\ 11 \in Nat /\ 13 \in Nat /\ 28 \in Nat /\ 30 \in Nat /\ 32 \in Nat
  OBVIOUS
<1>2. CASE for_reduction(t)
  BY <1>1, <1>2, JoinsProceeds, StepProceeds, Zenon DEF for_reduction, Loop
<1>3. CASE matrix_sum(t)
  BY <1>1, <1>3, JoinsProceeds, StepProceeds, Zenon DEF matrix_sum, Loop
<1> QED
  BY <1>2, <1>3

LEMMA HistogramProceeds ==
  ASSUME NEW t \in Thread, histogram_region(t)
  PROVE  Proceeds(t)
<1>1. 25 \in Nat /\ 26 \in Nat /\ 29 \in Nat /\ 30 \in Nat /\ 32 \in Nat /\ 35 \in Nat
  OBVIOUS
<1>2. ASSUME At(t, 30) /\ Unlock(t, 30, {"critical"}, mem, 35)
      PROVE  Proceeds(t)
  BY <1>1, <1>2, UnlockProceeds, Zenon
<1> QED
  BY <1>1, <1>2, JoinsProceeds, StepProceeds, AwaitProceeds, LockProceeds, Zenon
  DEF histogram_region, Loop

LEMMA LoopsProceed ==
  ASSUME NEW t \in Thread,
         multiply_region(t) \/ loops(t) \/ parallel_region(t) \/ unrolled(t)
  PROVE  Proceeds(t)
<1>1. /\ 12 \in Nat /\ 13 \in Nat /\ 14 \in Nat /\ 18 \in Nat /\ 21 \in Nat /\ 22 \in Nat
      /\ 27 \in Nat /\ 52 \in Nat
  OBVIOUS
<1>2. CASE multiply_region(t)
  BY <1>1, <1>2, JoinsProceeds, StepProceeds, Zenon DEF multiply_region, Loop
<1>3. CASE loops(t) \/ parallel_region(t) \/ unrolled(t)
  BY <1>1, <1>3, JoinsProceeds, StepProceeds, Zenon DEF loops, parallel_region, unrolled, Loop
<1> QED
  BY <1>2, <1>3

LEMMA SchedulerProceeds ==
  ASSUME NEW t \in Thread,
         producerLoop(t) \/ workerLoop(t) \/ monitorLoop(t) \/ scheduler_main(t)
  PROVE  Proceeds(t)
<1>0. End \in Nat
  BY DEF End
<1>2. CASE producerLoop(t)
  <2>1. 21 \in Nat /\ 24 \in Nat /\ 93 \in Nat
    OBVIOUS
  <2>2. ASSUME push_job(t, mem.id, 93) PROVE Proceeds(t)
    BY <2>1, <2>2, GuardedProceeds, NotifyOneProceeds, Zenon DEF push_job
  <2> QED
    BY <1>0, <1>2, <2>1, <2>2, StepProceeds, Zenon DEF producerLoop
<1>3. CASE workerLoop(t)
  <2>1. /\ 28 \in Nat /\ 30 \in Nat /\ 30 \in Nat \ {End} /\ 34 \in Nat /\ 121 \in Nat
        /\ 122 \in Nat
    BY DEF End
  <2>2. ASSUME pop_job(t, 121, End) PROVE Proceeds(t)
    <3>1. CASE Lock(t, 28, "mutex_", 30)
      BY <2>1, <3>1, LockProceeds, Zenon
    <3>2. CASE WaitUntil(t, 30, "cv_", "mutex_", mem.queue_ # <<>> \/ stop_requested(t), 34)
      BY <2>1, <3>2, WaitUntilProceeds, Zenon
    <3>3. CASE \E new : Unlock(t, 34, {"mutex_"}, new, End) \/ Unlock(t, 34, {"mutex_"}, new, 121)
      BY <1>0, <2>1, <3>3, UnlockProceeds, Zenon
    <3> QED
      BY <2>2, <3>1, <3>2, <3>3, Zenon DEF pop_job
  <2>3. CASE Lock(t, 121, "resultMutex_", 122)
    BY <2>1, <2>3, LockProceeds, Zenon
  <2>4. CASE \E new : Unlock(t, 122, {"resultMutex_"}, new, 28)
    BY <2>1, <2>4, UnlockProceeds, Zenon
  <2> QED
    BY <1>3, <2>2, <2>3, <2>4, Zenon DEF workerLoop
<1>4. CASE monitorLoop(t)
  <2>1. 135 \in Nat /\ 139 \in Nat /\ 142 \in Nat /\ 143 \in Nat
    OBVIOUS
  <2>2. CASE Test(t, 135, stop_requested(t), End, 139)
    BY <1>0, <2>1, <2>2, TestProceeds, Zenon
  <2>3. CASE Lock(t, 139, "resultMutex_", 142)
    BY <2>1, <2>3, LockProceeds, Zenon
  <2>4. CASE \E new : Guarded(t, 142, "mutex_", new, 143)
    BY <2>1, <2>4, GuardedProceeds, Zenon
  <2>5. CASE \E new : Unlock(t, 143, {"resultMutex_"}, new, 135)
    BY <2>1, <2>5, UnlockProceeds, Zenon
  <2> QED
    BY <1>4, <2>2, <2>3, <2>4, <2>5, Zenon DEF monitorLoop
<1>5. CASE scheduler_main(t)
  <2>1. /\ 149 \in Nat /\ 151 \in Nat /\ 152 \in Nat /\ 153 \in Nat /\ 1151 \in Nat
        /\ 1152 \in Nat /\ 1153 \in Nat /\ 2151 \in Nat /\ 3151 \in Nat
    OBVIOUS
  <2>2. ASSUME NEW to \in Nat, NEW from, NEW u, joined(t, from, u, to) PROVE Proceeds(t)
    BY <2>2, AwaitProceeds, Zenon DEF joined
  <2>3. ASSUME NEW to \in Nat, NEW from, NEW u, stopped(t, from, u, to) PROVE Proceeds(t)
    BY <2>3, WakeProceeds, Zenon DEF stopped
  <2>4. ASSUME NEW to \in Nat, NEW from, NEW u, RequestStop(t, from, u, to) PROVE Proceeds(t)
    BY <2>4, StepProceeds, Zenon DEF RequestStop
  <2>5. CASE workers_destroyed(t, 149)
    BY <2>1, <2>2, <2>3, <2>5 DEF workers_destroyed
  <2> QED
    BY <1>0, <1>5, <2>1, <2>2, <2>4, <2>5, StepProceeds DEF scheduler_main
<1> QED
  BY <1>2, <1>3, <1>4, <1>5

LEMMA ServerProceeds ==
  ASSUME NEW t \in Thread,
         fetch_server_data(t) \/ fetch_server_data_with_error(t) \/ server_main(t)
  PROVE  Proceeds(t)
<1>1. /\ End \in Nat /\ 83 \in Nat /\ 99 \in Nat /\ 102 \in Nat /\ 143 \in Nat
      /\ 148 \in Nat /\ 154 \in Nat /\ 166 \in Nat /\ 172 \in Nat /\ 176 \in Nat /\ 181 \in Nat
  BY DEF End
<1>2. CASE fetch_server_data(t)
  BY <1>1, <1>2, StepProceeds, FulfilProceeds DEF fetch_server_data
<1>3. CASE fetch_server_data_with_error(t)
  BY <1>1, <1>3, StartedProceeds, StepProceeds, FulfilProceeds, Zenon
  DEF fetch_server_data_with_error
<1>4. CASE server_main(t)
  <2>1. ASSUME NEW to \in Nat, NEW from, NEW u, Join(t, from, u, to) PROVE Proceeds(t)
    BY <2>1, AwaitProceeds, Zenon DEF Join
  <2>2. ASSUME NEW to \in Nat, NEW from, NEW u, Start(t, from, u, to) PROVE Proceeds(t)
    BY <2>2, StepProceeds, Zenon DEF Start
  <2> QED
    BY <1>1, <1>4, <2>1, <2>2, StepProceeds, GetProceeds, Zenon DEF server_main
<1> QED
  BY <1>2, <1>3, <1>4

LEMMA LockProgramsProceed ==
  ASSUME NEW t \in Thread, LockStep(t),
         program = "scoped_lock_dead_lock" => mem.f[t] \in Nat
  PROVE  Proceeds(t)
<1>1. CASE program = "abandoned_lock" /\ abandoned_lock(t)
  BY <1>1, LockProceeds, StepProceeds, TestProceeds, UnlockProceeds
  DEF abandoned_lock, End
<1>2. CASE program = "scoped_lock_abandoned" /\ scoped_lock_abandoned(t)
  BY <1>2, LockProceeds, StepProceeds, TestProceeds, UnlockProceeds
  DEF scoped_lock_abandoned, End
<1>3. CASE program = "starvation" /\ starvation(t)
  BY <1>3, LockProceeds, TestProceeds, UnlockProceeds
  DEF starvation, End
<1>4. CASE program = "dead_lock_philosophers" /\ dead_lock_philosophers(t)
  BY <1>4, LockProceeds, StepProceeds, TestProceeds, UnlockProceeds
  DEF dead_lock_philosophers, End
<1>5. CASE program = "philosophers_scoped_lock" /\ philosophers_scoped_lock(t)
  BY <1>5, LockProceeds, StepProceeds, TestProceeds, UnlockProceeds
  DEF philosophers_scoped_lock, End
<1>6. CASE program = "livelock_philosophers" /\ livelock_philosophers(t)
  BY <1>6, LockProceeds, TestProceeds, TryLockProceeds, UnlockProceeds
  DEF livelock_philosophers, End
<1>7. CASE program = "deadlock_1" /\ (func_A(t) \/ func_B(t))
  BY <1>7, LockAllProceeds, UnlockProceeds
  DEF func_A, func_B, End
<1>8. CASE program = "deadlock_2" /\ try_lock_func_A(t)
  BY <1>8, StepProceeds, TryLockProceeds, UnlockProceeds
  DEF try_lock_func_A, End
<1>9. CASE program = "dining_philosophers" /\ dine(t)
  BY <1>9, StepProceeds, TryLockProceeds, UnlockProceeds
  DEF dine, End
<1>10. CASE program = "try_lock_dining_philosophers" /\ try_lock_dine(t)
  BY <1>10, LockAllProceeds, StepProceeds, UnlockProceeds
  DEF try_lock_dine, End
<1>11. CASE program = "mutex_example_1" /\ shopper(t)
  BY <1>11, LockProceeds, StepProceeds, TestProceeds, UnlockProceeds
  DEF shopper, End
<1>12. CASE program = "atomic_example" /\ atomic_shopper(t)
  BY <1>12, LockProceeds, StepProceeds, TestProceeds, UnlockProceeds
  DEF atomic_shopper, End
<1>13. CASE program = "objects" /\ test_thread(t)
  BY <1>13, LockProceeds, StepProceeds, UnlockProceeds
  DEF test_thread, End
<1>14. CASE program = "unique_mtx" /\ task(t)
  BY <1>14, LockProceeds, TestProceeds, UnlockProceeds
  DEF task, End
<1>15. CASE program = "unique_mtx2" /\ (task1(t) \/ task2(t))
  BY <1>15, LockProceeds, TryLockProceeds, UnlockProceeds
  DEF task1, task2, End
<1>16. CASE program = "read_write" /\ (write(t) \/ read(t))
  BY <1>16, GuardedProceeds, LockProceeds, StepProceeds, UnlockProceeds
  DEF write, read, End
<1>17. CASE program = "shared_mutex" /\ (calendar_reader(t) \/ calendar_writer(t))
  BY <1>17, LockProceeds, StepProceeds
  DEF calendar_reader, calendar_writer, End
<1>18. CASE program = "producer_consumer" /\ (producer(t) \/ consumer(t))
  BY <1>18, GuardedProceeds, LockProceeds, StepProceeds, TestProceeds, UnlockProceeds
  DEF producer, consumer, End
<1>19. CASE program = "barrier" /\ agent_routine(t)
  BY <1>19, AwaitProceeds, StepProceeds, TestProceeds
  DEF agent_routine, arrive_and_wait, End
<1>20. CASE program = "scoped_lock_dead_lock"
             /\ (agent_a(t) \/ agent_b(t) \/ agent_c(t) \/ run_agent(t))
  BY <1>20, AgentsProceed
<1>21. CASE program = "mutex_example" /\ Transfer(t)
  BY <1>21, TransfersProceed
<1>22. CASE program = "recursive_mutex" /\ factorial(t)
  BY <1>22, FactorialProceeds
<1> QED
  BY <1>1, <1>2, <1>3, <1>4, <1>5, <1>6, <1>7, <1>8, <1>9, <1>10, <1>11, <1>12, <1>13, <1>14,
     <1>15, <1>16, <1>17, <1>18, <1>19, <1>20, <1>21, <1>22
  DEF LockStep

LEMMA MonitorProgramsProceed ==
  ASSUME NEW t \in Thread, MonitorStep(t)
  PROVE  Proceeds(t)
<1>1. CASE program = "semaphore" /\ (release(t) \/ acquire(t))
  BY <1>1, LockProceeds, NotifyAllProceeds, StepProceeds, UnlockProceeds, WaitUntilProceeds
  DEF release, acquire, End
<1>2. CASE program = "binary_semaphore" /\ BinarySemaphoreThreads(t)
  BY <1>2, AwaitProceeds, StepProceeds
  DEF BinarySemaphoreThreads, End
<1>3. CASE program = "counter" /\ CounterThreads(t)
  BY <1>3, LockProceeds, NotifyAllProceeds, StepProceeds, TestProceeds, UnlockProceeds,
     WaitUntilProceeds
  DEF CounterThreads, increment, wait_for_threshold, wait, End
<1>4. CASE program = "predicate_coordination"
             /\ (predicate_reader(t) \/ predicate_writer(t))
  BY <1>4, LockProceeds, NotifyAllProceeds, UnlockProceeds, WaitUntilProceeds
  DEF predicate_reader, predicate_writer, End
<1>5. CASE program = "condtional_coordination" /\ (reader(t) \/ writer(t))
  BY <1>5, LockProceeds, NotifyOneProceeds, SleepOnProceeds, UnlockProceeds
  DEF reader, writer, End
<1>6. CASE program = "navigation" /\ (keep_moving(t) \/ ask_driver_to_wake_up_time_t(t))
  BY <1>6, LockProceeds, NotifyOneProceeds, SleepOnProceeds, StepProceeds, TestProceeds,
     UnlockProceeds
  DEF keep_moving, ask_driver_to_wake_up_time_t, End
<1>7. CASE program = "thread_coordination"
             /\ (fetch_data(t) \/ progress_bar(t) \/ process_data(t))
  BY <1>7, GuardedProceeds, LockProceeds, StepProceeds, TestProceeds, UnlockProceeds
  DEF fetch_data, progress_bar, process_data, End
<1>8. CASE program = "coordination" /\ restaurant_announcement(t)
  BY <1>8, LockProceeds, NotifyAllProceeds, StepProceeds, UnlockProceeds, WaitUntilProceeds
  DEF restaurant_announcement, ordered_print, End
<1>9. CASE program = "race_condition_latch" /\ (multiplier_1(t) \/ adder_1(t))
  BY <1>9, AwaitProceeds, LockProceeds, StepProceeds, UnlockProceeds
  DEF multiplier_1, adder_1, End
<1>10. CASE program = "cv_soup" /\ hungry_person(t)
  BY <1>10, LockProceeds, NotifyOneProceeds, TestProceeds, UnlockProceeds, WaitUntilProceeds
  DEF hungry_person, End
<1>11. CASE program = "producer_consumer_queue" /\ (queue_producer(t) \/ queue_consumer(t))
  BY <1>11, LockProceeds, StepProceeds, UnlockProceeds, WaitUntilProceeds
  DEF queue_producer, queue_consumer, serve_queue, take_element, End
<1>12. CASE program = "thread_safe_stack" /\ (stack_push(t) \/ stack_pop(t))
  BY <1>12, GuardedProceeds
  DEF stack_push, stack_pop, End
<1>13. CASE program = "str_monitor" /\ str_monitor(t)
  BY <1>13, StrMonitorProceeds
<1>14. CASE program \in {"thread_safe_queue", "thread_safe_queue_pop"}
             /\ (push(t) \/ pop(t) \/ wait_pop(t))
  BY <1>14, SafeQueueProceeds
<1> QED
  BY <1>1, <1>2, <1>3, <1>4, <1>5, <1>6, <1>7, <1>8, <1>9, <1>10, <1>11, <1>12, <1>13, <1>14
  DEF MonitorStep

LEMMA EventProgramsProceed ==
  ASSUME NEW t \in Thread, EventStep(t)
  PROVE  Proceeds(t)
<1>1. CASE program = "lazy_initialization" /\ worker(t)
  BY <1>1, AwaitProceeds, LockProceeds, StepProceeds, TestProceeds, UnlockProceeds
  DEF worker, getInstance, getTestInstance_CallOnce, getTestInstance_DCLP,
      getTestInstance_Smart, CallOnce, End
<1>2. CASE program = "call_once" /\ call_once_process(t)
  BY <1>2, AwaitProceeds, StepProceeds
  DEF call_once_process, CallOnce, End
<1>3. CASE program = "singleton" /\ singleton_task(t)
  BY <1>3, AwaitProceeds, StepProceeds
  DEF singleton_task, get_singleton, CallOnce, End
<1>4. CASE program = "double_check" /\ double_check_process(t)
  BY <1>4, LockProceeds, StepProceeds, UnlockProceeds
  DEF double_check_process, End
<1>5. CASE program = "atomic_double_checked" /\ atomic_process(t)
  BY <1>5, LockProceeds, StepProceeds, TestProceeds, UnlockProceeds
  DEF atomic_process, End
<1>6. CASE program \in {"one_shot_event", "one_shot_event_twice"}
             /\ (signaler(t) \/ waiter(t))
  BY <1>6, AwaitProceeds, FallAsleepProceeds, NotifyOneProceeds, StepProceeds, TestProceeds
  DEF signaler, waiter, End
<1>7. CASE program = "spin_lock" /\ spin_task(t)
  BY <1>7, StepProceeds, TryLockProceeds, UnlockProceeds
  DEF spin_task, End
<1>8. CASE program = "atomics_class" /\ (countem(t) \/ swarm_main(t))
  BY <1>8, AwaitProceeds, StepProceeds, TestProceeds
  DEF countem, swarm_main, End
<1>9. CASE program = "basic_ops" /\ basic_ops(t)
  BY <1>9, StepProceeds
  DEF basic_ops, End
<1>10. CASE program = "basic_counter" /\ counter_worker(t)
  BY <1>10, StepProceeds, TestProceeds
  DEF counter_worker, End
<1>11. CASE program = "counter_pool" /\ pool_worker(t)
  BY <1>11, StepProceeds, TestProceeds
  DEF pool_worker, End
<1>12. CASE program = "config_manager" /\ (config_reader(t) \/ config_writer(t))
  BY <1>12, ConfigProceeds
<1>13. CASE program = "lock_free_stack"
             /\ (stack_main(t) \/ stack_destructor(t) \/ stack_worker(t))
  BY <1>13, LockFreeStackProceeds
<1> QED
  BY <1>1, <1>2, <1>3, <1>4, <1>5, <1>6, <1>7, <1>8, <1>9, <1>10, <1>11, <1>12, <1>13
  DEF EventStep

LEMMA FutureProgramsProceed ==
  ASSUME NEW t \in Thread, FutureStep(t)
  PROVE  Proceeds(t)
<1>1. CASE program = "multiple_waiting_threads" /\ (produce(t) \/ consume(t))
  BY <1>1, FulfilProceeds, GetProceeds, LockProceeds, UnlockProceeds
  DEF produce, consume, End
<1>2. CASE program = "packet" /\ (packet_producer(t) \/ packet_consumer(t))
  BY <1>2, FulfilProceeds, GetProceeds
  DEF packet_producer, packet_consumer, End
<1>3. CASE program = "throwing_producer" /\ (throwing_produce(t) \/ catching_consume(t))
  BY <1>3, FulfilProceeds, GetProceeds, StepProceeds, TestProceeds
  DEF throwing_produce, catching_consume, End
<1>4. CASE program = "package_task_test"
             /\ (task_thread(t) \/ packaged_add(t) \/ own_task(t))
  BY <1>4, FulfilProceeds, GetProceeds, StartedProceeds, StepProceeds
  DEF task_thread, packaged_add, own_task, Start, End
<1>5. CASE program = "packaged_task" /\ (p_task(t) \/ display_result(t))
  BY <1>5, FulfilProceeds, GetProceeds
  DEF p_task, display_result, End
<1>6. CASE program = "asynk_task_launch"
             /\ (compute_value(t) \/ process_value(t) \/ launching_main(t))
  BY <1>6, FulfilProceeds, GetProceeds, StartedProceeds, StepProceeds
  DEF compute_value, process_value, launching_main, launch_async_task, Start, End
<1>7. CASE program = "futures_demo" /\ (count_objects(t) \/ asking_main(t))
  BY <1>7, FulfilProceeds, GetProceeds
  DEF count_objects, asking_main, End
<1>8. CASE program = "futures_promise" /\ (fibonacci(t) \/ promising_main(t))
  BY <1>8, FulfilProceeds, GetProceeds
  DEF fibonacci, promising_main, End
<1>9. CASE program = "promise_exception" /\ (calculate_square_root(t) \/ print_result(t))
  BY <1>9, FulfilProceeds, GetProceeds, StepProceeds
  DEF calculate_square_root, print_result, End
<1>10. CASE program = "fibonacci" /\ (fibonacci_of(t) \/ waiting_main(t))
  BY <1>10, AwaitProceeds, FulfilProceeds, GetProceeds, StepProceeds, TestProceeds
  DEF fibonacci_of, waiting_main, End
<1>11. CASE program = "concurrent_tasks" /\ (square(t) \/ gathering_main(t))
  BY <1>11, AwaitProceeds, StepProceeds
  DEF square, gathering_main, next, End
<1>12. CASE program = "arithmetic" /\ (run_code(t) \/ printing(t))
  BY <1>12, FulfilProceeds, GetProceeds, StepProceeds
  DEF run_code, printing, End
<1>13. CASE program = "countdown" /\ countdown_main(t)
  BY <1>13, StepProceeds
  DEF countdown_main, next, End
<1>14. CASE program = "count_to" /\ count_main(t)
  BY <1>14, StepProceeds
  DEF count_main, End
<1>15. CASE program = "lazy_evaluation" /\ lazy_main(t)
  BY <1>15, StepProceeds
  DEF lazy_main, End
<1>16. CASE program = "server_fetching_data"
             /\ (fetch_server_data(t) \/ fetch_server_data_with_error(t) \/ server_main(t))
  BY <1>16, ServerProceeds
<1>17. CASE program = "launch_opts" /\ (func(t) \/ launched_task(t))
  BY <1>17, LaunchOptsProceed
<1> QED
  BY <1>1, <1>2, <1>3, <1>4, <1>5, <1>6, <1>7, <1>8, <1>9, <1>10, <1>11, <1>12, <1>13, <1>14,
     <1>15, <1>16, <1>17
  DEF FutureStep

LEMMA SchedulerProgramsProceed ==
  ASSUME NEW t \in Thread, SchedulerStep(t)
  PROVE  Proceeds(t)
<1>1. CASE program = "jthread_2"
             /\ (assigned_job(t) \/ alternate_job(t) \/ jthread_main(t))
  BY <1>1, AwaitProceeds, StepProceeds, TestProceeds
  DEF assigned_job, alternate_job, jthread_main, RequestStop, End
<1>2. CASE program = "jthread_1"
             /\ (producerLoop(t) \/ workerLoop(t) \/ monitorLoop(t) \/ scheduler_main(t))
  BY <1>2, SchedulerProceeds
<1> QED
  BY <1>1, <1>2
  DEF SchedulerStep

LEMMA KernelProgramsProceed ==
  ASSUME NEW t \in Thread, KernelStep(t)
  PROVE  Proceeds(t)
<1>1. CASE program = "vector_add" /\ IF t = 1 THEN vector_add_main(t) ELSE vector_add(t)
  BY <1>1, FinishProceeds, GiveUpProceeds, ItemProceeds, LaunchProceeds
  DEF vector_add_main, vector_add, End
<1>2. CASE program = "fvm_solver" /\ fvm_main(t)
  BY <1>2, StepProceeds
  DEF fvm_main, End
<1>3. CASE program = "vec_addition"
             /\ IF t = 1 THEN vec_addition_main(t) ELSE cuda_vector_add(t)
  BY <1>3, FinishProceeds, ItemProceeds, LaunchProceeds
  DEF vec_addition_main, cuda_vector_add, End
<1>4. CASE program = "block_thread_indexing"
             /\ IF t = 1 THEN indexing_main(t) ELSE indexed_vector_add(t)
  BY <1>4, FinishProceeds, ItemProceeds, LaunchProceeds
  DEF indexing_main, indexed_vector_add, End
<1>5. CASE program = "double_vec" /\ IF t = 1 THEN double_solve(t) ELSE double_kernel(t)
  BY <1>5, FinishProceeds, ItemProceeds, LaunchProceeds
  DEF double_solve, double_kernel, solve, Kernel, End
<1>6. CASE program = "zero_fill" /\ IF t = 1 THEN zero_solve(t) ELSE zero_kernel(t)
  BY <1>6, FinishProceeds, ItemProceeds, LaunchProceeds
  DEF zero_solve, zero_kernel, solve, Kernel, End
<1>7. CASE program = "invert_rgba" /\ IF t = 1 THEN invert_solve(t) ELSE invert_kernel(t)
  BY <1>7, FinishProceeds, ItemProceeds, LaunchProceeds
  DEF invert_solve, invert_kernel, solve, Kernel, End
<1>8. CASE program = "tiled_matmul"
             /\ IF t = 1 THEN tiled_main(t) ELSE load_tile(t) \/ use_tile(t) \/ shuffle(t)
  BY <1>8, FinishProceeds, ItemProceeds, StepProceeds
  DEF tiled_main, load_tile, use_tile, shuffle, End
<1>9. CASE program = "daxpy" /\ daxpy_main(t)
  BY <1>9, StepProceeds
  DEF daxpy_main, End
<1>10. CASE \/ program = "saxpy" /\ IF t = 1 THEN saxpy_main(t) ELSE saxpy(t)
            \/ program = "non_linear_transform" /\ IF t = 1 THEN nonlinear_main(t) ELSE nonlinear(t)
            \/ program = "convolution_1d" /\ IF t = 1 THEN stencil_main(t) ELSE stencil1d(t)
  BY <1>10, SaxpyProceeds
<1>11. CASE program = "parallel_reduction"
             /\ IF t = 1 THEN reduction_main(t) ELSE mul(t) \/ reduce(t)
  BY <1>11, ReductionProceeds
<1>12. CASE program = "select" /\ IF t = 1 THEN select_main(t) ELSE select_item(t)
  BY <1>12, SelectProceeds
<1> QED
  BY <1>1, <1>2, <1>3, <1>4, <1>5, <1>6, <1>7, <1>8, <1>9, <1>10, <1>11, <1>12
  DEF KernelStep

LEMMA DataProgramsProceed ==
  ASSUME NEW t \in Thread, DataStep(t)
  PROVE  Proceeds(t)
<1>1. CASE program = "merge_sort" /\ (sorting_main(t) \/ parallelMergeSort(t))
  BY <1>1, AwaitProceeds, StepProceeds
  DEF sorting_main, parallelMergeSort, Born, Unborn, End
<1>2. CASE program = "parallel_accumulate" /\ parallel_accumulate(t)
  BY <1>2, AwaitProceeds, StepProceeds
  DEF parallel_accumulate, Born, Spawn, Unborn, End
<1>3. CASE program = "measure_speed" /\ (parallel_sum_(t) \/ measuring_main(t))
  BY <1>3, AwaitProceeds, StepProceeds
  DEF parallel_sum_, measuring_main, Born, End
<1>4. CASE program = "parallel_sum" /\ (parallel_sum(t) \/ partial_sum(t))
  BY <1>4, AwaitProceeds, StepProceeds
  DEF parallel_sum, partial_sum, Born, Unborn, End
<1>5. CASE program = "vector_parallel_sum" /\ (add_parallel(t) \/ quarter(t))
  BY <1>5, AwaitProceeds, StepProceeds
  DEF add_parallel, quarter, Born, End
<1>6. CASE program = "prime_sieve" /\ (parallel_sieve(t) \/ sieve_worker(t))
  BY <1>6, AwaitProceeds, StepProceeds
  DEF parallel_sieve, sieve_worker, Born, End
<1>7. CASE program = "data_race" /\ increment_counter(t)
  BY <1>7, StepProceeds
  DEF increment_counter, End
<1>8. CASE program = "exec_policies" /\ (count_position(t) \/ policies_main(t))
  BY <1>8, AwaitProceeds, StepProceeds
  DEF count_position, policies_main, End
<1>9. CASE program = "basics" /\ (actions_lambda(t) \/ basics_main(t))
  BY <1>9, AwaitProceeds, StepProceeds
  DEF actions_lambda, basics_main, End
<1>10. CASE program = "managing_thread" /\ (managing_main(t) \/ managed_thread(t))
  BY <1>10, StepProceeds
  DEF managing_main, managed_thread, End
<1>11. CASE program = "thread_unroll" /\ apply(t)
  BY <1>11, AwaitProceeds, StepProceeds
  DEF apply, Born, End
<1>12. CASE program = "pi_monteCarlo" /\ pi_region(t)
  BY <1>12, JoinsProceeds, StepProceeds
  DEF pi_region, End
<1>13. CASE program = "thread_join" /\ thread_join(t)
  BY <1>13, JoinsProceeds, StepProceeds
  DEF thread_join, End
<1>14. CASE \/ program = "for_reduction" /\ for_reduction(t)
            \/ program = "reduction" /\ matrix_sum(t)
  BY <1>14, ForReductionProceeds
<1>15. CASE program = "histogram" /\ histogram_region(t)
  BY <1>15, HistogramProceeds
<1>16. CASE \/ program = "matrix_multiplication" /\ multiply_region(t)
            \/ program = "loops" /\ loops(t)
            \/ program = "parallel_region" /\ parallel_region(t)
            \/ program = "unrolling" /\ unrolled(t)
  BY <1>16, LoopsProceed
<1> QED
  BY <1>1, <1>2, <1>3, <1>4, <1>5, <1>6, <1>7, <1>8, <1>9, <1>10, <1>11, <1>12, <1>13, <1>14,
     <1>15, <1>16
  DEF DataStep

\* The lines where the threads of a program start.
StartLines(main) == \A t \in DOMAIN main.starts : main.starts[t] \in Nat

LEMMA LockLines ==
  ASSUME NEW p \in DOMAIN LockMains
  PROVE  StartLines(LockMains[p])
<1>1. CASE p = "abandoned_lock"
  BY <1>1 DEF LockMains, AbandonedLock, Main, StartLines, End
<1>2. CASE p = "scoped_lock_abandoned"
  BY <1>2 DEF LockMains, ScopedLockAbandoned, Main, StartLines, End
<1>3. CASE p = "starvation"
  BY <1>3 DEF LockMains, Starvation, Main, StartLines, End
<1>4. CASE p = "dead_lock_philosophers"
  BY <1>4 DEF LockMains, DeadLockPhilosophers, Main, StartLines, End
<1>5. CASE p = "philosophers_scoped_lock"
  BY <1>5 DEF LockMains, PhilosophersScopedLock, Main, StartLines, End
<1>6. CASE p = "livelock_philosophers"
  BY <1>6 DEF LockMains, LivelockPhilosophers, Main, StartLines, End
<1>7. CASE p = "scoped_lock_dead_lock"
  BY <1>7 DEF LockMains, ScopedLockDeadLock, Main, StartLines, End
<1>8. CASE p = "deadlock_1"
  BY <1>8 DEF LockMains, Deadlock1, Main, StartLines, End
<1>9. CASE p = "deadlock_2"
  BY <1>9 DEF LockMains, Deadlock2, Main, StartLines, End
<1>10. CASE p = "dining_philosophers"
  BY <1>10 DEF LockMains, DiningPhilosophers, Main, StartLines, End
<1>11. CASE p = "try_lock_dining_philosophers"
  BY <1>11 DEF LockMains, TryLockDiningPhilosophers, Main, StartLines, End
<1>12. CASE p = "mutex_example"
  BY <1>12 DEF LockMains, MutexExample, Main, StartLines, End
<1>13. CASE p = "mutex_example_1"
  BY <1>13 DEF LockMains, Shoppers, Main, StartLines, End
<1>14. CASE p = "atomic_example"
  BY <1>14 DEF LockMains, AtomicShoppers, Main, StartLines, End
<1>15. CASE p = "objects"
  BY <1>15 DEF LockMains, Objects, Main, StartLines, End
<1>16. CASE p = "unique_mtx"
  BY <1>16 DEF LockMains, UniqueMutex, Main, StartLines, End
<1>17. CASE p = "unique_mtx2"
  BY <1>17 DEF LockMains, TimedMutex, Main, StartLines, End
<1>18. CASE p = "read_write"
  BY <1>18 DEF LockMains, ReadWrite, Main, StartLines, End
<1>19. CASE p = "recursive_mutex"
  BY <1>19 DEF LockMains, RecursiveMutex, Main, StartLines, End
<1>20. CASE p = "shared_mutex"
  BY <1>20 DEF LockMains, SharedMutex, Main, StartLines, End
<1>21. CASE p = "producer_consumer"
  BY <1>21 DEF LockMains, ProducerConsumer, Main, StartLines, End
<1>22. CASE p = "barrier"
  BY <1>22 DEF LockMains, Barrier, Main, StartLines, End
<1> QED
  BY <1>1, <1>2, <1>3, <1>4, <1>5, <1>6, <1>7, <1>8, <1>9, <1>10, <1>11, <1>12, <1>13, <1>14,
     <1>15, <1>16, <1>17, <1>18, <1>19, <1>20, <1>21, <1>22
  DEF LockMains

LEMMA MonitorLines ==
  ASSUME NEW p \in DOMAIN MonitorMains
  PROVE  StartLines(MonitorMains[p])
<1>1. CASE p = "semaphore"
  BY <1>1 DEF MonitorMains, SemaphoreMain, Main, StartLines, End
<1>2. CASE p = "binary_semaphore"
  BY <1>2 DEF MonitorMains, BinarySemaphore, Main, StartLines, End
<1>3. CASE p = "counter"
  BY <1>3 DEF MonitorMains, CounterMain, Main, StartLines, End
<1>4. CASE p = "str_monitor"
  BY <1>4 DEF MonitorMains, StrMonitor, Main, StartLines, End
<1>5. CASE p = "predicate_coordination"
  BY <1>5 DEF MonitorMains, PredicateMain, Main, StartLines, End
<1>6. CASE p = "condtional_coordination"
  BY <1>6 DEF MonitorMains, NoPredicateMain, Main, StartLines, End
<1>7. CASE p = "navigation"
  BY <1>7 DEF MonitorMains, run_communication, Main, StartLines, End
<1>8. CASE p = "thread_coordination"
  BY <1>8 DEF MonitorMains, ThreadCoordination, Main, StartLines, End
<1>9. CASE p = "coordination"
  BY <1>9 DEF MonitorMains, Restaurants, Main, StartLines, End
<1>10. CASE p = "race_condition_latch"
  BY <1>10 DEF MonitorMains, Latch, Main, StartLines, End
<1>11. CASE p = "cv_soup"
  BY <1>11 DEF MonitorMains, Soup, Main, StartLines, End
<1>12. CASE p = "producer_consumer_queue"
  BY <1>12 DEF MonitorMains, ServerLine, Main, StartLines, End
<1>13. CASE p = "thread_safe_queue"
  BY <1>13 DEF MonitorMains, SafeQueueClients, Main, StartLines, End
<1>14. CASE p = "thread_safe_queue_pop"
  BY <1>14 DEF MonitorMains, SafeQueueWithPop, Main, StartLines, End
<1>15. CASE p = "thread_safe_stack"
  BY <1>15 DEF MonitorMains, SafeStackClients, Main, StartLines, End
<1> QED
  BY <1>1, <1>2, <1>3, <1>4, <1>5, <1>6, <1>7, <1>8, <1>9, <1>10, <1>11, <1>12, <1>13, <1>14,
     <1>15
  DEF MonitorMains

LEMMA EventLines ==
  ASSUME NEW p \in DOMAIN EventMains
  PROVE  StartLines(EventMains[p])
<1>1. CASE p = "lazy_initialization"
  BY <1>1 DEF EventMains, LazyInitialization, Main, StartLines, End
<1>2. CASE p = "call_once"
  BY <1>2 DEF EventMains, CallOnceMain, Main, StartLines, End
<1>3. CASE p = "singleton"
  BY <1>3 DEF EventMains, SingletonMain, Main, StartLines, End
<1>4. CASE p = "double_check"
  BY <1>4 DEF EventMains, DoubleCheck, Main, StartLines, End
<1>5. CASE p = "atomic_double_checked"
  BY <1>5 DEF EventMains, AtomicDoubleChecked, Main, StartLines, End
<1>6. CASE p = "one_shot_event"
  BY <1>6 DEF EventMains, OneShotEvent, Main, StartLines, End
<1>7. CASE p = "one_shot_event_twice"
  BY <1>7 DEF EventMains, OneShotEventTwice, Main, StartLines, End
<1>8. CASE p = "spin_lock"
  BY <1>8 DEF EventMains, SpinLock, Main, StartLines, End
<1>9. CASE p = "atomics_class"
  BY <1>9 DEF EventMains, Swarm, Main, StartLines, End
<1>10. CASE p = "basic_ops"
  BY <1>10 DEF EventMains, BasicOps, Main, StartLines, End
<1>11. CASE p = "basic_counter"
  BY <1>11 DEF EventMains, BasicCounter, Main, StartLines, End
<1>12. CASE p = "counter_pool"
  BY <1>12 DEF EventMains, CounterPool, Main, StartLines, End
<1>13. CASE p = "config_manager"
  BY <1>13 DEF EventMains, ConfigMain, Main, StartLines, End
<1>14. CASE p = "lock_free_stack"
  BY <1>14 DEF EventMains, StackMain, Main, StartLines, End
<1> QED
  BY <1>1, <1>2, <1>3, <1>4, <1>5, <1>6, <1>7, <1>8, <1>9, <1>10, <1>11, <1>12, <1>13, <1>14
  DEF EventMains

LEMMA FutureLines ==
  ASSUME NEW p \in DOMAIN FutureMains
  PROVE  StartLines(FutureMains[p])
<1>1. CASE p = "multiple_waiting_threads"
  BY <1>1 DEF FutureMains, SharedFuture, Main, StartLines, End
<1>2. CASE p = "packet"
  BY <1>2 DEF FutureMains, PacketMain, Main, StartLines, End
<1>3. CASE p = "throwing_producer"
  BY <1>3 DEF FutureMains, ThrowingMain, Main, StartLines, End
<1>4. CASE p = "server_fetching_data"
  BY <1>4 DEF FutureMains, ServerMain, Main, StartLines, End
<1>5. CASE p = "package_task_test"
  BY <1>5 DEF FutureMains, PackageTask, Main, StartLines, End
<1>6. CASE p = "packaged_task"
  BY <1>6 DEF FutureMains, PackagedTask, Main, StartLines, End
<1>7. CASE p = "asynk_task_launch"
  BY <1>7 DEF FutureMains, AsyncTaskLaunch, Main, StartLines, End
<1>8. CASE p = "futures_demo"
  BY <1>8 DEF FutureMains, FuturesDemo, Main, StartLines, End
<1>9. CASE p = "futures_promise"
  BY <1>9 DEF FutureMains, FuturesPromise, Main, StartLines, End
<1>10. CASE p = "promise_exception"
  BY <1>10 DEF FutureMains, SquareRoot, Main, StartLines, End
<1>11. CASE p = "fibonacci"
  BY <1>11 DEF FutureMains, FibonacciMain, Main, StartLines, End
<1>12. CASE p = "concurrent_tasks"
  BY <1>12 DEF FutureMains, ConcurrentTasks, Main, StartLines, End
<1>13. CASE p = "arithmetic"
  BY <1>13 DEF FutureMains, ArithmeticMain, Main, StartLines, End
<1>14. CASE p = "launch_opts"
  BY <1>14 DEF FutureMains, LaunchOptions, Main, StartLines, End
<1>15. CASE p = "countdown"
  BY <1>15 DEF FutureMains, CountdownMain, Main, StartLines, End
<1>16. CASE p = "count_to"
  BY <1>16 DEF FutureMains, CountMain, Main, StartLines, End
<1>17. CASE p = "lazy_evaluation"
  BY <1>17 DEF FutureMains, LazyMain, Main, StartLines, End
<1> QED
  BY <1>1, <1>2, <1>3, <1>4, <1>5, <1>6, <1>7, <1>8, <1>9, <1>10, <1>11, <1>12, <1>13, <1>14,
     <1>15, <1>16, <1>17
  DEF FutureMains

LEMMA SchedulerLines ==
  ASSUME NEW p \in DOMAIN SchedulerMains
  PROVE  StartLines(SchedulerMains[p])
<1>1. CASE p = "jthread_1"
  BY <1>1 DEF SchedulerMains, Scheduler, Main, StartLines, End
<1>2. CASE p = "jthread_2"
  BY <1>2 DEF SchedulerMains, JThreads, Main, StartLines, End
<1> QED
  BY <1>1, <1>2
  DEF SchedulerMains

LEMMA KernelLines ==
  ASSUME NEW p \in DOMAIN KernelMains
  PROVE  StartLines(KernelMains[p])
<1>1. CASE p = "vector_add"
  BY <1>1 DEF KernelMains, VectorAdd, Grid, Main, StartLines, End
<1>2. CASE p = "saxpy"
  BY <1>2 DEF KernelMains, Saxpy, Grid, Main, StartLines, End
<1>3. CASE p = "non_linear_transform"
  BY <1>3 DEF KernelMains, Nonlinear, Grid, Main, StartLines, End
<1>4. CASE p = "convolution_1d"
  BY <1>4 DEF KernelMains, Stencil, Grid, Main, StartLines, End
<1>5. CASE p = "fvm_solver"
  BY <1>5 DEF KernelMains, FvmSolver, Main, StartLines, End
<1>6. CASE p = "parallel_reduction"
  BY <1>6 DEF KernelMains, ParallelReduction, Grid, Main, StartLines, End
<1>7. CASE p = "vec_addition"
  BY <1>7 DEF KernelMains, VecAddition, Grid, Main, StartLines, End
<1>8. CASE p = "block_thread_indexing"
  BY <1>8 DEF KernelMains, BlockThreadIndexing, Grid, Main, StartLines, End
<1>9. CASE p = "double_vec"
  BY <1>9 DEF KernelMains, Solve, Grid, Main, StartLines, End
<1>10. CASE p = "zero_fill"
  BY <1>10 DEF KernelMains, Solve, Grid, Main, StartLines, End
<1>11. CASE p = "invert_rgba"
  BY <1>11 DEF KernelMains, Solve, Grid, Main, StartLines, End
<1>12. CASE p = "tiled_matmul"
  BY <1>12 DEF KernelMains, TiledMatmul, Grid, Main, StartLines, End
<1>13. CASE p = "select"
  BY <1>13 DEF KernelMains, Select, Grid, Main, StartLines, End
<1>14. CASE p = "daxpy"
  BY <1>14 DEF KernelMains, Daxpy, Main, StartLines, End
<1> QED
  BY <1>1, <1>2, <1>3, <1>4, <1>5, <1>6, <1>7, <1>8, <1>9, <1>10, <1>11, <1>12, <1>13, <1>14
  DEF KernelMains

LEMMA DataLines ==
  ASSUME NEW p \in DOMAIN DataMains
  PROVE  StartLines(DataMains[p])
<1>1. CASE p = "merge_sort"
  <2>1. DataMains[p].starts = <<60, 40, 40, 40, 40, 40, 40>>
    BY <1>1 DEF DataMains, MergeSort, Main
  <2> QED
    BY <2>1 DEF StartLines
<1>2. CASE p = "parallel_accumulate"
  BY <1>2 DEF DataMains, ParallelAccumulate, Main, StartLines, End
<1>3. CASE p = "measure_speed"
  BY <1>3 DEF DataMains, MeasureSpeed, Main, StartLines, End
<1>4. CASE p = "parallel_sum"
  BY <1>4 DEF DataMains, ParallelSum, Main, StartLines, End
<1>5. CASE p = "vector_parallel_sum"
  BY <1>5 DEF DataMains, VectorParallelSum, Main, StartLines, End
<1>6. CASE p = "prime_sieve"
  BY <1>6 DEF DataMains, PrimeSieve, Main, StartLines, End
<1>7. CASE p = "data_race"
  BY <1>7 DEF DataMains, DataRace, Main, StartLines, End
<1>8. CASE p = "exec_policies"
  BY <1>8 DEF DataMains, ExecPolicies, Main, StartLines, End
<1>9. CASE p = "basics"
  BY <1>9 DEF DataMains, Basics, Main, StartLines, End
<1>10. CASE p = "managing_thread"
  BY <1>10 DEF DataMains, ManagingThread, Main, StartLines, End
<1>11. CASE p = "thread_unroll"
  BY <1>11 DEF DataMains, ThreadUnroll, Main, StartLines, End
<1>12. CASE p = "for_reduction"
  BY <1>12 DEF DataMains, ForReduction, Region, Main, StartLines, End
<1>13. CASE p = "reduction"
  BY <1>13 DEF DataMains, MatrixSum, Region, Main, StartLines, End
<1>14. CASE p = "histogram"
  BY <1>14 DEF DataMains, Histogram, Region, Main, StartLines, End
<1>15. CASE p = "matrix_multiplication"
  BY <1>15 DEF DataMains, MatrixMultiplication, Region, Main, StartLines, End
<1>16. CASE p = "pi_monteCarlo"
  BY <1>16 DEF DataMains, PiMonteCarlo, Region, Main, StartLines, End
<1>17. CASE p = "loops"
  BY <1>17 DEF DataMains, Loops, Region, Main, StartLines, End
<1>18. CASE p = "parallel_region"
  BY <1>18 DEF DataMains, Loops, Region, Main, StartLines, End
<1>19. CASE p = "unrolling"
  BY <1>19 DEF DataMains, Loops, Region, Main, StartLines, End
<1>20. CASE p = "thread_join"
  BY <1>20 DEF DataMains, ThreadJoin, Region, Main, StartLines, End
<1> QED
  BY <1>1, <1>2, <1>3, <1>4, <1>5, <1>6, <1>7, <1>8, <1>9, <1>10, <1>11, <1>12, <1>13, <1>14,
     <1>15, <1>16, <1>17, <1>18, <1>19, <1>20
  DEF DataMains

\* The threads, mutexes and condition variables keep their types, and no thread ends in its
\* sleep.
MachineTyped ==
    /\ program \in Programs
    /\ \A t \in Thread : pc[t] \in Nat
    /\ \A m \in DOMAIN owner : owner[m] \in Thread \cup {Nobody}
    /\ \A c \in DOMAIN asleep : \A t \in asleep[c] : t \in Thread /\ ~Ended(t)

LEMMA BootTyped ==
  ASSUME NEW Mains, Boots(Mains), \A p \in DOMAIN Mains : StartLines(Mains[p])
  PROVE  MachineTyped
BY DEF Boots, Boot, StartLines, MachineTyped, Thread, Nobody

LEMMA MachineStart == Init => MachineTyped
<1> SUFFICES ASSUME Init PROVE MachineTyped
  OBVIOUS
<1>1. Boots(LockMains) => MachineTyped
  BY LockLines, BootTyped
<1>2. Boots(MonitorMains) => MachineTyped
  BY MonitorLines, BootTyped
<1>3. Boots(EventMains) => MachineTyped
  BY EventLines, BootTyped
<1>4. Boots(FutureMains) => MachineTyped
  BY FutureLines, BootTyped
<1>5. Boots(SchedulerMains) => MachineTyped
  BY SchedulerLines, BootTyped
<1>6. Boots(KernelMains) => MachineTyped
  BY KernelLines, BootTyped
<1>7. Boots(DataMains) => MachineTyped
  BY DataLines, BootTyped
<1> QED
  BY <1>1, <1>2, <1>3, <1>4, <1>5, <1>6, <1>7 DEF Init

LEMMA ThreadProceeds ==
  ASSUME NEW t \in Thread, ThreadStep(t),
         program = "scoped_lock_dead_lock" => mem.f[t] \in Nat
  PROVE  Proceeds(t)
BY LockProgramsProceed, MonitorProgramsProceed, EventProgramsProceed, FutureProgramsProceed,
   SchedulerProgramsProceed, KernelProgramsProceed, DataProgramsProceed, Zenon DEF ThreadStep

LEMMA MachineNext ==
  ASSUME CountInvariant, MachineTyped, [Next]_vars
  PROVE  MachineTyped'
<1>1. CASE UNCHANGED vars
  BY <1>1 DEF vars, machineVars, MachineTyped, Thread, Ended
<1>2. CASE SpuriousWakeup
  BY <1>2 DEF SpuriousWakeup, MachineTyped, Thread, Ended
<1>3. CASE \E t \in Thread : ThreadStep(t)
  <2>1. PICK t \in Thread : ThreadStep(t)
    BY <1>3
  <2>2. program = "scoped_lock_dead_lock" => mem.f[t] \in Nat
    BY DEF CountInvariant, AgentsInv
  <2>3. Proceeds(t)
    BY <2>1, <2>2, ThreadProceeds
  <2>4. t \in Thread' /\ Thread' = Thread /\ \A u \in Thread : pc'[u] \in Nat
    BY <2>3 DEF Proceeds, MachineTyped, Thread
  <2>5. \A m \in DOMAIN owner' : owner'[m] \in Thread' \cup {Nobody}
    BY <2>3, <2>4 DEF Proceeds, MachineTyped
  <2>6. ASSUME NEW c \in DOMAIN asleep', NEW u \in asleep'[c]
        PROVE  u \in Thread' /\ ~Ended(u)'
    <3>1. u \in asleep[c] \cup {t} /\ c \in DOMAIN asleep
      BY <2>3, <2>6 DEF Proceeds
    <3>2. CASE u = t
      BY <2>3, <2>4, <2>6, <3>1, <3>2 DEF Proceeds, Ended
    <3>3. CASE u # t
      BY <2>3, <2>4, <3>1, <3>3 DEF Proceeds, Ended, MachineTyped
    <3> QED
      BY <3>2, <3>3
  <2> QED
    BY <2>3, <2>4, <2>5, <2>6 DEF MachineTyped, Proceeds
<1> QED
  BY <1>1, <1>2, <1>3 DEF Next

-----------------------------------------------------------------------------
\* Bounds. Only the adders, which are half of who is expected, count the latch down. Who has
\* looked at the sushi under the mutex leaves no fewer than none.

CountedDown(t) == IF Ended(t) THEN 1 ELSE 0
LatchInv ==
    /\ Thread = 1 .. 4 /\ DOMAIN mem = {"objects", "checkpoint"}
    /\ pc[1] = 19 /\ pc[3] = 19 /\ pc[2] \in {33, 34, 38, End} /\ pc[4] \in {33, 34, 38, End}
    /\ mem.checkpoint = 4 - CountedDown(2) - CountedDown(4)

SushiPrograms ==
    {"abandoned_lock", "scoped_lock_abandoned", "dead_lock_philosophers",
     "livelock_philosophers"}
SushiBounded == mem = [sushi_count |-> mem.sushi_count] /\ mem.sushi_count \in 0 .. Sushi

BoundsInv ==
    /\ program = "race_condition_latch" => LatchInv
    /\ program \in SushiPrograms => SushiBounded

LEMMA BoundsStart == Init => BoundsInv
<1> SUFFICES ASSUME Init PROVE BoundsInv
  OBVIOUS
<1>0. Sushi \in Nat
  BY LockAssumption
<1>1. CASE Boots(LockMains)
  <2>0. program \in DOMAIN LockMains /\ Boot(program, LockMains[program])
    BY <1>1, BootOf
  <2>1. program # "race_condition_latch"
    BY <2>0 DEF LockMains
  <2>2. program \in SushiPrograms => mem = [sushi_count |-> Sushi]
    BY <2>0 DEF LockMains, SushiPrograms, Boot, Main, AbandonedLock, ScopedLockAbandoned,
         DeadLockPhilosophers, LivelockPhilosophers
  <2> QED
    BY <1>0, <2>1, <2>2 DEF BoundsInv, SushiBounded
<1>2. CASE Boots(MonitorMains)
  <2>0. program \in DOMAIN MonitorMains /\ Boot(program, MonitorMains[program])
    BY <1>2, BootOf
  <2>1. program \notin SushiPrograms
    BY <2>0 DEF MonitorMains, SushiPrograms
  <2>2. program = "race_condition_latch" =>
          pc = <<19, 33, 19, 33>> /\ mem = [objects |-> 1, checkpoint |-> 4]
    BY <2>0 DEF MonitorMains, Boot, Main, Latch
  <2> QED
    BY <2>1, <2>2 DEF BoundsInv, LatchInv, CountedDown, Ended, Thread, End
<1>3. ASSUME \/ Boots(EventMains) \/ Boots(FutureMains) \/ Boots(SchedulerMains)
             \/ Boots(KernelMains) \/ Boots(DataMains)
      PROVE  program \notin SushiPrograms \cup {"race_condition_latch"}
  <2>1. Boots(EventMains) => program \in DOMAIN EventMains
    BY BootOf
  <2>2. Boots(FutureMains) => program \in DOMAIN FutureMains
    BY BootOf
  <2>3. Boots(SchedulerMains) => program \in DOMAIN SchedulerMains
    BY BootOf
  <2>4. Boots(KernelMains) => program \in DOMAIN KernelMains
    BY BootOf
  <2>5. Boots(DataMains) => program \in DOMAIN DataMains
    BY BootOf
  <2> QED
    BY <1>3, <2>1, <2>2, <2>3, <2>4, <2>5
    DEF EventMains, FutureMains, SchedulerMains, KernelMains, DataMains, SushiPrograms
<1> QED
  BY <1>1, <1>2, <1>3 DEF Init, BoundsInv

LEMMA LatchKept ==
  ASSUME LatchInv, NEW t \in Thread, multiplier_1(t) \/ adder_1(t)
  PROVE  LatchInv'
<1>0. t \in 1 .. 4 /\ mem.checkpoint # 0
  BY DEF LatchInv, CountedDown
<1>1. ASSUME NEW from, NEW to \in {33, 34, 38}, pc[t] = from, from # End,
             pc' = [pc EXCEPT ![t] = to], t \in {2, 4}, DOMAIN mem' = DOMAIN mem,
             mem'.checkpoint = mem.checkpoint
      PROVE  LatchInv'
  BY <1>0, <1>1 DEF LatchInv, CountedDown, Ended, Thread, End
<1>2. CASE multiplier_1(t)
  BY <1>0, <1>2 DEF multiplier_1, Await, Lock, LockAll, Unlock, Step, At, LatchInv, End
<1>3. CASE adder_1(t)
  <2>0. t \in {2, 4}
    BY <1>0, <1>3 DEF adder_1, Lock, LockAll, Unlock, Step, At, LatchInv, End
  <2>1. CASE Lock(t, 33, "borrower", 34)
    BY <1>1, <2>0, <2>1 DEF Lock, LockAll, At, Goto, End
  <2>2. CASE Unlock(t, 34, {"borrower"}, [mem EXCEPT !.objects = @ + 3], 38)
    <3>1. /\ pc[t] = 34 /\ pc' = [pc EXCEPT ![t] = 38] /\ DOMAIN mem' = DOMAIN mem
          /\ mem'.checkpoint = mem.checkpoint
      BY <2>2 DEF Unlock, At, Goto, LatchInv
    <3> QED
      BY <1>1, <2>0, <3>1 DEF End
  <2>3. CASE Step(t, 38, [mem EXCEPT !.checkpoint = @ - 1], End)
    <3>1. /\ pc[t] = 38 /\ pc' = [pc EXCEPT ![t] = End] /\ DOMAIN mem' = DOMAIN mem
          /\ mem'.checkpoint = mem.checkpoint - 1
      BY <2>3 DEF Step, At, Goto, LatchInv
    <3> QED
      BY <1>0, <2>0, <3>1 DEF LatchInv, CountedDown, Ended, Thread, End
  <2> QED
    BY <1>3, <2>1, <2>2, <2>3 DEF adder_1
<1> QED
  BY <1>2, <1>3

LEMMA SushiTaken ==
  ASSUME SushiBounded,
         mem' = mem \/ mem' = [mem EXCEPT !.sushi_count = IF @ > 0 THEN @ - 1 ELSE @]
  PROVE  SushiBounded'
<1>0. Sushi \in Nat
  BY LockAssumption
<1>1. CASE mem' = mem
  BY <1>1 DEF SushiBounded
<1>2. CASE mem' = [mem EXCEPT !.sushi_count = IF @ > 0 THEN @ - 1 ELSE @]
  <2>1. PICK s \in 0 .. Sushi : mem = [sushi_count |-> s]
    BY DEF SushiBounded
  <2>2. mem' = [sushi_count |-> IF s > 0 THEN s - 1 ELSE s]
    BY <1>2, <2>1
  <2> QED
    BY <1>0, <2>1, <2>2 DEF SushiBounded
<1> QED
  BY <1>1, <1>2

LEMMA SushiEaten ==
  ASSUME NEW t,
         \/ abandoned_lock(t) \/ scoped_lock_abandoned(t) \/ dead_lock_philosophers(t)
         \/ livelock_philosophers(t)
  PROVE  mem' = mem \/ mem' = [mem EXCEPT !.sushi_count = IF @ > 0 THEN @ - 1 ELSE @]
<1>1. CASE abandoned_lock(t)
  BY <1>1, Zenon DEF abandoned_lock, Test, Lock, LockAll, Unlock, Step
<1>2. CASE scoped_lock_abandoned(t)
  BY <1>2, Zenon DEF scoped_lock_abandoned, Test, Lock, LockAll, Unlock, Step
<1>3. CASE dead_lock_philosophers(t)
  BY <1>3, Zenon DEF dead_lock_philosophers, Test, Lock, LockAll, Unlock, Step
<1>4. CASE livelock_philosophers(t)
  BY <1>4, Zenon DEF livelock_philosophers, Test, Lock, LockAll, TryLock, Unlock, Step
<1> QED
  BY <1>1, <1>2, <1>3, <1>4

LEMMA BoundsStep ==
  ASSUME NEW t, ThreadStep(t)
  PROVE  /\ program = "race_condition_latch" => multiplier_1(t) \/ adder_1(t)
         /\ program \in SushiPrograms =>
              \/ abandoned_lock(t) \/ scoped_lock_abandoned(t) \/ dead_lock_philosophers(t)
              \/ livelock_philosophers(t)
BY DEF ThreadStep, LockStep, MonitorStep, EventStep, FutureStep, SchedulerStep, KernelStep,
       DataStep, SushiPrograms

LEMMA BoundsNext ==
  ASSUME BoundsInv, [Next]_vars, program' = program
  PROVE  BoundsInv'
<1>1. CASE UNCHANGED <<pc, mem>>
  BY <1>1 DEF BoundsInv, LatchInv, SushiBounded, CountedDown, Ended, Thread
<1>2. CASE \E t \in Thread : ThreadStep(t)
  BY <1>2, BoundsStep, LatchKept, SushiEaten, SushiTaken DEF BoundsInv
<1> QED
  BY <1>1, <1>2 DEF Next, SpuriousWakeup, vars, machineVars

\* A mutex belongs to a thread of the program or to nobody, no thread ends in its sleep, and
\* what the code bounds (the permits, the latch, the nested calls of a mutex, the sushi)
\* stays in its bounds, in every program and for every value of the constants.
THEOREM TypesAreKept == Spec => []TypeOK
<1>1. MachineTyped /\ BoundsInv /\ CountInvariant => TypeOK
  <2> SUFFICES ASSUME MachineTyped, BoundsInv, CountInvariant PROVE TypeOK
    OBVIOUS
  <2>0. Sushi \in Nat
    BY LockAssumption
  <2>1. program = "semaphore" => mem.counter \in 0 .. max_counter
    BY DEF CountInvariant, PermitsInv
  <2>2. program = "race_condition_latch" => mem.checkpoint \in 2 .. 4
    BY DEF BoundsInv, LatchInv, CountedDown
  <2>3. program = "recursive_mutex" =>
          mem.depth \in 0 .. 5 /\ (mem.depth > 0 <=> owner["rm"] # Nobody)
    <3>1. ASSUME FactorialInv
          PROVE  mem.depth \in 0 .. 5 /\ (mem.depth > 0 <=> owner["rm"] # Nobody)
      <4>1. CASE owner["rm"] = Nobody
        BY <3>1, <4>1 DEF FactorialInv
      <4>2. CASE owner["rm"] # Nobody
        <5>1. PICK t \in 1 .. 5 : owner["rm"] = t
          BY <3>1, <4>2 DEF FactorialInv, Nobody
        <5> QED
          BY <3>1, <4>2, <5>1 DEF FactorialInv, Arguments, Nobody
      <4> QED
        BY <4>1, <4>2
    <3> QED
      BY <3>1 DEF CountInvariant
  <2>4. program \in SushiPrograms => mem.sushi_count \in 0 .. Sushi
    BY DEF BoundsInv, SushiBounded
  <2>5. program = "starvation" => mem.sushi_count \in 0 .. Sushi
    BY <2>0 DEF CountInvariant, SushiInv
  <2> QED
    BY <2>1, <2>2, <2>3, <2>4, <2>5 DEF TypeOK, MachineTyped, SushiPrograms
<1>2. Init => LockInv /\ CountInvariant /\ MachineTyped /\ BoundsInv
  BY LockStart, CountStart, MachineStart, BoundsStart
<1>3. LockInv /\ CountInvariant /\ MachineTyped /\ BoundsInv /\ [Next]_vars
        => (LockInv /\ CountInvariant /\ MachineTyped /\ BoundsInv)'
  BY LockNext, CountNext, MachineNext, BoundsNext
<1> QED
  BY <1>1, <1>2, <1>3, PTL DEF Spec

-----------------------------------------------------------------------------
\* One item for each element

\* The elements whose items have run in the launch.
Run == {i \in Nat : mem.launched = "yes" /\ i + 2 \in Thread /\ Ended(i + 2)}

\* A buffer that the items fill: it is as `after` where they have run and as `before`
\* elsewhere.
Filled(buffer, run, before, after) ==
    /\ DOMAIN buffer = DOMAIN before
    /\ \A i \in DOMAIN before : buffer[i] = IF i \in run THEN after[i] ELSE before[i]

Once(elements) == [i \in 0 .. Elements |-> IF i \in elements THEN 1 ELSE 0]

\* The host launches from its line `first` and waits at `second`; no item runs before the
\* launch, and none is left after the wait.
GridInv(items, first, second, third, item) ==
    /\ items \in Nat /\ {first, second, third, item} \subseteq Nat \ {End}
    /\ first # second /\ first # third
    /\ Thread = 1 .. items + 1
    /\ pc[1] \in {first, second, third, End}
    /\ mem.launched \in {"no", "yes", "never"}
    /\ mem.launched = "no" <=> pc[1] = first
    /\ mem.launched = "never" => pc[1] = End
    /\ \A t \in 2 .. items + 1 :
          /\ pc[t] \in {item, End}
          /\ Ended(t) => mem.launched # "no"
          /\ mem.launched = "yes" /\ pc[1] \notin {first, second} => Ended(t)

LEMMA FilledAt ==
  ASSUME NEW f, NEW run, NEW before, NEW after, NEW i, Filled(f, run, before, after)
  PROVE  /\ i \in DOMAIN before => Filled([f EXCEPT ![i] = after[i]], run \cup {i}, before, after)
         /\ i \notin DOMAIN before => Filled(f, run \cup {i}, before, after)
         /\ after[i] = before[i] => Filled(f, run \cup {i}, before, after)
BY DEF Filled

\* The first write to an element is the one that counts it.
LEMMA WrittenAt ==
  ASSUME NEW run, NEW E, NEW i \in 0 .. Elements, i \in E, i \notin run,
         Filled(mem.writes, run, Unwritten, Once(E))
  PROVE  Filled([mem.writes EXCEPT ![i] = mem.writes[i] + 1], run \cup {i}, Unwritten, Once(E))
<1>1. DOMAIN Unwritten = 0 .. Elements /\ Unwritten[i] = 0 /\ Once(E)[i] = 1
  BY DEF Unwritten, Once
<1>2. mem.writes[i] + 1 = Once(E)[i]
  BY <1>1 DEF Filled
<1> QED
  BY <1>1, <1>2, FilledAt

LEMMA ItemRuns ==
  ASSUME NEW items, NEW first, NEW second, NEW third, NEW item,
         GridInv(items, first, second, third, item), NEW t \in 2 .. items + 1,
         NEW new, new.launched = mem.launched, Item(t, item, new, End)
  PROVE  /\ GridInv(items, first, second, third, item)'
         /\ pc'[1] = pc[1] /\ mem'.launched = mem.launched
         /\ \/ mem.launched = "never" /\ mem' = mem /\ Run' = Run
            \/ /\ mem.launched = "yes" /\ mem' = new /\ pc[1] = second
               /\ t - 2 \in Nat /\ t - 2 \notin Run /\ Run' = Run \cup {t - 2}
<1>0. items \in Nat /\ t \in Nat /\ t > 1 /\ item # End
  BY DEF GridInv
<1>1. /\ pc[t] = item /\ pc' = [pc EXCEPT ![t] = End]
      /\ \/ mem.launched = "yes" /\ mem' = new
         \/ mem.launched = "never" /\ mem' = mem
  BY DEF Item, Await, Step, At, Goto
<1>2. /\ DOMAIN pc' = DOMAIN pc /\ pc'[t] = End /\ \A u \in DOMAIN pc : u # t => pc'[u] = pc[u]
      /\ Thread' = 1 .. items + 1 /\ Thread = 1 .. items + 1
  BY <1>1 DEF GridInv, Thread
<1>3. mem'.launched = mem.launched /\ pc'[1] = pc[1]
  BY <1>1, <1>2 DEF Thread
<1>4. GridInv(items, first, second, third, item)'
  BY <1>1, <1>2, <1>3 DEF GridInv, Ended, Thread
<1>5. CASE mem.launched = "never"
  BY <1>1, <1>3, <1>4, <1>5 DEF Run
<1>6. CASE mem.launched = "yes"
  <2>1. pc[1] = second
    BY <1>1, <1>6 DEF GridInv, Ended, End
  <2>2. t - 2 \in Nat /\ t - 2 \notin Run
    BY <1>0, <1>1 DEF Run, Ended
  <2>3. Run' = Run \cup {t - 2}
    BY <1>1, <1>2, <1>3, <1>6, <2>2 DEF Run, Ended, Thread
  <2> QED
    BY <1>1, <1>3, <1>4, <1>6, <2>1, <2>2, <2>3
<1> QED
  BY <1>1, <1>5, <1>6

\* What the host does to the grid: it launches, gives up, waits or goes on.
HostStep(first, second, to) ==
    \/ pc[1] = first /\ mem'.launched = "yes" /\ pc' = [pc EXCEPT ![1] = second]
    \/ pc[1] = first /\ mem'.launched = "never" /\ pc' = [pc EXCEPT ![1] = End]
    \/ /\ pc[1] = second /\ mem'.launched = mem.launched /\ pc' = [pc EXCEPT ![1] = to]
       /\ \A u \in Items : Ended(u)
    \/ pc[1] = to /\ mem'.launched = mem.launched /\ pc' = [pc EXCEPT ![1] = End]

LEMMA HostRuns ==
  ASSUME NEW items, NEW first, NEW second, NEW third, NEW item,
         GridInv(items, first, second, third, item),
         NEW to \in {third, End}, to # second, HostStep(first, second, to)
  PROVE  GridInv(items, first, second, third, item)' /\ Run' = Run
<1>0. /\ items \in Nat /\ first # second /\ first # third /\ first # to
      /\ End \notin {first, second, third, item}
  BY DEF GridInv
<1>1. PICK line \in {second, End, to} : pc' = [pc EXCEPT ![1] = line]
  BY DEF HostStep
<1>2. /\ DOMAIN pc' = DOMAIN pc /\ pc'[1] = line /\ \A u \in DOMAIN pc : u # 1 => pc'[u] = pc[u]
      /\ Thread' = 1 .. items + 1 /\ Thread = 1 .. items + 1 /\ Items = 2 .. items + 1
      /\ 1 \in DOMAIN pc
  BY <1>1 DEF GridInv, Thread, Items
<1>3. CASE pc[1] = first
  <2>1. mem.launched = "no" /\ \A t \in 2 .. items + 1 : pc[t] = item
    BY <1>3 DEF GridInv, Ended
  <2>2. mem'.launched \in {"yes", "never"} /\ pc'[1] \in {second, End}
        /\ (mem'.launched = "yes" => pc'[1] = second)
        /\ (mem'.launched = "never" => pc'[1] = End)
    BY <1>0, <1>2, <1>3 DEF HostStep
  <2>3. Run = {}
    BY <2>1 DEF Run
  <2>4. Run' = {}
    BY <1>0, <1>2, <2>1 DEF Run, Ended, Thread
  <2> QED
    BY <1>2, <1>3, <2>1, <2>2, <2>3, <2>4 DEF GridInv, Ended, Thread
<1>4. CASE pc[1] # first
  <2>1. mem'.launched = mem.launched /\ mem.launched # "no"
    BY <1>4 DEF HostStep, GridInv
  <2>2. Run' = Run
    BY <1>0, <1>2, <2>1 DEF Run, Ended, Thread
  <2>3. pc[1] = second => \A t \in 2 .. items + 1 : Ended(t)
    BY <1>2, <1>4 DEF HostStep, GridInv
  <2>4. pc'[1] \in {to, End}
    BY <1>2, <1>4 DEF HostStep
  <2>5. mem.launched = "yes" => \A t \in 2 .. items + 1 : Ended(t)
    BY <1>2, <1>4, <2>1, <2>3 DEF HostStep, GridInv
  <2>6. mem.launched = "never" => pc'[1] = End
    BY <1>2, <1>4 DEF HostStep, GridInv
  <2>7. /\ pc'[1] \in {first, second, third, End} /\ pc'[1] # first
        /\ \A t \in 2 .. items + 1 : pc'[t] = pc[t] /\ pc[t] \in {item, End}
    BY <1>2, <2>4 DEF GridInv, Thread
  <2> QED
    BY <1>2, <2>1, <2>2, <2>5, <2>6, <2>7 DEF GridInv, Ended
<1> QED
  BY <1>3, <1>4

\* What is written of the elements E: each once, and the buffer is on its way from
\* `before` to `after`.
WrittenSoFar(writes, buffer, run, E, before, after) ==
    /\ E \subseteq 0 .. Elements /\ E \subseteq DOMAIN before
    /\ Filled(writes, run, Unwritten, Once(E))
    /\ Filled(buffer, run, before, after)

\* An item writes its own element of E, if it has one, and counts it.
Writes(new, buffer, i, E, before, after, old) ==
    /\ new.launched = mem.launched
    /\ i \in E => new.writes = [mem.writes EXCEPT ![i] = mem.writes[i] + 1]
    /\ i \in E /\ i \notin Run => buffer = [old EXCEPT ![i] = after[i]]
    /\ i \notin E => /\ new.writes = mem.writes /\ buffer = old
                     /\ i \in DOMAIN before => after[i] = before[i]

LEMMA ItemWrites ==
  ASSUME NEW items, NEW first, NEW second, NEW third, NEW item,
         GridInv(items, first, second, third, item), NEW t \in 2 .. items + 1,
         NEW new, Item(t, item, new, End), NEW E, NEW old, NEW buffer, NEW before, NEW after,
         WrittenSoFar(mem.writes, old, Run, E, before, after),
         Writes(new, buffer, t - 2, E, before, after, old)
  PROVE  /\ GridInv(items, first, second, third, item)'
         /\ pc'[1] = pc[1] /\ mem'.launched = mem.launched
         /\ \/ mem.launched = "never" /\ mem' = mem /\ Run' = Run
            \/ /\ mem.launched = "yes" /\ mem' = new /\ pc[1] = second
               /\ WrittenSoFar(new.writes, buffer, Run', E, before, after)
<1> DEFINE i == t - 2
<1>1. /\ GridInv(items, first, second, third, item)'
      /\ pc'[1] = pc[1] /\ mem'.launched = mem.launched
      /\ \/ mem.launched = "never" /\ mem' = mem /\ Run' = Run
         \/ /\ mem.launched = "yes" /\ mem' = new /\ pc[1] = second
            /\ i \in Nat /\ i \notin Run /\ Run' = Run \cup {i}
  BY ItemRuns DEF Writes
<1>0. Writes(new, buffer, i, E, before, after, old)
  OBVIOUS
<1> HIDE DEF i
<1>2. CASE i \in E /\ i \notin Run
  <2>1. i \in 0 .. Elements /\ i \in DOMAIN before
    BY <1>2 DEF WrittenSoFar
  <2>2. Filled(new.writes, Run \cup {i}, Unwritten, Once(E))
    BY <1>0, <1>2, <2>1, WrittenAt DEF Writes, WrittenSoFar
  <2>3. Filled(buffer, Run \cup {i}, before, after)
    <3>1. buffer = [old EXCEPT ![i] = after[i]] /\ Filled(old, Run, before, after)
      BY <1>0, <1>2 DEF Writes, WrittenSoFar
    <3> QED
      BY <2>1, <3>1, FilledAt
  <2> QED
    BY <1>1, <2>2, <2>3 DEF WrittenSoFar
<1>3. CASE i \notin E
  <2>1. i \in DOMAIN Unwritten => Once(E)[i] = Unwritten[i]
    BY <1>3 DEF Once, Unwritten
  <2>2. Filled(new.writes, Run \cup {i}, Unwritten, Once(E))
    BY <1>0, <1>3, <2>1, FilledAt DEF Writes, WrittenSoFar
  <2>3. Filled(buffer, Run \cup {i}, before, after)
    <3>1. CASE i \in DOMAIN before
      BY <1>0, <1>3, <3>1 DEF Writes, WrittenSoFar, Filled
    <3>2. CASE i \notin DOMAIN before
      BY <1>0, <1>3, <3>2 DEF Writes, WrittenSoFar, Filled
    <3> QED
      BY <3>1, <3>2
  <2> QED
    BY <1>1, <2>2, <2>3 DEF WrittenSoFar
<1>4. CASE i \in Run
  BY <1>1, <1>4
<1> QED
  BY <1>2, <1>3, <1>4

\* After the wait every item has run, and the buffer is as it was to be.
LEMMA AllRun ==
  ASSUME NEW items, NEW first, NEW second, NEW third, NEW item,
         GridInv(items, first, second, third, item)
  PROVE  mem.launched = "yes" /\ pc[1] \notin {first, second} => 0 .. items - 1 \subseteq Run
<1>1. SUFFICES ASSUME mem.launched = "yes", pc[1] \notin {first, second}, NEW i \in 0 .. items - 1
               PROVE  i \in Run
  OBVIOUS
<1>2. items \in Nat /\ \A t \in 2 .. items + 1 : Ended(t) /\ t \in Thread
  BY <1>1 DEF GridInv
<1>3. i \in Nat /\ i + 2 \in 2 .. items + 1
  BY <1>2
<1> QED
  BY <1>1, <1>2, <1>3 DEF Run

LEMMA FilledUp ==
  ASSUME NEW buffer, NEW E, NEW before, NEW after, E \subseteq Run,
         WrittenSoFar(mem.writes, buffer, Run, E, before, after)
  PROVE  /\ DOMAIN buffer = DOMAIN before
         /\ \A i \in E : buffer[i] = after[i]
BY DEF WrittenSoFar, Filled

\* What a host has printed before its check.
Silent == ""

\* The elements of a kernel whose items cover the whole buffer.
Indices == 0 .. Elements - 1

\* Vector Addition/main.cpp
Twice == [i \in 0 .. Elements - 1 |-> <<i, 2 * i>>]
VectorAddInv ==
    /\ DOMAIN mem = {"launched", "writes", "C", "read"}
    /\ GridInv(Elements, 28, 58, 58, 2)
    /\ WrittenSoFar(mem.writes, mem.C, Run, Indices, Buffer(Unknown), Twice)
    /\ mem.launched = "yes" /\ Ended(1) => mem.read = mem.C

LEMMA VectorAddKept ==
  ASSUME VectorAddInv, NEW t \in Thread, IF t = 1 THEN vector_add_main(t) ELSE vector_add(t)
  PROVE  VectorAddInv'
<1>0. Elements \in Nat /\ Elements > 1 /\ t \in 1 .. Elements + 1
  BY KernelAssumption DEF VectorAddInv, GridInv
<1>1. CASE t = 1
  <2>1. /\ HostStep(28, 58, End) /\ DOMAIN mem' = DOMAIN mem
        /\ mem'.writes = mem.writes /\ mem'.C = mem.C
        /\ IF pc[1] = 58 THEN mem'.read = mem.C
           ELSE pc[1] = 28 /\ (mem'.launched = "yes" => pc'[1] = 58)
    BY <1>1 DEF vector_add_main, GiveUp, Launch, Finish, Await, Step, At, Goto, HostStep,
         VectorAddInv, Thread
  <2>2. GridInv(Elements, 28, 58, 58, 2)' /\ Run' = Run
    BY <1>0, <2>1, HostRuns DEF VectorAddInv, End
  <2> QED
    BY <2>1, <2>2 DEF VectorAddInv, Ended, End
<1>2. CASE t # 1
  <2> DEFINE i == t - 2
             made == [Write(mem, i) EXCEPT !.C[i] = <<i, 2 * i>>]
             new == IF i < Elements THEN made ELSE mem
  <2>0. i \in 0 .. Elements - 1 /\ t \in 2 .. Elements + 1
    BY <1>0, <1>2
  <2>1. Item(t, 2, new, End)
    BY <1>2 DEF vector_add, global_id
  <2>2. /\ made.launched = mem.launched /\ DOMAIN made = DOMAIN mem
        /\ made.read = mem.read
        /\ i \in Indices => /\ made.writes = [mem.writes EXCEPT ![i] = mem.writes[i] + 1]
                            /\ i \notin Run => made.C = [mem.C EXCEPT ![i] = Twice[i]]
    BY <1>0, <2>0 DEF VectorAddInv, Indices, Write, Twice
  <2>3. i \notin Indices =>
         /\ new = mem
         /\ i \in DOMAIN Buffer(Unknown) => Twice[i] = Buffer(Unknown)[i]
    BY <1>0, <2>0 DEF Indices, Buffer, Twice
  <2>4. i \in Indices => new = made
    BY <1>0, <2>0 DEF Indices
  <2> HIDE DEF made, new
  <2>5. Writes(new, new.C, i, Indices, Buffer(Unknown), Twice, mem.C)
    <3> HIDE DEF i
    <3>1. CASE i \in Indices
      <4>1. /\ new.launched = mem.launched
            /\ new.writes = [mem.writes EXCEPT ![i] = mem.writes[i] + 1]
            /\ i \notin Run => new.C = [mem.C EXCEPT ![i] = Twice[i]]
        BY <2>2, <2>4, <3>1
      <4> QED
        BY <3>1, <4>1 DEF Writes
    <3>2. CASE i \notin Indices
      <4>1. new.launched = mem.launched /\ new.writes = mem.writes /\ new.C = mem.C
        BY <2>3, <3>2
      <4>2. i \in DOMAIN Buffer(Unknown) => Twice[i] = Buffer(Unknown)[i]
        BY <2>3, <3>2
      <4> QED
        BY <3>2, <4>1, <4>2 DEF Writes
    <3> QED
      BY <3>1, <3>2
  <2>6. /\ GridInv(Elements, 28, 58, 58, 2)' /\ pc'[1] = pc[1]
        /\ mem'.launched = mem.launched
        /\ \/ mem.launched = "never" /\ mem' = mem /\ Run' = Run
           \/ /\ mem.launched = "yes" /\ mem' = new /\ pc[1] = 58
              /\ WrittenSoFar(new.writes, new.C, Run', Indices, Buffer(Unknown), Twice)
    BY <2>0, <2>1, <2>5, ItemWrites DEF VectorAddInv
  <2>7. CASE mem' = mem /\ Run' = Run
    BY <2>6, <2>7 DEF VectorAddInv, Ended
  <2>8. CASE mem' = new /\ pc[1] = 58
    BY <2>2, <2>3, <2>4, <2>6, <2>8 DEF VectorAddInv, Ended, End
  <2> QED
    BY <2>6, <2>7, <2>8
<1> QED
  BY <1>1, <1>2

\* saxpy_kernel.cpp
Scaled == Buffer(alpha + 3)
SaxpyInv ==
    /\ DOMAIN mem = {"launched", "writes", "y", "read", "printed"}
    /\ GridInv(Elements, 12, 66, 72, 32)
    /\ WrittenSoFar(mem.writes, mem.y, Run, Indices, Buffer(3), Scaled)
    /\ pc[1] = 72 => mem.read = mem.y
    /\ mem.launched = "yes" /\ Ended(1) => mem.printed = "correct"
    /\ mem.launched # "yes" \/ ~Ended(1) => mem.printed = Silent

LEMMA SaxpyKept ==
  ASSUME SaxpyInv, NEW t \in Thread, IF t = 1 THEN saxpy_main(t) ELSE saxpy(t)
  PROVE  SaxpyInv'
<1>0. Elements \in Nat /\ Elements > 1 /\ t \in 1 .. Elements + 1
  BY KernelAssumption DEF SaxpyInv, GridInv
<1>1. CASE t = 1
  <2>0. pc[1] = 72 => mem.printed = Silent /\ \A i \in DOMAIN mem.read : mem.read[i] = alpha + 3
    <3>1. SUFFICES ASSUME pc[1] = 72
                   PROVE  mem.printed = Silent /\ \A i \in DOMAIN mem.read : mem.read[i] = alpha + 3
      OBVIOUS
    <3>2. mem.launched = "yes" /\ mem.read = mem.y /\ ~Ended(1)
      BY <3>1 DEF SaxpyInv, GridInv, Ended, End
    <3>3. /\ pc[1] \notin {12, 66} /\ GridInv(Elements, 12, 66, 72, 32)
          /\ WrittenSoFar(mem.writes, mem.y, Run, Indices, Buffer(3), Scaled)
      BY <3>1 DEF SaxpyInv
    <3>4. 0 .. Elements - 1 \subseteq Run
      BY <3>2, <3>3, AllRun
    <3>5. Indices \subseteq Run
      BY <1>0, <3>4 DEF Indices
    <3>6. /\ DOMAIN mem.y = DOMAIN Buffer(3)
          /\ \A i \in Indices : mem.y[i] = Scaled[i]
      BY <3>3, <3>5, FilledUp
    <3>7. \A i \in Indices : Scaled[i] = alpha + 3
      BY <1>0 DEF Indices, Scaled, Buffer
    <3> QED
      BY <3>2, <3>6, <3>7 DEF SaxpyInv, Indices, Buffer
  <2>1. /\ HostStep(12, 66, 72) /\ DOMAIN mem' = DOMAIN mem
        /\ mem'.writes = mem.writes /\ mem'.y = mem.y
        /\ pc[1] # 72 => mem'.printed = mem.printed
        /\ pc[1] = 72 => /\ mem'.printed = "correct" /\ pc'[1] = End
                         /\ mem'.launched = mem.launched
        /\ pc[1] = 66 => mem'.read = mem.y /\ pc'[1] = 72
        /\ pc[1] \in {12, 66, 72}
        /\ pc[1] = 12 => pc'[1] \in {66, End} /\ (mem'.launched = "yes" => pc'[1] = 66)
    BY <2>0, <1>1 DEF saxpy_main, GiveUp, Report, Launch, Finish, Await, Step, At, Goto, HostStep,
         SaxpyInv, Thread
  <2>2. GridInv(Elements, 12, 66, 72, 32)' /\ Run' = Run
    BY <1>0, <2>1, HostRuns DEF SaxpyInv, End
  <2> QED
    BY <2>0, <2>1, <2>2 DEF SaxpyInv, Ended, End, GridInv
<1>2. CASE t # 1
  <2> DEFINE i == t - 2
             made == [Write(mem, i) EXCEPT !.y[i] = alpha * 1 + @]
             new == IF i < Elements THEN made ELSE mem
  <2>0. i \in 0 .. Elements - 1 /\ t \in 2 .. Elements + 1
    BY <1>0, <1>2
  <2>1. Item(t, 32, new, End)
    BY <1>2 DEF saxpy, global_id, alpha
  <2>2. /\ made.launched = mem.launched /\ DOMAIN made = DOMAIN mem
        /\ made.read = mem.read /\ made.printed = mem.printed
        /\ i \in Indices => /\ made.writes = [mem.writes EXCEPT ![i] = mem.writes[i] + 1]
                            /\ i \notin Run => made.y = [mem.y EXCEPT ![i] = Scaled[i]]
    BY <1>0, <2>0 DEF SaxpyInv, Indices, Write, WrittenSoFar, Filled, Buffer, Scaled, alpha
  <2>3. i \notin Indices => new = mem /\ (i \in DOMAIN Buffer(3) => Scaled[i] = Buffer(3)[i])
    BY <1>0, <2>0 DEF Indices, Buffer, Scaled
  <2>4. i \in Indices => new = made
    BY <1>0, <2>0 DEF Indices
  <2> HIDE DEF made, new
  <2>5. Writes(new, new.y, i, Indices, Buffer(3), Scaled, mem.y)
    <3> HIDE DEF i
    <3>1. CASE i \in Indices
      <4>1. /\ new.launched = mem.launched
            /\ new.writes = [mem.writes EXCEPT ![i] = mem.writes[i] + 1]
            /\ i \notin Run => new.y = [mem.y EXCEPT ![i] = Scaled[i]]
        BY <2>2, <2>4, <3>1
      <4> QED
        BY <3>1, <4>1 DEF Writes
    <3>2. CASE i \notin Indices
      <4>1. new.launched = mem.launched /\ new.writes = mem.writes /\ new.y = mem.y
        BY <2>3, <3>2
      <4>2. i \in DOMAIN Buffer(3) => Scaled[i] = Buffer(3)[i]
        BY <2>3, <3>2
      <4> QED
        BY <3>2, <4>1, <4>2 DEF Writes
    <3> QED
      BY <3>1, <3>2
  <2>6. /\ GridInv(Elements, 12, 66, 72, 32)' /\ pc'[1] = pc[1]
        /\ mem'.launched = mem.launched
        /\ \/ mem.launched = "never" /\ mem' = mem /\ Run' = Run
           \/ /\ mem.launched = "yes" /\ mem' = new /\ pc[1] = 66
              /\ WrittenSoFar(new.writes, new.y, Run', Indices, Buffer(3), Scaled)
    BY <2>0, <2>1, <2>5, ItemWrites DEF SaxpyInv
  <2>7. CASE mem' = mem /\ Run' = Run
    BY <2>6, <2>7 DEF SaxpyInv, Ended
  <2>8. CASE mem' = new /\ pc[1] = 66
    BY <2>2, <2>3, <2>4, <2>6, <2>8 DEF SaxpyInv, Ended, End
  <2> QED
    BY <2>6, <2>7, <2>8
<1> QED
  BY <1>1, <1>2

\* non_linear_transform.cpp
Transformed == [i \in 0 .. Elements - 1 |-> <<"sin+log", i>>]
NonlinearInv ==
    /\ DOMAIN mem = {"launched", "writes", "y", "read", "printed"}
    /\ GridInv(Elements, 14, 69, 74, 33)
    /\ WrittenSoFar(mem.writes, mem.y, Run, Indices, Buffer(Unknown), Transformed)
    /\ pc[1] = 74 => mem.read = mem.y
    /\ mem.launched = "yes" /\ Ended(1) => mem.printed = "correct"
    /\ mem.launched # "yes" \/ ~Ended(1) => mem.printed = Silent

LEMMA NonlinearKept ==
  ASSUME NonlinearInv, NEW t \in Thread, IF t = 1 THEN nonlinear_main(t) ELSE nonlinear(t)
  PROVE  NonlinearInv'
<1>0. Elements \in Nat /\ Elements > 1 /\ t \in 1 .. Elements + 1
  BY KernelAssumption DEF NonlinearInv, GridInv
<1>1. CASE t = 1
  <2>0. pc[1] = 74 =>
         /\ mem.printed = Silent
         /\ \A i \in DOMAIN mem.read : mem.read[i] = <<"sin+log", i>>
    <3>1. SUFFICES ASSUME pc[1] = 74
                   PROVE  /\ mem.printed = Silent
                          /\ \A i \in DOMAIN mem.read : mem.read[i] = <<"sin+log", i>>
      OBVIOUS
    <3>2. mem.launched = "yes" /\ mem.read = mem.y /\ ~Ended(1)
      BY <3>1 DEF NonlinearInv, GridInv, Ended, End
    <3>3. /\ pc[1] \notin {14, 69} /\ GridInv(Elements, 14, 69, 74, 33)
          /\ WrittenSoFar(mem.writes, mem.y, Run, Indices, Buffer(Unknown), Transformed)
      BY <3>1 DEF NonlinearInv
    <3>4. 0 .. Elements - 1 \subseteq Run
      BY <3>2, <3>3, AllRun
    <3>5. Indices \subseteq Run
      BY <1>0, <3>4 DEF Indices
    <3>6. /\ DOMAIN mem.y = DOMAIN Buffer(Unknown)
          /\ \A i \in Indices : mem.y[i] = Transformed[i]
      BY <3>3, <3>5, FilledUp
    <3>7. \A i \in Indices : Transformed[i] = <<"sin+log", i>>
      BY <1>0 DEF Indices, Transformed, Buffer
    <3> QED
      BY <3>2, <3>6, <3>7 DEF NonlinearInv, Indices, Buffer
  <2>1. /\ HostStep(14, 69, 74) /\ DOMAIN mem' = DOMAIN mem
        /\ mem'.writes = mem.writes /\ mem'.y = mem.y
        /\ pc[1] # 74 => mem'.printed = mem.printed
        /\ pc[1] = 74 => /\ mem'.printed = "correct" /\ pc'[1] = End
                         /\ mem'.launched = mem.launched
        /\ pc[1] = 69 => mem'.read = mem.y /\ pc'[1] = 74
        /\ pc[1] \in {14, 69, 74}
        /\ pc[1] = 14 => pc'[1] \in {69, End} /\ (mem'.launched = "yes" => pc'[1] = 69)
    BY <2>0, <1>1 DEF nonlinear_main, GiveUp, Report, Launch, Finish, Await, Step, At, Goto,
       HostStep,
         NonlinearInv, Thread
  <2>2. GridInv(Elements, 14, 69, 74, 33)' /\ Run' = Run
    BY <1>0, <2>1, HostRuns DEF NonlinearInv, End
  <2> QED
    BY <2>0, <2>1, <2>2 DEF NonlinearInv, Ended, End, GridInv
<1>2. CASE t # 1
  <2> DEFINE i == t - 2
             made == [Write(mem, i) EXCEPT !.y[i] = <<"sin+log", i>>]
             new == IF i < Elements THEN made ELSE mem
  <2>0. i \in 0 .. Elements - 1 /\ t \in 2 .. Elements + 1
    BY <1>0, <1>2
  <2>1. Item(t, 33, new, End)
    BY <1>2 DEF nonlinear, global_id
  <2>2. /\ made.launched = mem.launched /\ DOMAIN made = DOMAIN mem
        /\ made.read = mem.read /\ made.printed = mem.printed
        /\ i \in Indices => /\ made.writes = [mem.writes EXCEPT ![i] = mem.writes[i] + 1]
                            /\ i \notin Run => made.y = [mem.y EXCEPT ![i] = Transformed[i]]
    BY <1>0, <2>0 DEF NonlinearInv, Indices, Write, Transformed
  <2>3. i \notin Indices =>
         /\ new = mem
         /\ i \in DOMAIN Buffer(Unknown) => Transformed[i] = Buffer(Unknown)[i]
    BY <1>0, <2>0 DEF Indices, Buffer, Transformed
  <2>4. i \in Indices => new = made
    BY <1>0, <2>0 DEF Indices
  <2> HIDE DEF made, new
  <2>5. Writes(new, new.y, i, Indices, Buffer(Unknown), Transformed, mem.y)
    <3> HIDE DEF i
    <3>1. CASE i \in Indices
      <4>1. /\ new.launched = mem.launched
            /\ new.writes = [mem.writes EXCEPT ![i] = mem.writes[i] + 1]
            /\ i \notin Run => new.y = [mem.y EXCEPT ![i] = Transformed[i]]
        BY <2>2, <2>4, <3>1
      <4> QED
        BY <3>1, <4>1 DEF Writes
    <3>2. CASE i \notin Indices
      <4>1. new.launched = mem.launched /\ new.writes = mem.writes /\ new.y = mem.y
        BY <2>3, <3>2
      <4>2. i \in DOMAIN Buffer(Unknown) => Transformed[i] = Buffer(Unknown)[i]
        BY <2>3, <3>2
      <4> QED
        BY <3>2, <4>1, <4>2 DEF Writes
    <3> QED
      BY <3>1, <3>2
  <2>6. /\ GridInv(Elements, 14, 69, 74, 33)' /\ pc'[1] = pc[1]
        /\ mem'.launched = mem.launched
        /\ \/ mem.launched = "never" /\ mem' = mem /\ Run' = Run
           \/ /\ mem.launched = "yes" /\ mem' = new /\ pc[1] = 69
              /\ WrittenSoFar(new.writes, new.y, Run', Indices, Buffer(Unknown), Transformed)
    BY <2>0, <2>1, <2>5, ItemWrites DEF NonlinearInv
  <2>7. CASE mem' = mem /\ Run' = Run
    BY <2>6, <2>7 DEF NonlinearInv, Ended
  <2>8. CASE mem' = new /\ pc[1] = 69
    BY <2>2, <2>3, <2>4, <2>6, <2>8 DEF NonlinearInv, Ended, End
  <2> QED
    BY <2>6, <2>7, <2>8
<1> QED
  BY <1>1, <1>2

\* convolution_1d.cpp: the elements that are not at an end
Inside == 1 .. Elements - 2
Smoothed ==
    [i \in 0 .. Elements - 1 |-> IF i \in Inside THEN <<1, 2, 1>> ELSE Unknown]
StencilInv ==
    /\ DOMAIN mem = {"launched", "writes", "y", "read", "printed"}
    /\ GridInv(Elements, 12, 63, 68, 31)
    /\ WrittenSoFar(mem.writes, mem.y, Run, Inside, Buffer(Unknown), Smoothed)
    /\ pc[1] = 68 => mem.read = mem.y
    /\ mem.launched = "yes" /\ Ended(1) => mem.printed = "correct"
    /\ mem.launched # "yes" \/ ~Ended(1) => mem.printed = Silent

LEMMA StencilKept ==
  ASSUME StencilInv, NEW t \in Thread, IF t = 1 THEN stencil_main(t) ELSE stencil1d(t)
  PROVE  StencilInv'
<1>0. Elements \in Nat /\ Elements > 1 /\ t \in 1 .. Elements + 1
  BY KernelAssumption DEF StencilInv, GridInv
<1>1. CASE t = 1
  <2>0. pc[1] = 68 => mem.printed = Silent /\ \A i \in 1 .. Elements - 2 : mem.read[i] = <<1, 2, 1>>
    <3>1. SUFFICES ASSUME pc[1] = 68
                   PROVE  /\ mem.printed = Silent
                          /\ \A i \in 1 .. Elements - 2 : mem.read[i] = <<1, 2, 1>>
      OBVIOUS
    <3>2. mem.launched = "yes" /\ mem.read = mem.y /\ ~Ended(1)
      BY <3>1 DEF StencilInv, GridInv, Ended, End
    <3>3. /\ pc[1] \notin {12, 63} /\ GridInv(Elements, 12, 63, 68, 31)
          /\ WrittenSoFar(mem.writes, mem.y, Run, Inside, Buffer(Unknown), Smoothed)
      BY <3>1 DEF StencilInv
    <3>4. 0 .. Elements - 1 \subseteq Run
      BY <3>2, <3>3, AllRun
    <3>5. Inside \subseteq Run
      BY <1>0, <3>4 DEF Inside
    <3>6. /\ DOMAIN mem.y = DOMAIN Buffer(Unknown)
          /\ \A i \in Inside : mem.y[i] = Smoothed[i]
      BY <3>3, <3>5, FilledUp
    <3>7. \A i \in Inside : Smoothed[i] = <<1, 2, 1>>
      BY <1>0 DEF Inside, Smoothed, Buffer
    <3> QED
      BY <3>2, <3>6, <3>7 DEF StencilInv, Inside, Buffer
  <2>1. /\ HostStep(12, 63, 68) /\ DOMAIN mem' = DOMAIN mem
        /\ mem'.writes = mem.writes /\ mem'.y = mem.y
        /\ pc[1] # 68 => mem'.printed = mem.printed
        /\ pc[1] = 68 => /\ mem'.printed = "correct" /\ pc'[1] = End
                         /\ mem'.launched = mem.launched
        /\ pc[1] = 63 => mem'.read = mem.y /\ pc'[1] = 68
        /\ pc[1] \in {12, 63, 68}
        /\ pc[1] = 12 => pc'[1] \in {63, End} /\ (mem'.launched = "yes" => pc'[1] = 63)
    BY <2>0, <1>1 DEF stencil_main, GiveUp, Report, Launch, Finish, Await, Step, At, Goto, HostStep,
         StencilInv, Thread
  <2>2. GridInv(Elements, 12, 63, 68, 31)' /\ Run' = Run
    BY <1>0, <2>1, HostRuns DEF StencilInv, End
  <2> QED
    BY <2>0, <2>1, <2>2 DEF StencilInv, Ended, End, GridInv
<1>2. CASE t # 1
  <2> DEFINE i == t - 2
             made == [Write(mem, i) EXCEPT !.y[i] = <<1, 2, 1>>]
             new == IF i > 0 /\ i < Elements - 1 THEN made ELSE mem
  <2>0. i \in 0 .. Elements - 1 /\ t \in 2 .. Elements + 1
    BY <1>0, <1>2
  <2>1. Item(t, 31, new, End)
    BY <1>2 DEF stencil1d, global_id
  <2>2. /\ made.launched = mem.launched /\ DOMAIN made = DOMAIN mem
        /\ made.read = mem.read /\ made.printed = mem.printed
        /\ i \in Inside => /\ made.writes = [mem.writes EXCEPT ![i] = mem.writes[i] + 1]
                           /\ i \notin Run => made.y = [mem.y EXCEPT ![i] = Smoothed[i]]
    BY <1>0, <2>0 DEF StencilInv, Inside, Write, Smoothed
  <2>3. i \notin Inside =>
         /\ new = mem
         /\ i \in DOMAIN Buffer(Unknown) => Smoothed[i] = Buffer(Unknown)[i]
    BY <1>0, <2>0 DEF Inside, Buffer, Smoothed
  <2>4. i \in Inside => new = made
    BY <1>0, <2>0 DEF Inside
  <2> HIDE DEF made, new
  <2>5. Writes(new, new.y, i, Inside, Buffer(Unknown), Smoothed, mem.y)
    <3> HIDE DEF i
    <3>1. CASE i \in Inside
      <4>1. /\ new.launched = mem.launched
            /\ new.writes = [mem.writes EXCEPT ![i] = mem.writes[i] + 1]
            /\ i \notin Run => new.y = [mem.y EXCEPT ![i] = Smoothed[i]]
        BY <2>2, <2>4, <3>1
      <4> QED
        BY <3>1, <4>1 DEF Writes
    <3>2. CASE i \notin Inside
      <4>1. new.launched = mem.launched /\ new.writes = mem.writes /\ new.y = mem.y
        BY <2>3, <3>2
      <4>2. i \in DOMAIN Buffer(Unknown) => Smoothed[i] = Buffer(Unknown)[i]
        BY <2>3, <3>2
      <4> QED
        BY <3>2, <4>1, <4>2 DEF Writes
    <3> QED
      BY <3>1, <3>2
  <2>6. /\ GridInv(Elements, 12, 63, 68, 31)' /\ pc'[1] = pc[1]
        /\ mem'.launched = mem.launched
        /\ \/ mem.launched = "never" /\ mem' = mem /\ Run' = Run
           \/ /\ mem.launched = "yes" /\ mem' = new /\ pc[1] = 63
              /\ WrittenSoFar(new.writes, new.y, Run', Inside, Buffer(Unknown), Smoothed)
    BY <2>0, <2>1, <2>5, ItemWrites DEF StencilInv
  <2>7. CASE mem' = mem /\ Run' = Run
    BY <2>6, <2>7 DEF StencilInv, Ended
  <2>8. CASE mem' = new /\ pc[1] = 63
    BY <2>2, <2>3, <2>4, <2>6, <2>8 DEF StencilInv, Ended, End
  <2> QED
    BY <2>6, <2>7, <2>8
<1> QED
  BY <1>1, <1>2

\* vec_addition.cu
Countdowns == [i \in 0 .. Elements - 1 |-> <<i, Elements - i>>]
VecAdditionInv ==
    /\ DOMAIN mem = {"launched", "writes", "C", "read"}
    /\ GridInv(Elements, 38, 41, 41, 8)
    /\ WrittenSoFar(mem.writes, mem.C, Run, Indices, Buffer(Unknown), Countdowns)
    /\ mem.launched # "never"
    /\ mem.launched = "yes" /\ Ended(1) => mem.read = mem.C

LEMMA VecAdditionKept ==
  ASSUME VecAdditionInv, NEW t \in Thread,
         IF t = 1 THEN vec_addition_main(t) ELSE cuda_vector_add(t)
  PROVE  VecAdditionInv'
<1>0. Elements \in Nat /\ Elements > 1 /\ t \in 1 .. Elements + 1
  BY KernelAssumption DEF VecAdditionInv, GridInv
<1>1. CASE t = 1
  <2>1. /\ HostStep(38, 41, End) /\ DOMAIN mem' = DOMAIN mem
        /\ mem'.writes = mem.writes /\ mem'.C = mem.C
        /\ mem'.launched # "never"
        /\ IF pc[1] = 41 THEN mem'.read = mem.C
           ELSE pc[1] = 38 /\ (mem'.launched = "yes" => pc'[1] = 41)
    BY <1>1 DEF vec_addition_main, Launch, Finish, Await, Step, At, Goto, HostStep,
         VecAdditionInv, Thread
  <2>2. GridInv(Elements, 38, 41, 41, 8)' /\ Run' = Run
    BY <1>0, <2>1, HostRuns DEF VecAdditionInv, End
  <2> QED
    BY <2>1, <2>2 DEF VecAdditionInv, Ended, End
<1>2. CASE t # 1
  <2> DEFINE i == t - 2
             made == [Write(mem, i) EXCEPT !.C[i] = <<i, Elements - i>>]
             new == made
  <2>0. i \in 0 .. Elements - 1 /\ t \in 2 .. Elements + 1
    BY <1>0, <1>2
  <2>1. Item(t, 8, new, End)
    BY <1>2 DEF cuda_vector_add, global_id
  <2>2. /\ made.launched = mem.launched /\ DOMAIN made = DOMAIN mem
        /\ made.read = mem.read
        /\ i \in Indices => /\ made.writes = [mem.writes EXCEPT ![i] = mem.writes[i] + 1]
                            /\ i \notin Run => made.C = [mem.C EXCEPT ![i] = Countdowns[i]]
    BY <1>0, <2>0 DEF VecAdditionInv, Indices, Write, Countdowns
  <2>3. i \notin Indices =>
         /\ new = mem
         /\ i \in DOMAIN Buffer(Unknown) => Countdowns[i] = Buffer(Unknown)[i]
    BY <1>0, <2>0 DEF Indices, Buffer, Countdowns
  <2>4. i \in Indices => new = made
    BY <1>0, <2>0 DEF Indices
  <2> HIDE DEF made, new
  <2>5. Writes(new, new.C, i, Indices, Buffer(Unknown), Countdowns, mem.C)
    <3> HIDE DEF i
    <3>1. CASE i \in Indices
      <4>1. /\ new.launched = mem.launched
            /\ new.writes = [mem.writes EXCEPT ![i] = mem.writes[i] + 1]
            /\ i \notin Run => new.C = [mem.C EXCEPT ![i] = Countdowns[i]]
        BY <2>2, <2>4, <3>1
      <4> QED
        BY <3>1, <4>1 DEF Writes
    <3>2. CASE i \notin Indices
      <4>1. new.launched = mem.launched /\ new.writes = mem.writes /\ new.C = mem.C
        BY <2>3, <3>2
      <4>2. i \in DOMAIN Buffer(Unknown) => Countdowns[i] = Buffer(Unknown)[i]
        BY <2>3, <3>2
      <4> QED
        BY <3>2, <4>1, <4>2 DEF Writes
    <3> QED
      BY <3>1, <3>2
  <2>6. /\ GridInv(Elements, 38, 41, 41, 8)' /\ pc'[1] = pc[1]
        /\ mem'.launched = mem.launched
        /\ \/ mem.launched = "never" /\ mem' = mem /\ Run' = Run
           \/ /\ mem.launched = "yes" /\ mem' = new /\ pc[1] = 41
              /\ WrittenSoFar(new.writes, new.C, Run', Indices, Buffer(Unknown), Countdowns)
    BY <2>0, <2>1, <2>5, ItemWrites DEF VecAdditionInv
  <2>7. CASE mem' = mem /\ Run' = Run
    BY <2>6, <2>7 DEF VecAdditionInv, Ended
  <2>8. CASE mem' = new /\ pc[1] = 41
    BY <2>2, <2>3, <2>4, <2>6, <2>8 DEF VecAdditionInv, Ended, End
  <2> QED
    BY <2>6, <2>7, <2>8
<1> QED
  BY <1>1, <1>2

Numbered == [i \in 0 .. Elements - 1 |-> i + 1]

\* double_vec.cu
Twofold == [i \in 0 .. Elements - 1 |-> 2 * (i + 1)]
DoubleInv ==
    /\ DOMAIN mem = {"launched", "writes", "data"}
    /\ GridInv(blocks * BlockSize, 12, 13, 13, 4)
    /\ WrittenSoFar(mem.writes, mem.data, Run, Indices, Numbered, Twofold)
    /\ mem.launched # "never"

LEMMA DoubleKept ==
  ASSUME DoubleInv, NEW t \in Thread, IF t = 1 THEN double_solve(t) ELSE double_kernel(t)
  PROVE  DoubleInv'
<1>0. Elements \in Nat /\ Elements > 1 /\ t \in 1 .. blocks * BlockSize + 1
  BY KernelAssumption DEF DoubleInv, GridInv
<1>e. blocks * BlockSize \in Nat /\ blocks * BlockSize >= Elements
  BY <1>0 DEF blocks, BlockSize
<1>1. CASE t = 1
  <2>1. /\ HostStep(12, 13, End) /\ DOMAIN mem' = DOMAIN mem
        /\ mem'.writes = mem.writes /\ mem'.data = mem.data
        /\ mem'.launched # "never"
    BY <1>0, <1>1 DEF double_solve, solve, Launch, Finish, Await, Step, At, Goto, HostStep,
         DoubleInv, Thread
  <2>2. GridInv(blocks * BlockSize, 12, 13, 13, 4)' /\ Run' = Run
    BY <1>0, <2>1, HostRuns DEF DoubleInv, End
  <2> QED
    BY <2>1, <2>2 DEF DoubleInv, Ended, End
<1>2. CASE t # 1
  <2> DEFINE i == t - 2
             made == [Write(mem, i) EXCEPT !.data[i] = 2 * mem.data[i]]
             new == IF i < Elements THEN made ELSE mem
  <2>0. i \in 0 .. blocks * BlockSize - 1 /\ t \in 2 .. blocks * BlockSize + 1
    BY <1>0, <1>2, <1>e
  <2>1. Item(t, 4, new, End)
    BY <1>2 DEF double_kernel, global_id, Kernel
  <2>2. /\ made.launched = mem.launched /\ DOMAIN made = DOMAIN mem
        /\ i \in Indices => /\ made.writes = [mem.writes EXCEPT ![i] = mem.writes[i] + 1]
                            /\ i \notin Run => made.data = [mem.data EXCEPT ![i] = Twofold[i]]
    BY <1>0, <2>0 DEF DoubleInv, Indices, Write, WrittenSoFar, Filled, Buffer, Twofold, Numbered
  <2>3. i \notin Indices => new = mem /\ (i \in DOMAIN Numbered => Twofold[i] = Numbered[i])
    BY <1>0, <2>0 DEF Indices, Buffer, Twofold, Numbered
  <2>4. i \in Indices => new = made
    BY <1>0, <2>0 DEF Indices
  <2> HIDE DEF made, new
  <2>5. Writes(new, new.data, i, Indices, Numbered, Twofold, mem.data)
    <3> HIDE DEF i
    <3>1. CASE i \in Indices
      <4>1. /\ new.launched = mem.launched
            /\ new.writes = [mem.writes EXCEPT ![i] = mem.writes[i] + 1]
            /\ i \notin Run => new.data = [mem.data EXCEPT ![i] = Twofold[i]]
        BY <2>2, <2>4, <3>1
      <4> QED
        BY <3>1, <4>1 DEF Writes
    <3>2. CASE i \notin Indices
      <4>1. new.launched = mem.launched /\ new.writes = mem.writes /\ new.data = mem.data
        BY <2>3, <3>2
      <4>2. i \in DOMAIN Numbered => Twofold[i] = Numbered[i]
        BY <2>3, <3>2
      <4> QED
        BY <3>2, <4>1, <4>2 DEF Writes
    <3> QED
      BY <3>1, <3>2
  <2>6. /\ GridInv(blocks * BlockSize, 12, 13, 13, 4)' /\ pc'[1] = pc[1]
        /\ mem'.launched = mem.launched
        /\ \/ mem.launched = "never" /\ mem' = mem /\ Run' = Run
           \/ /\ mem.launched = "yes" /\ mem' = new /\ pc[1] = 13
              /\ WrittenSoFar(new.writes, new.data, Run', Indices, Numbered, Twofold)
    BY <2>0, <2>1, <2>5, ItemWrites DEF DoubleInv
  <2>7. CASE mem' = mem /\ Run' = Run
    BY <2>6, <2>7 DEF DoubleInv, Ended
  <2>8. CASE mem' = new /\ pc[1] = 13
    BY <2>2, <2>3, <2>4, <2>6, <2>8 DEF DoubleInv, Ended, End
  <2> QED
    BY <2>6, <2>7, <2>8
<1> QED
  BY <1>1, <1>2

\* zero_fill.cu
Zeros == Buffer(0)
ZeroInv ==
    /\ DOMAIN mem = {"launched", "writes", "data"}
    /\ GridInv(blocks * BlockSize, 12, 13, 13, 4)
    /\ WrittenSoFar(mem.writes, mem.data, Run, Indices, Numbered, Zeros)

LEMMA ZeroKept ==
  ASSUME ZeroInv, NEW t \in Thread, IF t = 1 THEN zero_solve(t) ELSE zero_kernel(t)
  PROVE  ZeroInv'
<1>0. Elements \in Nat /\ Elements > 1 /\ t \in 1 .. blocks * BlockSize + 1
  BY KernelAssumption DEF ZeroInv, GridInv
<1>e. blocks * BlockSize \in Nat /\ blocks * BlockSize >= Elements
  BY <1>0 DEF blocks, BlockSize
<1>1. CASE t = 1
  <2>1. /\ HostStep(12, 13, End) /\ DOMAIN mem' = DOMAIN mem
        /\ mem'.writes = mem.writes /\ mem'.data = mem.data
    BY <1>0, <1>1 DEF zero_solve, solve, Launch, Finish, Await, Step, At, Goto, HostStep,
         ZeroInv, Thread
  <2>2. GridInv(blocks * BlockSize, 12, 13, 13, 4)' /\ Run' = Run
    BY <1>0, <2>1, HostRuns DEF ZeroInv, End
  <2> QED
    BY <2>1, <2>2 DEF ZeroInv, Ended, End
<1>2. CASE t # 1
  <2> DEFINE i == t - 2
             made == [Write(mem, i) EXCEPT !.data[i] = 0]
             new == IF i < Elements THEN made ELSE mem
  <2>0. i \in 0 .. blocks * BlockSize - 1 /\ t \in 2 .. blocks * BlockSize + 1
    BY <1>0, <1>2, <1>e
  <2>1. Item(t, 4, new, End)
    BY <1>2 DEF zero_kernel, global_id, Kernel
  <2>2. /\ made.launched = mem.launched /\ DOMAIN made = DOMAIN mem
        /\ i \in Indices => /\ made.writes = [mem.writes EXCEPT ![i] = mem.writes[i] + 1]
                            /\ i \notin Run => made.data = [mem.data EXCEPT ![i] = Zeros[i]]
    BY <1>0, <2>0 DEF ZeroInv, Indices, Write, WrittenSoFar, Filled, Buffer, Zeros, Numbered
  <2>3. i \notin Indices => new = mem /\ (i \in DOMAIN Numbered => Zeros[i] = Numbered[i])
    BY <1>0, <2>0 DEF Indices, Buffer, Zeros, Numbered
  <2>4. i \in Indices => new = made
    BY <1>0, <2>0 DEF Indices
  <2> HIDE DEF made, new
  <2>5. Writes(new, new.data, i, Indices, Numbered, Zeros, mem.data)
    <3> HIDE DEF i
    <3>1. CASE i \in Indices
      <4>1. /\ new.launched = mem.launched
            /\ new.writes = [mem.writes EXCEPT ![i] = mem.writes[i] + 1]
            /\ i \notin Run => new.data = [mem.data EXCEPT ![i] = Zeros[i]]
        BY <2>2, <2>4, <3>1
      <4> QED
        BY <3>1, <4>1 DEF Writes
    <3>2. CASE i \notin Indices
      <4>1. new.launched = mem.launched /\ new.writes = mem.writes /\ new.data = mem.data
        BY <2>3, <3>2
      <4>2. i \in DOMAIN Numbered => Zeros[i] = Numbered[i]
        BY <2>3, <3>2
      <4> QED
        BY <3>2, <4>1, <4>2 DEF Writes
    <3> QED
      BY <3>1, <3>2
  <2>6. /\ GridInv(blocks * BlockSize, 12, 13, 13, 4)' /\ pc'[1] = pc[1]
        /\ mem'.launched = mem.launched
        /\ \/ mem.launched = "never" /\ mem' = mem /\ Run' = Run
           \/ /\ mem.launched = "yes" /\ mem' = new /\ pc[1] = 13
              /\ WrittenSoFar(new.writes, new.data, Run', Indices, Numbered, Zeros)
    BY <2>0, <2>1, <2>5, ItemWrites DEF ZeroInv
  <2>7. CASE mem' = mem /\ Run' = Run
    BY <2>6, <2>7 DEF ZeroInv, Ended
  <2>8. CASE mem' = new /\ pc[1] = 13
    BY <2>2, <2>3, <2>4, <2>6, <2>8 DEF ZeroInv, Ended, End
  <2> QED
    BY <2>6, <2>7, <2>8
<1> QED
  BY <1>1, <1>2

\* invert_rgba.cu
Inverted == [i \in 0 .. Elements - 1 |-> 255 - (i + 1)]
InvertInv ==
    /\ DOMAIN mem = {"launched", "writes", "data"}
    /\ GridInv(blocks * BlockSize, 22, 23, 23, 4)
    /\ WrittenSoFar(mem.writes, mem.data, Run, Indices, Numbered, Inverted)

LEMMA InvertKept ==
  ASSUME InvertInv, NEW t \in Thread, IF t = 1 THEN invert_solve(t) ELSE invert_kernel(t)
  PROVE  InvertInv'
<1>0. Elements \in Nat /\ Elements > 1 /\ t \in 1 .. blocks * BlockSize + 1
  BY KernelAssumption DEF InvertInv, GridInv
<1>e. blocks * BlockSize \in Nat /\ blocks * BlockSize >= Elements
  BY <1>0 DEF blocks, BlockSize
<1>1. CASE t = 1
  <2>1. /\ HostStep(22, 23, End) /\ DOMAIN mem' = DOMAIN mem
        /\ mem'.writes = mem.writes /\ mem'.data = mem.data
    BY <1>0, <1>1 DEF invert_solve, solve, Launch, Finish, Await, Step, At, Goto, HostStep,
         InvertInv, Thread
  <2>2. GridInv(blocks * BlockSize, 22, 23, 23, 4)' /\ Run' = Run
    BY <1>0, <2>1, HostRuns DEF InvertInv, End
  <2> QED
    BY <2>1, <2>2 DEF InvertInv, Ended, End
<1>2. CASE t # 1
  <2> DEFINE i == t - 2
             made == [Write(mem, i) EXCEPT !.data[i] = 255 - mem.data[i]]
             new == IF i < Elements THEN made ELSE mem
  <2>0. i \in 0 .. blocks * BlockSize - 1 /\ t \in 2 .. blocks * BlockSize + 1
    BY <1>0, <1>2, <1>e
  <2>1. Item(t, 4, new, End)
    BY <1>2 DEF invert_kernel, global_id, Kernel
  <2>2. /\ made.launched = mem.launched /\ DOMAIN made = DOMAIN mem
        /\ i \in Indices => /\ made.writes = [mem.writes EXCEPT ![i] = mem.writes[i] + 1]
                            /\ i \notin Run => made.data = [mem.data EXCEPT ![i] = Inverted[i]]
    BY <1>0, <2>0 DEF InvertInv, Indices, Write, WrittenSoFar, Filled, Buffer, Inverted, Numbered
  <2>3. i \notin Indices => new = mem /\ (i \in DOMAIN Numbered => Inverted[i] = Numbered[i])
    BY <1>0, <2>0 DEF Indices, Buffer, Inverted, Numbered
  <2>4. i \in Indices => new = made
    BY <1>0, <2>0 DEF Indices
  <2> HIDE DEF made, new
  <2>5. Writes(new, new.data, i, Indices, Numbered, Inverted, mem.data)
    <3> HIDE DEF i
    <3>1. CASE i \in Indices
      <4>1. /\ new.launched = mem.launched
            /\ new.writes = [mem.writes EXCEPT ![i] = mem.writes[i] + 1]
            /\ i \notin Run => new.data = [mem.data EXCEPT ![i] = Inverted[i]]
        BY <2>2, <2>4, <3>1
      <4> QED
        BY <3>1, <4>1 DEF Writes
    <3>2. CASE i \notin Indices
      <4>1. new.launched = mem.launched /\ new.writes = mem.writes /\ new.data = mem.data
        BY <2>3, <3>2
      <4>2. i \in DOMAIN Numbered => Inverted[i] = Numbered[i]
        BY <2>3, <3>2
      <4> QED
        BY <3>2, <4>1, <4>2 DEF Writes
    <3> QED
      BY <3>1, <3>2
  <2>6. /\ GridInv(blocks * BlockSize, 22, 23, 23, 4)' /\ pc'[1] = pc[1]
        /\ mem'.launched = mem.launched
        /\ \/ mem.launched = "never" /\ mem' = mem /\ Run' = Run
           \/ /\ mem.launched = "yes" /\ mem' = new /\ pc[1] = 23
              /\ WrittenSoFar(new.writes, new.data, Run', Indices, Numbered, Inverted)
    BY <2>0, <2>1, <2>5, ItemWrites DEF InvertInv
  <2>7. CASE mem' = mem /\ Run' = Run
    BY <2>6, <2>7 DEF InvertInv, Ended
  <2>8. CASE mem' = new /\ pc[1] = 23
    BY <2>2, <2>3, <2>4, <2>6, <2>8 DEF InvertInv, Ended, End
  <2> QED
    BY <2>6, <2>7, <2>8
<1> QED
  BY <1>1, <1>2

\* block_thread_indexing.cu: who has written, and what that makes of the elements.
WroteIt(t) == IF mem.launched = "yes" /\ Ended(t) THEN 1 ELSE 0
Summed(writes, a, b, c, d) ==
    /\ writes \in [0 .. 4 -> Nat]
    /\ writes[0] = 0 /\ writes[1] = 0 /\ writes[2] = a /\ writes[3] = b + c /\ writes[4] = d
IndexingInv ==
    /\ DOMAIN mem = {"launched", "writes", "C", "read"}
    /\ GridInv(4, 39, 42, 42, 9) /\ mem.launched # "never"
    /\ Summed(mem.writes, WroteIt(2), WroteIt(3), WroteIt(4), WroteIt(5))

LEMMA IndexingKept ==
  ASSUME IndexingInv, NEW t \in Thread, IF t = 1 THEN indexing_main(t) ELSE indexed_vector_add(t)
  PROVE  IndexingInv'
<1>0. t \in 1 .. 5 /\ Thread = 1 .. 5
  BY DEF IndexingInv, GridInv
<1>1. CASE t = 1
  <2>1. /\ HostStep(39, 42, End) /\ DOMAIN mem' = DOMAIN mem /\ mem'.writes = mem.writes
        /\ \E line : pc' = [pc EXCEPT ![1] = line]
        /\ pc[1] # 39 => mem'.launched = mem.launched
        /\ pc[1] = 39 => mem'.launched = "yes"
    BY <1>1 DEF indexing_main, Launch, Finish, Await, Step, At, Goto, HostStep, IndexingInv, Thread
  <2>2. GridInv(4, 39, 42, 42, 9)'
    BY <1>0, <2>1, HostRuns DEF IndexingInv, End
  <2>3. ASSUME NEW u \in 2 .. 5
        PROVE  WroteIt(u)' = WroteIt(u)
    <3>1. pc'[u] = pc[u]
      BY <1>0, <2>1 DEF Thread
    <3>2. CASE pc[1] = 39
      BY <3>1, <3>2 DEF WroteIt, Ended, IndexingInv, GridInv
    <3>3. CASE pc[1] # 39
      BY <2>1, <3>1, <3>3 DEF WroteIt, Ended
    <3> QED
      BY <3>2, <3>3
  <2> QED
    BY <2>1, <2>2, <2>3 DEF IndexingInv
<1>2. CASE t # 1
  <2> DEFINE j == IF t = 2 THEN 2 ELSE IF t = 5 THEN 4 ELSE 3
             new == [Write(mem, j) EXCEPT !.C[j] = <<j, 4 - j>>]
  <2>1. t \in 2 .. 5 /\ t - 2 \in 0 .. 3
    BY <1>0, <1>2
  <2>2. ((t - 2) % 2) + ((t - 2) \div 2) + 2 = j
    BY <2>1
  <2>3. Item(t, 9, new, End)
    BY <1>2, <2>2 DEF indexed_vector_add, global_id, BlockSize
  <2>4. /\ new.launched = mem.launched /\ DOMAIN new = DOMAIN mem
        /\ new.writes = [mem.writes EXCEPT ![j] = mem.writes[j] + 1]
    BY DEF IndexingInv, Write
  <2>5. j \in 2 .. 4
    BY <2>1
  <2> HIDE DEF new
  <2>6. /\ GridInv(4, 39, 42, 42, 9)' /\ mem'.launched = mem.launched
        /\ \/ mem.launched = "never" /\ mem' = mem
           \/ mem.launched = "yes" /\ mem' = new
    BY <2>1, <2>3, <2>4, ItemRuns DEF IndexingInv
  <2>7. pc[t] = 9 /\ pc' = [pc EXCEPT ![t] = End]
    BY <2>3 DEF Item, Await, Step, At, Goto
  <2>8. \A u \in 2 .. 5 : pc'[u] = IF u = t THEN End ELSE pc[u]
    BY <1>0, <2>7 DEF Thread
  <2>9. CASE mem.launched = "never"
    BY <2>6, <2>9 DEF IndexingInv, WroteIt, Summed
  <2>10. CASE mem.launched = "yes"
    <3>1. WroteIt(t) = 0 /\ WroteIt(t)' = 1 /\ \A u \in 2 .. 5 : u # t => WroteIt(u)' = WroteIt(u)
      BY <2>1, <2>6, <2>7, <2>8, <2>10 DEF WroteIt, Ended, End
    <3>2. \A u \in 2 .. 5 : WroteIt(u) \in {0, 1}
      BY DEF WroteIt
    <3>3. mem'.writes = [mem.writes EXCEPT ![j] = mem.writes[j] + 1] /\ DOMAIN mem' = DOMAIN mem
      BY <2>4, <2>6, <2>10
    <3>4. Summed(mem'.writes, WroteIt(2)', WroteIt(3)', WroteIt(4)', WroteIt(5)')
      <4>0. /\ WroteIt(2) \in 0 .. 1 /\ WroteIt(3) \in 0 .. 1
            /\ WroteIt(4) \in 0 .. 1 /\ WroteIt(5) \in 0 .. 1
        BY DEF WroteIt
      <4>1. CASE t = 2
        BY <3>1, <3>2, <3>3, <4>1, <4>0 DEF IndexingInv, Summed
      <4>2. CASE t = 3
        BY <3>1, <3>2, <3>3, <4>2, <4>0 DEF IndexingInv, Summed
      <4>3. CASE t = 4
        BY <3>1, <3>2, <3>3, <4>3, <4>0 DEF IndexingInv, Summed
      <4>4. CASE t = 5
        BY <3>1, <3>2, <3>3, <4>4, <4>0 DEF IndexingInv, Summed
      <4> QED
        BY <2>1, <4>1, <4>2, <4>3, <4>4
    <3> QED
      BY <2>6, <3>3, <3>4 DEF IndexingInv
  <2> QED
    BY <2>6, <2>9, <2>10
<1> QED
  BY <1>1, <1>2

LEMMA ItemsStep ==
  ASSUME NEW t, ThreadStep(t)
  PROVE  /\ program = "vector_add" => IF t = 1 THEN vector_add_main(t) ELSE vector_add(t)
         /\ program = "saxpy" => IF t = 1 THEN saxpy_main(t) ELSE saxpy(t)
         /\ program = "non_linear_transform" => IF t = 1 THEN nonlinear_main(t) ELSE nonlinear(t)
         /\ program = "convolution_1d" => IF t = 1 THEN stencil_main(t) ELSE stencil1d(t)
         /\ program = "vec_addition" => IF t = 1 THEN vec_addition_main(t) ELSE cuda_vector_add(t)
         /\ program = "block_thread_indexing" =>
               IF t = 1 THEN indexing_main(t) ELSE indexed_vector_add(t)
         /\ program = "double_vec" => IF t = 1 THEN double_solve(t) ELSE double_kernel(t)
         /\ program = "zero_fill" => IF t = 1 THEN zero_solve(t) ELSE zero_kernel(t)
         /\ program = "invert_rgba" => IF t = 1 THEN invert_solve(t) ELSE invert_kernel(t)
BY DEF ThreadStep, LockStep, MonitorStep, EventStep, FutureStep, SchedulerStep, KernelStep,
       DataStep

LEMMA ItemsStart ==
  ASSUME Init
  PROVE  /\ program = "vector_add" => Boot(program, VectorAdd)
         /\ program = "saxpy" => Boot(program, Saxpy)
         /\ program = "non_linear_transform" => Boot(program, Nonlinear)
         /\ program = "convolution_1d" => Boot(program, Stencil)
         /\ program = "vec_addition" => Boot(program, VecAddition)
         /\ program = "block_thread_indexing" => Boot(program, BlockThreadIndexing)
         /\ program = "double_vec" => Boot(program, Solve(12))
         /\ program = "zero_fill" => Boot(program, Solve(12))
         /\ program = "invert_rgba" => Boot(program, Solve(22))
<1>1. CASE Boots(LockMains)
  BY <1>1, BootOf DEF LockMains
<1>2. CASE Boots(MonitorMains)
  BY <1>2, BootOf DEF MonitorMains
<1>3. CASE Boots(EventMains)
  BY <1>3, BootOf DEF EventMains
<1>4. CASE Boots(FutureMains)
  BY <1>4, BootOf DEF FutureMains
<1>5. CASE Boots(SchedulerMains)
  BY <1>5, BootOf DEF SchedulerMains
<1>6. CASE Boots(KernelMains)
  BY <1>6, BootOf DEF KernelMains
<1>7. CASE Boots(DataMains)
  BY <1>7, BootOf DEF DataMains
<1> QED
  BY <1>1, <1>2, <1>3, <1>4, <1>5, <1>6, <1>7 DEF Init

ItemsInvariant ==
    /\ program = "vector_add" => VectorAddInv
    /\ program = "saxpy" => SaxpyInv
    /\ program = "non_linear_transform" => NonlinearInv
    /\ program = "convolution_1d" => StencilInv
    /\ program = "vec_addition" => VecAdditionInv
    /\ program = "block_thread_indexing" => IndexingInv
    /\ program = "double_vec" => DoubleInv
    /\ program = "zero_fill" => ZeroInv
    /\ program = "invert_rgba" => InvertInv

Lines(first, second, third, item) ==
    {first, second, third, item} \subseteq Nat \ {End} /\ first # second /\ first # third

\* At the start no item has run.
LEMMA GridBoots ==
  ASSUME NEW items \in Nat, NEW first, NEW second, NEW third, NEW item, NEW memory,
         Lines(first, second, third, item),
         Boot(program, Grid(first, items, item, memory)), memory.launched = "no"
  PROVE  GridInv(items, first, second, third, item) /\ Run = {} /\ mem = memory /\ pc[1] = first
<1>1. /\ pc = [t \in 1 .. items + 1 |-> IF t = 1 THEN first ELSE item] /\ mem = memory
  BY DEF Boot, Grid, Main
<1>2. /\ Thread = 1 .. items + 1 /\ pc[1] = first /\ \A t \in 2 .. items + 1 : pc[t] = item
  BY <1>1 DEF Thread
<1>3. item # End
  BY DEF Lines
<1>4. Run = {}
  BY <1>1 DEF Run
<1> QED
  BY <1>1, <1>2, <1>3, <1>4 DEF GridInv, Ended, Lines

LEMMA NothingWritten ==
  ASSUME NEW E, E \subseteq 0 .. Elements, NEW before, NEW after, E \subseteq DOMAIN before,
         Run = {}
  PROVE  WrittenSoFar(Unwritten, before, Run, E, before, after)
BY DEF WrittenSoFar, Filled

LEMMA ItemsBoot == Init => ItemsInvariant
<1> SUFFICES ASSUME Init PROVE ItemsInvariant
  OBVIOUS
<1>0. /\ Elements \in Nat /\ Elements > 1 /\ Indices \subseteq 0 .. Elements
      /\ Inside \subseteq 0 .. Elements /\ blocks * BlockSize \in Nat
      /\ Indices \subseteq DOMAIN Numbered
      /\ \A value : Indices \subseteq DOMAIN Buffer(value) /\ Inside \subseteq DOMAIN Buffer(value)
  BY KernelAssumption DEF Indices, Inside, blocks, BlockSize, Buffer, Numbered
<1>1. ASSUME program = "vector_add" PROVE VectorAddInv
  <2> DEFINE memory == [launched |-> "no", writes |-> Unwritten, C |-> Buffer(Unknown),
                        read |-> Buffer(<<0>>)]
  <2>1. Boot(program, Grid(28, Elements, 2, memory))
    BY <1>1, ItemsStart DEF VectorAdd
  <2>2. memory.launched = "no" /\ Lines(28, 58, 58, 2)
    BY DEF End, Lines
  <2> HIDE DEF memory
  <2>3. /\ GridInv(Elements, 28, 58, 58, 2) /\ Run = {}
        /\ mem = memory /\ pc[1] = 28
    BY <1>0, <2>1, <2>2, GridBoots
  <2>4. WrittenSoFar(mem.writes, mem.C, Run, Indices, Buffer(Unknown), Twice)
    BY <1>0, <2>3, NothingWritten DEF memory
  <2> QED
    BY <2>3, <2>4 DEF VectorAddInv, Ended, End, memory
<1>2. ASSUME program = "saxpy" PROVE SaxpyInv
  <2> DEFINE memory == [launched |-> "no", writes |-> Unwritten, printed |-> Silent,
                        y |-> Buffer(3), read |-> Buffer(3)]
  <2>1. Boot(program, Grid(12, Elements, 32, memory))
    BY <1>2, ItemsStart DEF Saxpy, Silent
  <2>2. memory.launched = "no" /\ Lines(12, 66, 72, 32)
    BY DEF End, Lines
  <2> HIDE DEF memory
  <2>3. /\ GridInv(Elements, 12, 66, 72, 32) /\ Run = {}
        /\ mem = memory /\ pc[1] = 12
    BY <1>0, <2>1, <2>2, GridBoots
  <2>4. WrittenSoFar(mem.writes, mem.y, Run, Indices, Buffer(3), Scaled)
    BY <1>0, <2>3, NothingWritten DEF memory
  <2>5. /\ DOMAIN mem = {"launched", "writes", "y", "read", "printed"}
        /\ mem.launched = "no"
        /\ mem.printed = Silent
    BY <2>3 DEF memory
  <2> QED
    BY <2>3, <2>4, <2>5 DEF SaxpyInv, Ended, End
<1>3. ASSUME program = "non_linear_transform" PROVE NonlinearInv
  <2> DEFINE memory == [launched |-> "no", writes |-> Unwritten, printed |-> Silent,
                        y |-> Buffer(Unknown), read |-> Buffer(<<0>>)]
  <2>1. Boot(program, Grid(14, Elements, 33, memory))
    BY <1>3, ItemsStart DEF Nonlinear, Silent
  <2>2. memory.launched = "no" /\ Lines(14, 69, 74, 33)
    BY DEF End, Lines
  <2> HIDE DEF memory
  <2>3. /\ GridInv(Elements, 14, 69, 74, 33) /\ Run = {}
        /\ mem = memory /\ pc[1] = 14
    BY <1>0, <2>1, <2>2, GridBoots
  <2>4. WrittenSoFar(mem.writes, mem.y, Run, Indices, Buffer(Unknown), Transformed)
    BY <1>0, <2>3, NothingWritten DEF memory
  <2> QED
    BY <2>3, <2>4 DEF NonlinearInv, Ended, End, memory
<1>4. ASSUME program = "convolution_1d" PROVE StencilInv
  <2> DEFINE memory == [launched |-> "no", writes |-> Unwritten, printed |-> Silent,
                        y |-> Buffer(Unknown), read |-> Buffer(<<0>>)]
  <2>1. Boot(program, Grid(12, Elements, 31, memory))
    BY <1>4, ItemsStart DEF Stencil, Silent
  <2>2. memory.launched = "no" /\ Lines(12, 63, 68, 31)
    BY DEF End, Lines
  <2> HIDE DEF memory
  <2>3. /\ GridInv(Elements, 12, 63, 68, 31) /\ Run = {}
        /\ mem = memory /\ pc[1] = 12
    BY <1>0, <2>1, <2>2, GridBoots
  <2>4. WrittenSoFar(mem.writes, mem.y, Run, Inside, Buffer(Unknown), Smoothed)
    BY <1>0, <2>3, NothingWritten DEF memory
  <2> QED
    BY <2>3, <2>4 DEF StencilInv, Ended, End, memory
<1>5. ASSUME program = "vec_addition" PROVE VecAdditionInv
  <2> DEFINE memory == [launched |-> "no", writes |-> Unwritten, C |-> Buffer(Unknown),
                        read |-> Buffer(Unknown)]
  <2>1. Boot(program, Grid(38, Elements, 8, memory))
    BY <1>5, ItemsStart DEF VecAddition
  <2>2. memory.launched = "no" /\ Lines(38, 41, 41, 8)
    BY DEF End, Lines
  <2> HIDE DEF memory
  <2>3. /\ GridInv(Elements, 38, 41, 41, 8) /\ Run = {}
        /\ mem = memory /\ pc[1] = 38
    BY <1>0, <2>1, <2>2, GridBoots
  <2>4. WrittenSoFar(mem.writes, mem.C, Run, Indices, Buffer(Unknown), Countdowns)
    BY <1>0, <2>3, NothingWritten DEF memory
  <2> QED
    BY <2>3, <2>4 DEF VecAdditionInv, Ended, End, memory
<1>6. ASSUME program = "block_thread_indexing" PROVE IndexingInv
  <2> DEFINE none == [i \in 0 .. 4 |-> Unknown]
             memory == [launched |-> "no", writes |-> [i \in 0 .. 4 |-> 0], C |-> none,
                        read |-> none]
  <2>1. Boot(program, Grid(39, 4, 9, memory))
    BY <1>6, ItemsStart DEF BlockThreadIndexing, BlockSize
  <2>2. memory.launched = "no" /\ Lines(39, 42, 42, 9)
    BY DEF End, Lines
  <2> HIDE DEF memory
  <2>3. GridInv(4, 39, 42, 42, 9) /\ mem = memory
    BY <2>1, <2>2, GridBoots
  <2>4. \A t : WroteIt(t) = 0
    BY <2>3 DEF WroteIt, memory
  <2> QED
    BY <2>3, <2>4 DEF IndexingInv, Summed, memory
<1>7. ASSUME program = "double_vec" PROVE DoubleInv
  <2> DEFINE memory == [launched |-> "no", writes |-> Unwritten, data |-> Numbered]
  <2>1. Boot(program, Grid(12, blocks * BlockSize, 4, memory))
    BY <1>7, ItemsStart DEF Solve, Numbered
  <2>2. memory.launched = "no" /\ Lines(12, 13, 13, 4)
    BY DEF End, Lines
  <2> HIDE DEF memory
  <2>3. /\ GridInv(blocks * BlockSize, 12, 13, 13, 4) /\ Run = {}
        /\ mem = memory /\ pc[1] = 12
    BY <1>0, <2>1, <2>2, GridBoots
  <2>4. WrittenSoFar(mem.writes, mem.data, Run, Indices, Numbered, Twofold)
    BY <1>0, <2>3, NothingWritten DEF memory
  <2> QED
    BY <2>3, <2>4 DEF DoubleInv, Ended, End, memory
<1>8. ASSUME program = "zero_fill" PROVE ZeroInv
  <2> DEFINE memory == [launched |-> "no", writes |-> Unwritten, data |-> Numbered]
  <2>1. Boot(program, Grid(12, blocks * BlockSize, 4, memory))
    BY <1>8, ItemsStart DEF Solve, Numbered
  <2>2. memory.launched = "no" /\ Lines(12, 13, 13, 4)
    BY DEF End, Lines
  <2> HIDE DEF memory
  <2>3. /\ GridInv(blocks * BlockSize, 12, 13, 13, 4) /\ Run = {}
        /\ mem = memory /\ pc[1] = 12
    BY <1>0, <2>1, <2>2, GridBoots
  <2>4. WrittenSoFar(mem.writes, mem.data, Run, Indices, Numbered, Zeros)
    BY <1>0, <2>3, NothingWritten DEF memory
  <2>5. DOMAIN mem = {"launched", "writes", "data"} /\ mem.launched = "no"
    BY <2>3 DEF memory
  <2> QED
    BY <2>3, <2>4, <2>5 DEF ZeroInv, Ended, End
<1>9. ASSUME program = "invert_rgba" PROVE InvertInv
  <2> DEFINE memory == [launched |-> "no", writes |-> Unwritten, data |-> Numbered]
  <2>1. Boot(program, Grid(22, blocks * BlockSize, 4, memory))
    BY <1>9, ItemsStart DEF Solve, Numbered
  <2>2. memory.launched = "no" /\ Lines(22, 23, 23, 4)
    BY DEF End, Lines
  <2> HIDE DEF memory
  <2>3. /\ GridInv(blocks * BlockSize, 22, 23, 23, 4) /\ Run = {}
        /\ mem = memory /\ pc[1] = 22
    BY <1>0, <2>1, <2>2, GridBoots
  <2>4. WrittenSoFar(mem.writes, mem.data, Run, Indices, Numbered, Inverted)
    BY <1>0, <2>3, NothingWritten DEF memory
  <2> QED
    BY <2>3, <2>4 DEF InvertInv, Ended, End, memory
<1> QED
  BY <1>1, <1>2, <1>3, <1>4, <1>5, <1>6, <1>7, <1>8, <1>9 DEF ItemsInvariant

LEMMA ItemsNext == LockInv /\ ItemsInvariant /\ [Next]_vars => ItemsInvariant'
<1> SUFFICES ASSUME LockInv, ItemsInvariant, [Next]_vars PROVE ItemsInvariant'
  OBVIOUS
<1>1. program' = program
  BY LockNext
<1>2. CASE UNCHANGED <<pc, mem>>
  <2>1. Run' = Run /\ Thread' = Thread /\ \A t : Ended(t)' = Ended(t) /\ WroteIt(t)' = WroteIt(t)
    BY <1>2 DEF Run, Thread, Ended, WroteIt
  <2>2. VectorAddInv => VectorAddInv'
    BY <1>2, <2>1 DEF VectorAddInv, GridInv
  <2>3. SaxpyInv => SaxpyInv'
    BY <1>2, <2>1 DEF SaxpyInv, GridInv
  <2>4. NonlinearInv => NonlinearInv'
    BY <1>2, <2>1 DEF NonlinearInv, GridInv
  <2>5. StencilInv => StencilInv'
    BY <1>2, <2>1 DEF StencilInv, GridInv
  <2>6. VecAdditionInv => VecAdditionInv'
    BY <1>2, <2>1 DEF VecAdditionInv, GridInv
  <2>7. IndexingInv => IndexingInv'
    BY <1>2, <2>1 DEF IndexingInv, GridInv
  <2>8. DoubleInv => DoubleInv'
    BY <1>2, <2>1 DEF DoubleInv, GridInv
  <2>9. ZeroInv => ZeroInv'
    BY <1>2, <2>1 DEF ZeroInv, GridInv
  <2>10. InvertInv => InvertInv'
    BY <1>2, <2>1 DEF InvertInv, GridInv
  <2> QED
    BY <1>1, <2>2, <2>3, <2>4, <2>5, <2>6, <2>7, <2>8, <2>9, <2>10 DEF ItemsInvariant
<1>3. CASE \E t \in Thread : ThreadStep(t)
  <2> PICK t \in Thread : ThreadStep(t)
    BY <1>3
  <2>1. program = "vector_add" => VectorAddInv'
    BY ItemsStep, VectorAddKept DEF ItemsInvariant
  <2>2. program = "saxpy" => SaxpyInv'
    BY ItemsStep, SaxpyKept DEF ItemsInvariant
  <2>3. program = "non_linear_transform" => NonlinearInv'
    BY ItemsStep, NonlinearKept DEF ItemsInvariant
  <2>4. program = "convolution_1d" => StencilInv'
    BY ItemsStep, StencilKept DEF ItemsInvariant
  <2>5. program = "vec_addition" => VecAdditionInv'
    BY ItemsStep, VecAdditionKept DEF ItemsInvariant
  <2>6. program = "block_thread_indexing" => IndexingInv'
    BY ItemsStep, IndexingKept DEF ItemsInvariant
  <2>7. program = "double_vec" => DoubleInv'
    BY ItemsStep, DoubleKept DEF ItemsInvariant
  <2>8. program = "zero_fill" => ZeroInv'
    BY ItemsStep, ZeroKept DEF ItemsInvariant
  <2>9. program = "invert_rgba" => InvertInv'
    BY ItemsStep, InvertKept DEF ItemsInvariant
  <2> QED
    BY <1>1, <2>1, <2>2, <2>3, <2>4, <2>5, <2>6, <2>7, <2>8, <2>9 DEF ItemsInvariant
<1> QED
  BY <1>2, <1>3 DEF Next, SpuriousWakeup, vars, machineVars

LEMMA ItemsAlways == Spec => []ItemsInvariant
<1> QED
  BY ItemsBoot, ItemsNext, LocksInvariant, PTL DEF Spec

\* What is written so far is written once, and in the end each of the elements is.
WrittenOnce(E) ==
    \A i \in DOMAIN mem.writes :
        IF i \in E THEN mem.writes[i] \in (IF AllEnded /\ mem.launched = "yes" THEN {1} ELSE 0 .. 1)
        ELSE mem.writes[i] = 0

LEMMA OnceOnly ==
  ASSUME NEW E, NEW buffer, NEW before, NEW after,
         WrittenSoFar(mem.writes, buffer, Run, E, before, after),
         NEW items, Thread = 1 .. items + 1, items \in Nat, E \subseteq 0 .. items - 1
  PROVE  WrittenOnce(E)
<1>1. /\ DOMAIN mem.writes = 0 .. Elements
      /\ \A i \in 0 .. Elements : mem.writes[i] = IF i \in E /\ i \in Run THEN 1 ELSE 0
  BY DEF WrittenSoFar, Filled, Unwritten, Once
<1>2. ASSUME NEW i \in E, AllEnded, mem.launched = "yes"
      PROVE  i \in Run
  <2>1. i \in 0 .. items - 1
    OBVIOUS
  <2>2. i \in Nat /\ i + 2 \in 1 .. items + 1
    BY <2>1
  <2> QED
    BY <1>2, <2>2 DEF Run, AllEnded
<1> QED
  BY <1>1, <1>2 DEF WrittenOnce

\* Every element is written by one item at most and by one in the end, and no other place is,
\* whatever number of elements there is, in whichever order the items run and whether they fill
\* the last block; block_thread_indexing.cu leaves out the first half, writes one element twice
\* and one behind the end.
THEOREM ElementsWrittenOnce == Spec => []EveryElementOnce
<1>1. ItemsInvariant => EveryElementOnce
  <2> SUFFICES ASSUME ItemsInvariant PROVE EveryElementOnce
    OBVIOUS
  <2>0. /\ Elements \in Nat /\ blocks * BlockSize \in Nat /\ blocks * BlockSize >= Elements
        /\ Indices \subseteq 0 .. Elements - 1 /\ Inside \subseteq 0 .. Elements - 1
        /\ Indices \subseteq 0 .. blocks * BlockSize - 1
    BY KernelAssumption DEF blocks, BlockSize, Indices, Inside
  <2>1. program = "vector_add" => WrittenOnce(Indices)
    <3>1. VectorAddInv => WrittenOnce(Indices)
      BY <2>0, OnceOnly DEF VectorAddInv, GridInv
    <3> QED
      BY <3>1 DEF ItemsInvariant
  <2>2. program = "saxpy" => WrittenOnce(Indices)
    <3>1. SaxpyInv => WrittenOnce(Indices)
      BY <2>0, OnceOnly DEF SaxpyInv, GridInv
    <3> QED
      BY <3>1 DEF ItemsInvariant
  <2>3. program = "non_linear_transform" => WrittenOnce(Indices)
    <3>1. NonlinearInv => WrittenOnce(Indices)
      BY <2>0, OnceOnly DEF NonlinearInv, GridInv
    <3> QED
      BY <3>1 DEF ItemsInvariant
  <2>4. program = "convolution_1d" => WrittenOnce(Inside)
    <3>1. StencilInv => WrittenOnce(Inside)
      BY <2>0, OnceOnly DEF StencilInv, GridInv
    <3> QED
      BY <3>1 DEF ItemsInvariant
  <2>5. program = "vec_addition" => WrittenOnce(Indices)
    <3>1. VecAdditionInv => WrittenOnce(Indices)
      BY <2>0, OnceOnly DEF VecAdditionInv, GridInv
    <3> QED
      BY <3>1 DEF ItemsInvariant
  <2>6. program = "double_vec" => WrittenOnce(Indices)
    <3>1. DoubleInv => WrittenOnce(Indices)
      BY <2>0, OnceOnly DEF DoubleInv, GridInv
    <3> QED
      BY <3>1 DEF ItemsInvariant
  <2>7. program = "zero_fill" => WrittenOnce(Indices)
    <3>1. ZeroInv => WrittenOnce(Indices)
      BY <2>0, OnceOnly DEF ZeroInv, GridInv
    <3> QED
      BY <3>1 DEF ItemsInvariant
  <2>8. program = "invert_rgba" => WrittenOnce(Indices)
    <3>1. InvertInv => WrittenOnce(Indices)
      BY <2>0, OnceOnly DEF InvertInv, GridInv
    <3> QED
      BY <3>1 DEF ItemsInvariant
  <2>9. ASSUME AtEnd("block_thread_indexing")
        PROVE  mem.writes = [i \in 0 .. 2 * BlockSize |->
                                 IF i < BlockSize THEN 0 ELSE IF i = BlockSize + 1 THEN 2 ELSE 1]
    <3>1. IndexingInv /\ Thread = 1 .. 5 /\ AllEnded
      BY <2>9 DEF AtEnd, ItemsInvariant, IndexingInv, GridInv
    <3>2. mem.launched = "yes"
      BY <3>1 DEF IndexingInv, GridInv, AllEnded, Ended
    <3>3. \A t \in 2 .. 5 : WroteIt(t) = 1
      BY <3>1, <3>2 DEF WroteIt, AllEnded
    <3>4. Summed(mem.writes, 1, 1, 1, 1)
      BY <3>1, <3>3 DEF IndexingInv
    <3>5. \A i \in 0 .. 4 : mem.writes[i] = IF i < 2 THEN 0 ELSE IF i = 3 THEN 2 ELSE 1
      BY <3>4 DEF Summed
    <3>6. mem.writes = [i \in 0 .. 4 |-> mem.writes[i]]
      BY <3>1, <3>4 DEF Summed
    <3> QED
      BY <3>5, <3>6 DEF BlockSize
  <2>10. 0 .. Elements - 1 = Indices /\ 1 .. Elements - 2 = Inside
    BY DEF Indices, Inside
  <2> QED
    BY <2>1, <2>2, <2>3, <2>4, <2>5, <2>6, <2>7, <2>8, <2>9, <2>10
    DEF EveryElementOnce, WrittenOnce
<1> QED
  BY <1>1, ItemsAlways, PTL

-----------------------------------------------------------------------------
\* The results of the kernels

\* When all have ended after a launch, all items have run.
LEMMA AllHaveRun ==
  ASSUME NEW items, NEW first, NEW second, NEW third, NEW item,
         GridInv(items, first, second, third, item), AllEnded, mem.launched = "yes"
  PROVE  0 .. items - 1 \subseteq Run
<1>1. pc[1] \notin {first, second}
  BY DEF GridInv, AllEnded, Ended, End
<1> QED
  BY <1>1, AllRun

\* What the hosts of these kernels read or print.
ItemResults ==
    /\ AllEnded /\ program \in {"saxpy", "non_linear_transform", "convolution_1d"} =>
          mem.printed = IF mem.launched = "yes" THEN "correct" ELSE Silent
    /\ AtEnd("vector_add") /\ mem.launched = "yes" =>
          \A i \in DOMAIN mem.read : mem.read[i] = <<i, 2 * i>>
    /\ AtEnd("vec_addition") => \A i \in DOMAIN mem.read : mem.read[i] = <<i, Elements - i>>
    /\ AtEnd("double_vec") => \A i \in DOMAIN mem.data : mem.data[i] = 2 * (i + 1)

LEMMA ItemsDeliver == ItemsInvariant => ItemResults
<1> SUFFICES ASSUME ItemsInvariant, AllEnded PROVE ItemResults
  BY DEF ItemResults, AtEnd
<1>0. /\ Elements \in Nat /\ Indices \subseteq 0 .. Elements - 1
      /\ Indices \subseteq 0 .. blocks * BlockSize - 1
      /\ DOMAIN Buffer(Unknown) = Indices /\ DOMAIN Numbered = Indices
      /\ \A i \in Indices : /\ Twice[i] = <<i, 2 * i>> /\ Countdowns[i] = <<i, Elements - i>>
                            /\ Twofold[i] = 2 * (i + 1)
  BY KernelAssumption
  DEF blocks, BlockSize, Indices, Buffer, Numbered, Twice, Countdowns, Twofold
<1>1. ASSUME program \in {"saxpy", "non_linear_transform", "convolution_1d"}
      PROVE  mem.printed = IF mem.launched = "yes" THEN "correct" ELSE Silent
  <2>1. SaxpyInv \/ NonlinearInv \/ StencilInv
    BY <1>1 DEF ItemsInvariant
  <2>2. Ended(1)
    BY <2>1 DEF SaxpyInv, NonlinearInv, StencilInv, GridInv, AllEnded
  <2> QED
    BY <2>1, <2>2 DEF SaxpyInv, NonlinearInv, StencilInv
<1>2. ASSUME program = "vector_add", mem.launched = "yes"
      PROVE  \A i \in DOMAIN mem.read : mem.read[i] = <<i, 2 * i>>
  <2>1. VectorAddInv
    BY <1>2 DEF ItemsInvariant
  <2>2. Ended(1)
    BY <2>1 DEF VectorAddInv, GridInv, AllEnded
  <2>3. DOMAIN mem.C = DOMAIN Buffer(Unknown) /\ \A i \in Indices : mem.C[i] = Twice[i]
    <3>1. Indices \subseteq Run
      BY <1>0, <1>2, <2>1, AllHaveRun DEF VectorAddInv
    <3>2. WrittenSoFar(mem.writes, mem.C, Run, Indices, Buffer(Unknown), Twice)
      BY <2>1 DEF VectorAddInv
    <3> QED
      BY <3>1, <3>2, FilledUp
  <2>4. mem.read = mem.C
    BY <1>2, <2>1, <2>2 DEF VectorAddInv
  <2> QED
    BY <1>0, <2>3, <2>4
<1>3. ASSUME program = "vec_addition"
      PROVE  \A i \in DOMAIN mem.read : mem.read[i] = <<i, Elements - i>>
  <2>1. VecAdditionInv
    BY <1>3 DEF ItemsInvariant
  <2>2. Ended(1)
    BY <2>1 DEF VecAdditionInv, GridInv, AllEnded
  <2>3. mem.launched = "yes"
    BY <2>1, <2>2 DEF VecAdditionInv, GridInv, Ended, End
  <2>4. DOMAIN mem.C = DOMAIN Buffer(Unknown) /\ \A i \in Indices : mem.C[i] = Countdowns[i]
    <3>1. Indices \subseteq Run
      BY <1>0, <2>3, <2>1, AllHaveRun DEF VecAdditionInv
    <3>2. WrittenSoFar(mem.writes, mem.C, Run, Indices, Buffer(Unknown), Countdowns)
      BY <2>1 DEF VecAdditionInv
    <3> QED
      BY <3>1, <3>2, FilledUp
  <2>5. mem.read = mem.C
    BY <2>1, <2>2, <2>3 DEF VecAdditionInv
  <2> QED
    BY <1>0, <2>4, <2>5
<1>4. ASSUME program = "double_vec"
      PROVE  \A i \in DOMAIN mem.data : mem.data[i] = 2 * (i + 1)
  <2>1. DoubleInv
    BY <1>4 DEF ItemsInvariant
  <2>2. Ended(1)
    BY <2>1 DEF DoubleInv, GridInv, AllEnded
  <2>3. mem.launched = "yes"
    BY <2>1, <2>2 DEF DoubleInv, GridInv, Ended, End
  <2>4. DOMAIN mem.data = DOMAIN Numbered /\ \A i \in Indices : mem.data[i] = Twofold[i]
    <3>1. Indices \subseteq Run
      BY <1>0, <2>3, <2>1, AllHaveRun DEF DoubleInv
    <3>2. WrittenSoFar(mem.writes, mem.data, Run, Indices, Numbered, Twofold)
      BY <2>1 DEF DoubleInv
    <3> QED
      BY <3>1, <3>2, FilledUp
  <2> QED
    BY <1>0, <2>4
<1> QED
  BY <1>1, <1>2, <1>3, <1>4 DEF ItemResults, AtEnd

\* sequential.cpp: how often daxpy() has been called.
After(n) == [i \in 0 .. Elements - 1 |-> 2 + 2 * i * n]
DaxpyInv ==
    /\ Thread = 1 .. 1 /\ DOMAIN mem = {"x", "y", "it", "ok"}
    /\ pc[1] \in {71, 73, 75, 84, 87, End}
    /\ mem.it \in 0 .. Rounds
    /\ pc[1] = 71 => DOMAIN mem.x = Indices /\ DOMAIN mem.y = Indices
    /\ pc[1] # 71 => mem.x = [i \in Indices |-> i]
    /\ pc[1] \in {71, 73, 75, 84} => mem.it = 0
    /\ pc[1] = 73 => mem.y = After(0)
    /\ pc[1] \in {75, 84} => mem.y = After(1)
    /\ pc[1] \in {87, End} => mem.y = After(mem.it + 2)
    /\ pc[1] \in {84, 87, End} => mem.ok
    /\ pc[1] = End => mem.it = Rounds

LEMMA DaxpyAdds ==
  ASSUME NEW n \in Nat, mem.x = [i \in Indices |-> i], mem.y = After(n)
  PROVE  [i \in DOMAIN mem.y |-> 2 * mem.x[i] + mem.y[i]] = After(n + 1)
<1>1. Elements \in Nat
  BY KernelAssumption
<1>2. \A i \in Indices : 2 * mem.x[i] + mem.y[i] = 2 + 2 * i * (n + 1)
  <2>1. SUFFICES ASSUME NEW i \in Indices PROVE 2 * i + (2 + 2 * i * n) = 2 + 2 * i * (n + 1)
    BY DEF After, Indices
  <2>2. i \in Int
    BY <1>1 DEF Indices
  <2> QED
    BY <2>2
<1>3. DOMAIN mem.y = Indices
  BY DEF After, Indices
<1> QED
  BY <1>2, <1>3 DEF After, Indices

LEMMA DaxpyKept ==
  ASSUME DaxpyInv, NEW t \in Thread, daxpy_main(t)
  PROVE  DaxpyInv'
<1>0. t = 1 /\ Elements \in Nat /\ Rounds \in Nat
  BY KernelAssumption, RoundsAssumption DEF DaxpyInv
<1>1. /\ DOMAIN pc' = DOMAIN pc /\ Thread' = 1 .. 1
      /\ \A to : pc' = [pc EXCEPT ![1] = to] => pc'[1] = to
  BY <1>0 DEF daxpy_main, Step, Goto, DaxpyInv, Thread
<1>2. CASE Step(t, 71, initialize(mem), 73)
  <2>1. /\ mem' = [mem EXCEPT !.x = [i \in Indices |-> i], !.y = [i \in Indices |-> 2]]
        /\ pc'[1] = 73 /\ pc[1] = 71
    BY <1>0, <1>1, <1>2 DEF Step, At, Goto, initialize, DaxpyInv
  <2>2. [i \in Indices |-> 2] = After(0)
    BY <1>0 DEF After, Indices
  <2> QED
    BY <1>1, <2>1, <2>2 DEF DaxpyInv, End
<1>3. CASE Step(t, 73, daxpy(mem), 75)
  <2>1. /\ mem' = [mem EXCEPT !.y = [i \in DOMAIN mem.y |-> 2 * mem.x[i] + mem.y[i]]]
        /\ pc'[1] = 75 /\ pc[1] = 73
    BY <1>0, <1>1, <1>3 DEF Step, At, Goto, daxpy, DaxpyInv
  <2>2. [i \in DOMAIN mem.y |-> 2 * mem.x[i] + mem.y[i]] = After(0 + 1)
    BY <2>1, DaxpyAdds DEF DaxpyInv
  <2> QED
    BY <1>1, <2>1, <2>2 DEF DaxpyInv, End
<1>4. CASE Step(t, 75, [mem EXCEPT !.ok = check(mem)], IF check(mem) THEN 84 ELSE End)
  <2>1. check(mem) = TRUE
    <3>1. pc[1] = 75
      BY <1>0, <1>4 DEF Step, At
    <3>2. mem.y = After(1)
      BY <3>1 DEF DaxpyInv
    <3> QED
      BY <1>0, <3>2 DEF check, After
  <2>2. mem' = [mem EXCEPT !.ok = TRUE] /\ pc'[1] = 84 /\ pc[1] = 75
    BY <1>0, <1>1, <1>4, <2>1 DEF Step, At, Goto
  <2> QED
    BY <1>1, <2>2 DEF DaxpyInv, End
<1>5. CASE Step(t, 84, daxpy(mem), 87)
  <2>1. /\ mem' = [mem EXCEPT !.y = [i \in DOMAIN mem.y |-> 2 * mem.x[i] + mem.y[i]]]
        /\ pc'[1] = 87 /\ pc[1] = 84
    BY <1>0, <1>1, <1>5 DEF Step, At, Goto, daxpy, DaxpyInv
  <2>2. [i \in DOMAIN mem.y |-> 2 * mem.x[i] + mem.y[i]] = After(1 + 1)
    BY <2>1, DaxpyAdds DEF DaxpyInv
  <2> QED
    BY <1>1, <2>1, <2>2 DEF DaxpyInv, End
<1>6. CASE mem.it < Rounds /\ Step(t, 87, [daxpy(mem) EXCEPT !.it = @ + 1], 87)
  <2>1. /\ mem' = [mem EXCEPT !.y = [i \in DOMAIN mem.y |-> 2 * mem.x[i] + mem.y[i]],
                              !.it = mem.it + 1]
        /\ pc'[1] = 87 /\ pc[1] = 87
    BY <1>0, <1>1, <1>6 DEF Step, At, Goto, daxpy, DaxpyInv
  <2>2. [i \in DOMAIN mem.y |-> 2 * mem.x[i] + mem.y[i]] = After((mem.it + 2) + 1)
    <3>1. mem.it + 2 \in Nat
      BY <1>0 DEF DaxpyInv
    <3>2. mem.x = [i \in Indices |-> i] /\ mem.y = After(mem.it + 2)
      BY <2>1 DEF DaxpyInv
    <3> QED
      BY <3>1, <3>2, DaxpyAdds
  <2>3. (mem.it + 2) + 1 = (mem.it + 1) + 2 /\ mem.it + 1 \in 0 .. Rounds
    BY <1>0, <1>6 DEF DaxpyInv
  <2> QED
    BY <1>1, <2>1, <2>2, <2>3 DEF DaxpyInv, End
<1>7. CASE mem.it = Rounds /\ Step(t, 87, mem, End)
  <2>1. mem' = mem /\ pc'[1] = End /\ pc[1] = 87
    BY <1>0, <1>1, <1>7 DEF Step, At, Goto
  <2> QED
    BY <1>1, <1>7, <2>1 DEF DaxpyInv, End
<1> QED
  BY <1>2, <1>3, <1>4, <1>5, <1>6, <1>7 DEF daxpy_main

-----------------------------------------------------------------------------
\* The rings of the solver

\* opencl_fvm_solver.cpp: the distance of a cell from the border.
LEMMA RingIs ==
  ASSUME NEW c \in cells
  PROVE  /\ c = <<c[1], c[2]>> /\ c[1] \in 0 .. 8 /\ c[2] \in 0 .. 8 /\ Ring(c) \in 0 .. 8
         /\ Ring(c) <= c[1] /\ Ring(c) <= c[2] /\ Ring(c) <= 8 - c[1] /\ Ring(c) <= 8 - c[2]
         /\ Ring(c) \in {c[1], 8 - c[1], c[2], 8 - c[2]}
         /\ Inner(c) <=> Ring(c) # 0
<1>1. c = <<c[1], c[2]>> /\ c[1] \in 0 .. 8 /\ c[2] \in 0 .. 8
  BY DEF cells, nx
<1> DEFINE Is(r) == /\ r <= c[1] /\ r <= c[2] /\ r <= 8 - c[1] /\ r <= 8 - c[2]
                    /\ r = c[1] \/ r = c[2] \/ r = 8 - c[1] \/ r = 8 - c[2]
<1>2. Ring(c) = CHOOSE r \in 0 .. nx : /\ \A d \in 1 .. 2 : r <= c[d] /\ r <= nx - 1 - c[d]
                                      /\ \E d \in 1 .. 2 : r = c[d] \/ r = nx - 1 - c[d]
  BY DEF Ring
<1>3. ASSUME NEW r
      PROVE  Is(r) <=> /\ \A d \in 1 .. 2 : r <= c[d] /\ r <= nx - 1 - c[d]
                       /\ \E d \in 1 .. 2 : r = c[d] \/ r = nx - 1 - c[d]
  BY <1>1 DEF nx
<1>4. \E r \in 0 .. nx : Is(r)
  BY <1>1 DEF nx
<1>5. Ring(c) \in 0 .. nx /\ Is(Ring(c))
  <2> HIDE DEF Is
  <2> QED
    BY <1>2, <1>3, <1>4
<1>6. Inner(c) <=> 0 < c[1] /\ c[1] < 8 /\ 0 < c[2] /\ c[2] < 8
  BY <1>1 DEF Inner, nx
<1> QED
  BY <1>1, <1>5, <1>6

\* Next to an inner cell one is nearer to the border, and none by more than a cell.
LEMMA RingsAround ==
  ASSUME NEW c \in cells, Inner(c)
  PROVE  /\ \A d \in Around(c) : d \in cells /\ Ring(c) - 1 <= Ring(d)
         /\ \E d \in Around(c) : Ring(d) = Ring(c) - 1
         /\ c \in Around(c)
<1> DEFINE x == c[1]
           y == c[2]
<1>1. /\ c = <<x, y>> /\ x \in 1 .. 7 /\ y \in 1 .. 7 /\ Ring(c) \in 0 .. 8
      /\ Ring(c) <= x /\ Ring(c) <= y /\ Ring(c) <= 8 - x /\ Ring(c) <= 8 - y
      /\ Ring(c) \in {x, 8 - x, y, 8 - y}
  <2>1. Ring(c) # 0
    BY RingIs
  <2> QED
    BY <2>1, RingIs
<1>2. Around(c) = {<<x, y>>, <<x + 1, y>>, <<x - 1, y>>, <<x, y + 1>>, <<x, y - 1>>}
  BY <1>1 DEF Around
<1>3. ASSUME NEW a \in 0 .. 8, NEW b \in 0 .. 8
      PROVE  /\ <<a, b>> \in cells /\ Ring(<<a, b>>) \in 0 .. 8
             /\ Ring(<<a, b>>) <= a /\ Ring(<<a, b>>) <= b
             /\ Ring(<<a, b>>) <= 8 - a /\ Ring(<<a, b>>) <= 8 - b
             /\ Ring(<<a, b>>) \in {a, 8 - a, b, 8 - b}
  <2>1. <<a, b>> \in cells /\ <<a, b>>[1] = a /\ <<a, b>>[2] = b
    BY DEF cells, nx
  <2> QED
    BY <2>1, RingIs
<1> HIDE DEF x, y
<1>4. ASSUME NEW a \in 0 .. 8, NEW b \in 0 .. 8, a - x \in {-1, 0, 1}, b - y \in {-1, 0, 1}
      PROVE  <<a, b>> \in cells /\ Ring(c) - 1 <= Ring(<<a, b>>)
  <2> DEFINE r == Ring(<<a, b>>)
  <2>1. /\ <<a, b>> \in cells /\ r \in 0 .. 8
        /\ r \in {a, 8 - a, b, 8 - b}
    BY <1>3
  <2> HIDE DEF r
  <2>2. Ring(c) - 1 <= r
    BY <1>1, <1>4, <2>1
  <2> QED
    BY <2>1, <2>2 DEF r
<1>5. /\ x + 1 \in 0 .. 8 /\ x - 1 \in 0 .. 8 /\ y + 1 \in 0 .. 8 /\ y - 1 \in 0 .. 8
      /\ x \in 0 .. 8 /\ y \in 0 .. 8
      /\ (x + 1) - x = 1 /\ (x - 1) - x = -1 /\ (y + 1) - y = 1 /\ (y - 1) - y = -1
      /\ x - x = 0 /\ y - y = 0
  BY <1>1
<1>6. \A d \in Around(c) : d \in cells /\ Ring(c) - 1 <= Ring(d)
  BY <1>2, <1>4, <1>5
<1>7. \E d \in Around(c) : Ring(d) = Ring(c) - 1
  <2>1. CASE Ring(c) = x
    <3> DEFINE r == Ring(<<x - 1, y>>)
    <3>1. r = Ring(c) - 1
      <4>1. Ring(c) - 1 <= r
        BY <1>4, <1>5
      <4>2. r \in 0 .. 8 /\ r <= x - 1 /\ r <= y /\ r <= 8 - (x - 1) /\ r <= 8 - y
        BY <1>3, <1>5
      <4> HIDE DEF r
      <4> QED
        BY <1>1, <2>1, <4>1, <4>2
    <3> QED
      BY <1>2, <3>1
  <2>2. CASE Ring(c) = 8 - x
    <3> DEFINE r == Ring(<<x + 1, y>>)
    <3>1. r = Ring(c) - 1
      <4>1. Ring(c) - 1 <= r
        BY <1>4, <1>5
      <4>2. r \in 0 .. 8 /\ r <= x + 1 /\ r <= y /\ r <= 8 - (x + 1) /\ r <= 8 - y
        BY <1>3, <1>5
      <4> HIDE DEF r
      <4> QED
        BY <1>1, <2>2, <4>1, <4>2
    <3> QED
      BY <1>2, <3>1
  <2>3. CASE Ring(c) = y
    <3> DEFINE r == Ring(<<x, y - 1>>)
    <3>1. r = Ring(c) - 1
      <4>1. Ring(c) - 1 <= r
        BY <1>4, <1>5
      <4>2. r \in 0 .. 8 /\ r <= x /\ r <= y - 1 /\ r <= 8 - x /\ r <= 8 - (y - 1)
        BY <1>3, <1>5
      <4> HIDE DEF r
      <4> QED
        BY <1>1, <2>3, <4>1, <4>2
    <3> QED
      BY <1>2, <3>1
  <2>4. CASE Ring(c) = 8 - y
    <3> DEFINE r == Ring(<<x, y + 1>>)
    <3>1. r = Ring(c) - 1
      <4>1. Ring(c) - 1 <= r
        BY <1>4, <1>5
      <4>2. r \in 0 .. 8 /\ r <= x /\ r <= y + 1 /\ r <= 8 - x /\ r <= 8 - (y + 1)
        BY <1>3, <1>5
      <4> HIDE DEF r
      <4> QED
        BY <1>1, <2>4, <4>1, <4>2
    <3> QED
      BY <1>2, <3>1
  <2> QED
    BY <1>1, <2>1, <2>2, <2>3, <2>4
<1> QED
  BY <1>1, <1>2, <1>6, <1>7

\* After s steps the border of one buffer is known and that of the other is not, by turns,
\* and s - 1 rings of inner cells are not known.
Spread(u, s) ==
    \A c \in cells : u[c] = Unknown <=> \/ Ring(c) = 0 /\ s % 2 = 1
                                        \/ Ring(c) # 0 /\ Ring(c) < s
FvmInv ==
    /\ Thread = 1 .. 1 /\ DOMAIN mem = {"s", "u", "u_new"}
    /\ pc[1] \in {82, End}
    /\ mem.s \in Nat
    /\ Spread(mem.u, mem.s)
    /\ \A c \in cells : Ring(c) = 0 => (mem.u_new[c] = Unknown <=> mem.s % 2 = 0)

LEMMA FvmSpreads ==
  ASSUME NEW s \in Nat, NEW u, NEW u_new, Spread(u, s),
         \A c \in cells : Ring(c) = 0 => (u_new[c] = Unknown <=> s % 2 = 0)
  PROVE  Spread(fvm_diffusion_step(u, u_new), s + 1)
<1> DEFINE v == fvm_diffusion_step(u, u_new)
<1>0. s % 2 \in {0, 1} /\ (s + 1) % 2 = 1 - (s % 2)
  OBVIOUS
<1>1. SUFFICES ASSUME NEW c \in cells
               PROVE  v[c] = Unknown <=> \/ Ring(c) = 0 /\ (s + 1) % 2 = 1
                                         \/ Ring(c) # 0 /\ Ring(c) < s + 1
  BY DEF Spread
<1>2. CASE Ring(c) = 0
  <2>1. v[c] = u_new[c]
    BY <1>2, RingIs DEF fvm_diffusion_step
  <2> QED
    BY <1>0, <1>2, <2>1
<1>3. CASE Ring(c) # 0
  <2>0. Inner(c) /\ Ring(c) \in 1 .. 8
    BY <1>3, RingIs
  <2>1. v[c] = IF \E d \in Around(c) : u[d] = Unknown THEN Unknown ELSE <<"known">>
    BY <2>0 DEF fvm_diffusion_step
  <2>2. v[c] = Unknown <=> \E d \in Around(c) : u[d] = Unknown
    BY <2>1 DEF Unknown
  <2>3. ASSUME Ring(c) < s + 1 PROVE \E d \in Around(c) : u[d] = Unknown
    <3>1. CASE Ring(c) < s
      BY <1>3, <2>0, <3>1, RingsAround DEF Spread
    <3>2. CASE Ring(c) = s
      <4>1. PICK d \in Around(c) : Ring(d) = s - 1
        BY <2>0, <3>2, RingsAround
      <4>2. d \in cells
        BY <2>0, RingsAround
      <4>3. s - 1 = 0 => s % 2 = 1
        BY <2>0, <3>2
      <4> QED
        BY <4>1, <4>2, <4>3 DEF Spread
    <3> QED
      BY <2>0, <2>3, <3>1, <3>2
  <2>4. ASSUME NEW d \in Around(c), u[d] = Unknown PROVE Ring(c) < s + 1
    <3>1. d \in cells /\ Ring(c) - 1 <= Ring(d)
      BY <2>0, RingsAround
    <3>2. Ring(d) \in 0 .. 8
      BY <3>1, RingIs
    <3>3. (Ring(d) = 0 /\ s % 2 = 1) \/ (Ring(d) # 0 /\ Ring(d) < s)
      BY <2>4, <3>1 DEF Spread
    <3>4. s % 2 = 1 => s # 0
      OBVIOUS
    <3> QED
      BY <2>0, <3>1, <3>2, <3>3, <3>4
  <2> QED
    BY <1>3, <2>2, <2>3, <2>4
<1> QED
  BY <1>2, <1>3, RingIs

LEMMA FvmKept ==
  ASSUME FvmInv, NEW t \in Thread, fvm_main(t)
  PROVE  FvmInv'
<1>0. t = 1
  BY DEF FvmInv
<1>1. /\ Thread' = 1 .. 1 /\ pc'[1] \in {82, End}
      /\ \/ mem' = mem
         \/ mem' = [mem EXCEPT !.s = mem.s + 1, !.u = fvm_diffusion_step(mem.u, mem.u_new),
                               !.u_new = mem.u]
  BY <1>0 DEF fvm_main, Step, Goto, FvmInv, Thread
<1>2. CASE mem' = mem
  BY <1>1, <1>2 DEF FvmInv
<1>3. CASE mem' = [mem EXCEPT !.s = mem.s + 1, !.u = fvm_diffusion_step(mem.u, mem.u_new),
                              !.u_new = mem.u]
  <2> DEFINE v == fvm_diffusion_step(mem.u, mem.u_new)
  <2>1. Spread(v, mem.s + 1)
    BY FvmSpreads DEF FvmInv
  <2> HIDE DEF v
  <2>2. /\ mem'.s = mem.s + 1 /\ mem'.u = v /\ mem'.u_new = mem.u
        /\ DOMAIN mem' = {"s", "u", "u_new"}
    BY <1>3 DEF FvmInv, v
  <2>3. mem.s % 2 = 1 <=> (mem.s + 1) % 2 = 0
    BY DEF FvmInv
  <2>4. \A c \in cells : Ring(c) = 0 => (mem.u[c] = Unknown <=> (mem.s + 1) % 2 = 0)
    BY <2>3 DEF FvmInv, Spread
  <2> QED
    BY <1>1, <2>1, <2>2, <2>4 DEF FvmInv
<1> QED
  BY <1>1, <1>2, <1>3

LEMMA FvmRings ==
  ASSUME FvmInv
  PROVE  {c \in cells : Inner(c) /\ mem.u[c] = Unknown}
           = {c \in cells : Ring(c) \in 1 .. mem.s - 1}
<1>1. ASSUME NEW c \in cells
      PROVE  Inner(c) /\ mem.u[c] = Unknown <=> Ring(c) \in 1 .. mem.s - 1
  <2>1. Ring(c) \in 0 .. 8 /\ (Inner(c) <=> Ring(c) # 0) /\ mem.s \in Nat
    BY RingIs DEF FvmInv
  <2>2. mem.u[c] = Unknown <=> \/ Ring(c) = 0 /\ mem.s % 2 = 1
                               \/ Ring(c) # 0 /\ Ring(c) < mem.s
    BY DEF FvmInv, Spread
  <2> QED
    BY <2>1, <2>2
<1> QED
  BY <1>1

-----------------------------------------------------------------------------
\* The selection

\* parallel.cpp: how many elements are kept up to one.
LEMMA KeptCounts ==
  ASSUME NEW v, NEW k \in Nat
  PROVE  /\ Kept(v, 0) = 0 /\ Kept(v, k) \in Nat
         /\ Kept(v, k + 1) = IF predicate(v[k + 1]) THEN Kept(v, k) + 1 ELSE Kept(v, k)
<1> DEFINE K(n) == {i \in 1 .. n : predicate(v[i])}
<1>1. IsFiniteSet(K(k)) /\ k + 1 \notin K(k)
  <2>1. IsFiniteSet(1 .. k) /\ K(k) \subseteq 1 .. k
    BY FS_Interval
  <2> QED
    BY <2>1, FS_Subset
<1>2. K(k + 1) = IF predicate(v[k + 1]) THEN K(k) \cup {k + 1} ELSE K(k)
  <2>1. 1 .. k + 1 = (1 .. k) \cup {k + 1} /\ k + 1 \notin 1 .. k
    OBVIOUS
  <2> QED
    BY <2>1
<1>3. K(0) = {}
  OBVIOUS
<1>4. Kept(v, 0) = Cardinality(K(0)) /\ Kept(v, k) = Cardinality(K(k))
      /\ Kept(v, k + 1) = Cardinality(K(k + 1))
  BY DEF Kept
<1> HIDE DEF K
<1>5. Cardinality(K(0)) = 0 /\ Cardinality(K(k)) \in Nat
  BY <1>1, <1>3, FS_EmptySet, FS_CardinalityType
<1>6. Cardinality(K(k) \cup {k + 1}) = Cardinality(K(k)) + 1
  BY <1>1, FS_AddElement
<1> QED
  BY <1>2, <1>4, <1>5, <1>6

LEMMA KeptMonotone ==
  ASSUME NEW v, NEW i \in Nat, NEW j \in Nat, i <= j
  PROVE  Kept(v, i) <= Kept(v, j)
<1> DEFINE K(n) == {m \in 1 .. n : predicate(v[m])}
<1>1. IsFiniteSet(K(j))
  <2>1. IsFiniteSet(1 .. j) /\ K(j) \subseteq 1 .. j
    BY FS_Interval
  <2> QED
    BY <2>1, FS_Subset
<1>2. K(i) \subseteq K(j)
  OBVIOUS
<1>3. Kept(v, i) = Cardinality(K(i)) /\ Kept(v, j) = Cardinality(K(j))
  BY DEF Kept
<1> HIDE DEF K
<1> QED
  BY <1>1, <1>2, <1>3, FS_Subset

\* Each number up to the count is that of a kept element, and of one only.
LEMMA KeptGrows ==
  ASSUME NEW v, NEW i \in Nat, NEW j \in Nat, i < j, predicate(v[j])
  PROVE  Kept(v, i) < Kept(v, j)
<1>1. j - 1 \in Nat /\ (j - 1) + 1 = j /\ i <= j - 1
  OBVIOUS
<1>2. /\ Kept(v, i) \in Nat /\ Kept(v, j - 1) \in Nat
      /\ Kept(v, j) = Kept(v, j - 1) + 1
  BY <1>1, KeptCounts
<1>3. Kept(v, i) <= Kept(v, j - 1)
  BY <1>1, KeptMonotone
<1> QED
  BY <1>2, <1>3

LEMMA KeptAtSome ==
  ASSUME NEW v, NEW n \in Nat, NEW k \in 1 .. Kept(v, n)
  PROVE  \E i \in 1 .. n : predicate(v[i]) /\ Kept(v, i) = k
<1> DEFINE T == {i \in Nat : Kept(v, i) >= k}
<1>0. Kept(v, n) \in Nat /\ k \in Nat /\ k > 0 /\ Kept(v, n) >= k
  BY KeptCounts
<1>1. PICK i \in T : \A m \in T : i <= m
  <2>1. T \subseteq Nat /\ n \in T
    BY <1>0
  <2> HIDE DEF T
  <2> QED
    BY <2>1, LeastNumber
<1>2. i \in Nat /\ Kept(v, i) >= k /\ Kept(v, i) \in Nat
  BY <1>1, KeptCounts
<1>3. i <= n /\ (i # 0 => i - 1 \notin T)
  <2>1. n \in T
    BY <1>0
  <2>2. i # 0 => ~ (i <= i - 1)
    BY <1>2
  <2> HIDE DEF T
  <2> QED
    BY <1>1, <2>1, <2>2
<1>4. i # 0
  BY <1>0, <1>2, KeptCounts
<1>5. i - 1 \in Nat /\ (i - 1) + 1 = i /\ Kept(v, i - 1) \in Nat /\ ~ (Kept(v, i - 1) >= k)
  <2>1. i - 1 \in Nat /\ (i - 1) + 1 = i
    BY <1>2, <1>4
  <2> QED
    BY <1>3, <1>4, <2>1, KeptCounts
<1>6. Kept(v, i) = IF predicate(v[i]) THEN Kept(v, i - 1) + 1 ELSE Kept(v, i - 1)
  BY <1>5, KeptCounts
<1>7. predicate(v[i]) /\ Kept(v, i) = k
  BY <1>0, <1>2, <1>5, <1>6
<1> QED
  BY <1>2, <1>3, <1>4, <1>7

\* w has each kept element at its number.
LEMMA CompactedFrom ==
  ASSUME NEW v, DOMAIN v = 1 .. Elements, NEW w, DOMAIN w = 1 .. Kept(v, Elements),
         \A i \in 1 .. Elements : predicate(v[i]) => w[Kept(v, i)] = v[i]
  PROVE  Compacted(v, w)
<1> DEFINE n == Elements
           place == [k \in 1 .. Kept(v, n) |->
                         CHOOSE i \in 1 .. n : predicate(v[i]) /\ Kept(v, i) = k]
<1>0. n \in Nat /\ Kept(v, n) \in Nat
  BY KernelAssumption, KeptCounts
<1>1. ASSUME NEW k \in 1 .. Kept(v, n)
      PROVE  place[k] \in 1 .. n /\ predicate(v[place[k]]) /\ Kept(v, place[k]) = k
  <2>1. \E i \in 1 .. n : predicate(v[i]) /\ Kept(v, i) = k
    BY <1>0, KeptAtSome
  <2> QED
    BY <2>1
<1>2. place \in [DOMAIN w -> DOMAIN v]
  BY <1>1
<1> HIDE DEF place
<1>3. ASSUME NEW j \in DOMAIN w, NEW k \in DOMAIN w, j < k PROVE place[j] < place[k]
  <2>1. /\ place[j] \in Nat /\ place[k] \in Nat /\ Kept(v, place[j]) = j /\ Kept(v, place[k]) = k
        /\ predicate(v[place[j]])
    BY <1>0, <1>1
  <2>2. j \in Nat /\ k \in Nat
    BY <1>0
  <2>3. place[k] < place[j] => k < j
    BY <2>1, KeptGrows
  <2>4. place[k] = place[j] => k = j
    BY <2>1
  <2> QED
    BY <1>3, <2>1, <2>2, <2>3, <2>4
<1>4. {place[k] : k \in DOMAIN w} = {i \in DOMAIN v : predicate(v[i])}
  <2>1. ASSUME NEW i \in 1 .. n, predicate(v[i])
        PROVE  \E k \in DOMAIN w : i = place[k]
    <3> DEFINE k == Kept(v, i)
    <3>1. k \in 1 .. Kept(v, n)
      <4>1. i \in Nat /\ i - 1 \in Nat /\ (i - 1) + 1 = i /\ i <= n
        BY <1>0
      <4>2. k \in Nat /\ Kept(v, i - 1) \in Nat /\ k = Kept(v, i - 1) + 1
        BY <2>1, <4>1, KeptCounts
      <4>3. k <= Kept(v, n)
        BY <1>0, <4>1, KeptMonotone
      <4> QED
        BY <1>0, <4>2, <4>3
    <3>2. place[k] \in 1 .. n /\ predicate(v[place[k]]) /\ Kept(v, place[k]) = k
      BY <1>1, <3>1
    <3>3. PICK p : p = place[k]
      OBVIOUS
    <3>4. p = i
      <4>1. i \in Nat /\ p \in Nat /\ Kept(v, i) \in Nat
        BY <1>0, <3>1, <3>2, <3>3
      <4>2. predicate(v[p]) /\ Kept(v, p) = Kept(v, i)
        BY <3>2, <3>3
      <4>3. p < i => Kept(v, p) < Kept(v, i)
        BY <2>1, <4>1, KeptGrows
      <4>4. i < p => Kept(v, i) < Kept(v, p)
        BY <4>1, <4>2, KeptGrows
      <4> QED
        BY <4>1, <4>2, <4>3, <4>4
    <3> QED
      BY <3>1, <3>3, <3>4
  <2> QED
    BY <1>1, <2>1
<1>5. \A k \in DOMAIN w : w[k] = v[place[k]]
  BY <1>1
<1> QED
  BY <1>2, <1>3, <1>4, <1>5 DEF Compacted

\* Of the elements that no item has still to handle, those to keep are at their numbers.
Scattered(todo) ==
    /\ mem.v \in [1 .. Elements -> {1, 3, 6}]
    /\ mem.index = [i \in 1 .. Elements |-> Kept(mem.v, i)]
    /\ DOMAIN mem.w = 1 .. Kept(mem.v, Elements)
    /\ todo \subseteq 1 .. Elements
    /\ \A i \in 1 .. Elements \ todo :
          predicate(mem.v[i]) => mem.w[Kept(mem.v, i)] = mem.v[i]
SelectInv ==
    /\ Thread = 1 .. Elements + 1 /\ DOMAIN mem = {"v", "index", "w", "todo"}
    /\ pc[1] \in {88, 93, 94, 126, 128, End}
    /\ pc[1] = 93 => mem.v \in [1 .. Elements -> {1, 3, 6}]
    /\ pc[1] \in {94, 126, 128, End} => Scattered(mem.todo)
    /\ pc[1] \in {88, 93, 126, End} => mem.todo = {}

LEMMA SelectScans ==
  ASSUME mem.v \in [1 .. Elements -> {1, 3, 6}], mem' = select_scan(mem),
         DOMAIN mem = {"v", "index", "w", "todo"}
  PROVE  Scattered(mem.todo)' /\ DOMAIN mem' = {"v", "index", "w", "todo"}
<1> DEFINE w == [k \in 1 .. Kept(mem.v, Elements) |-> IF k \in DOMAIN mem.w THEN mem.w[k] ELSE 0]
<1>1. mem' = [mem EXCEPT !.index = [i \in 1 .. Elements |-> Kept(mem.v, i)],
                         !.w = w, !.todo = 1 .. Elements]
  BY DEF select_scan
<1>2. DOMAIN w = 1 .. Kept(mem.v, Elements)
  OBVIOUS
<1> HIDE DEF w
<1>3. /\ DOMAIN mem' = {"v", "index", "w", "todo"} /\ mem'.v = mem.v /\ mem'.w = w
      /\ mem'.index = [i \in 1 .. Elements |-> Kept(mem.v, i)] /\ mem'.todo = 1 .. Elements
  BY <1>1
<1> QED
  BY <1>2, <1>3 DEF Scattered

\* An item handles its element: no other has the same number.
LEMMA SelectScatters ==
  ASSUME Scattered(mem.todo), NEW i \in mem.todo, DOMAIN mem = {"v", "index", "w", "todo"},
         mem' = IF predicate(mem.v[i])
                THEN [mem EXCEPT !.w[mem.index[i]] = mem.v[i], !.todo = mem.todo \ {i}]
                ELSE [mem EXCEPT !.todo = mem.todo \ {i}]
  PROVE  Scattered(mem.todo)' /\ DOMAIN mem' = {"v", "index", "w", "todo"}
<1>0. i \in 1 .. Elements /\ mem.index[i] = Kept(mem.v, i) /\ Elements \in Nat
  BY KernelAssumption DEF Scattered
<1>1. /\ DOMAIN mem' = {"v", "index", "w", "todo"} /\ mem'.v = mem.v
      /\ mem'.index = mem.index /\ mem'.todo = mem.todo \ {i}
      /\ mem'.w = IF predicate(mem.v[i]) THEN [mem.w EXCEPT ![Kept(mem.v, i)] = mem.v[i]]
                  ELSE mem.w
  BY <1>0
<1>2. Kept(mem.v, i) \in DOMAIN mem.w \/ ~ predicate(mem.v[i])
  <2>1. ASSUME predicate(mem.v[i]) PROVE Kept(mem.v, i) \in 1 .. Kept(mem.v, Elements)
    <3>1. i \in Nat /\ i - 1 \in Nat /\ (i - 1) + 1 = i /\ i <= Elements
      BY <1>0
    <3>2. /\ Kept(mem.v, i) \in Nat /\ Kept(mem.v, i - 1) \in Nat
          /\ Kept(mem.v, i) = Kept(mem.v, i - 1) + 1 /\ Kept(mem.v, Elements) \in Nat
      BY <1>0, <2>1, <3>1, KeptCounts
    <3>3. Kept(mem.v, i) <= Kept(mem.v, Elements)
      BY <1>0, <3>1, KeptMonotone
    <3> QED
      BY <3>2, <3>3
  <2> QED
    BY <2>1 DEF Scattered
<1>3. ASSUME NEW o \in 1 .. Elements \ mem'.todo, predicate(mem.v[o])
      PROVE  mem'.w[Kept(mem.v, o)] = mem.v[o]
  <2>1. CASE o = i
    BY <1>1, <1>2, <1>3, <2>1
  <2>2. CASE o # i
    <3>1. mem.w[Kept(mem.v, o)] = mem.v[o]
      BY <1>1, <1>3, <2>2 DEF Scattered
    <3>2. predicate(mem.v[i]) => Kept(mem.v, o) # Kept(mem.v, i)
      <4>1. o \in Nat /\ i \in Nat /\ (o < i \/ i < o)
        BY <1>0, <2>2
      <4>2. Kept(mem.v, o) \in Nat /\ Kept(mem.v, i) \in Nat
        BY <4>1, KeptCounts
      <4> QED
        BY <1>3, <4>1, <4>2, KeptGrows
    <3> QED
      BY <1>1, <3>1, <3>2
  <2> QED
    BY <2>1, <2>2
<1> QED
  BY <1>1, <1>3 DEF Scattered

LEMMA SelectKept ==
  ASSUME SelectInv, NEW t \in Thread, IF t = 1 THEN select_main(t) ELSE select_item(t)
  PROVE  SelectInv'
<1>0. 1 \in DOMAIN pc /\ Elements \in Nat
  BY KernelAssumption DEF SelectInv, Thread
<1>1. CASE t = 1
  <2>0. /\ Thread' = 1 .. Elements + 1
        /\ \A to : pc' = [pc EXCEPT ![1] = to] => pc'[1] = to
    BY <1>0, <1>1 DEF select_main, Step, Test, Await, Goto, SelectInv, Thread
  <2>1. CASE \E v \in [1 .. Elements -> {1, 3, 6}] : Step(t, 88, [mem EXCEPT !.v = v], 93)
    <3>1. PICK v \in [1 .. Elements -> {1, 3, 6}] : Step(t, 88, [mem EXCEPT !.v = v], 93)
      BY <2>1
    <3>2. pc[1] = 88 /\ pc'[1] = 93 /\ mem' = [mem EXCEPT !.v = v]
      BY <1>1, <2>0, <3>1 DEF Step, At, Goto
    <3> QED
      BY <2>0, <3>2 DEF SelectInv, End
  <2>2. CASE Step(t, 93, select_scan(mem), 94)
    <3>1. pc[1] = 93 /\ pc'[1] = 94 /\ mem' = select_scan(mem)
      BY <1>1, <2>0, <2>2 DEF Step, At, Goto
    <3>2. Scattered(mem.todo)' /\ DOMAIN mem' = {"v", "index", "w", "todo"}
      BY <3>1, SelectScans DEF SelectInv
    <3> QED
      BY <2>0, <3>1, <3>2 DEF SelectInv, End
  <2>3. CASE /\ mem.todo = {}
             /\ Test(t, 94, mem.w = <<>> \/ \E k \in DOMAIN mem.w : ~predicate(mem.w[k]),
                     End, 126)
    <3>1. pc[1] = 94 /\ pc'[1] \in {End, 126} /\ mem' = mem
      BY <1>1, <2>0, <2>3 DEF Test, Step, At, Goto
    <3> QED
      BY <2>0, <2>3, <3>1 DEF SelectInv, Scattered, End
  <2>4. CASE Step(t, 126, select_scan(mem), 128)
    <3>1. pc[1] = 126 /\ pc'[1] = 128 /\ mem' = select_scan(mem)
      BY <1>1, <2>0, <2>4 DEF Step, At, Goto
    <3>2. Scattered(mem.todo)' /\ DOMAIN mem' = {"v", "index", "w", "todo"}
      BY <3>1, SelectScans DEF SelectInv, Scattered
    <3> QED
      BY <2>0, <3>1, <3>2 DEF SelectInv, End
  <2>5. CASE Await(t, 128, mem.todo = {}, mem, End)
    <3>1. pc[1] = 128 /\ pc'[1] = End /\ mem' = mem /\ mem.todo = {}
      BY <1>1, <2>0, <2>5 DEF Await, Step, At, Goto
    <3> QED
      BY <2>0, <3>1 DEF SelectInv, Scattered, End
  <2> QED
    BY <1>1, <2>1, <2>2, <2>3, <2>4, <2>5 DEF select_main
<1>2. CASE t # 1
  <2>1. pc'[1] = pc[1] /\ Thread' = 1 .. Elements + 1
    BY <1>0, <1>2 DEF select_item, Step, Await, Goto, SelectInv, Thread
  <2>2. CASE mem' = mem
    BY <2>1, <2>2 DEF SelectInv, Scattered
  <2>3. CASE mem' # mem
    <3> DEFINE i == t - 1
    <3>1. /\ i \in mem.todo
          /\ mem' = IF predicate(mem.v[i])
                    THEN [mem EXCEPT !.w[mem.index[i]] = mem.v[i], !.todo = mem.todo \ {i}]
                    ELSE [mem EXCEPT !.todo = mem.todo \ {i}]
      BY <1>2, <2>3 DEF select_item, Await, Step
    <3> HIDE DEF i
    <3>2. pc[1] \in {94, 128}
      BY <3>1 DEF SelectInv
    <3>3. Scattered(mem.todo)' /\ DOMAIN mem' = {"v", "index", "w", "todo"}
      BY <3>1, <3>2, SelectScatters DEF SelectInv
    <3> QED
      BY <2>1, <3>2, <3>3 DEF SelectInv, End
  <2> QED
    BY <2>2, <2>3
<1> QED
  BY <1>1, <1>2

LEMMA SelectCompacts ==
  ASSUME SelectInv, Ended(1)
  PROVE  Compacted(mem.v, mem.w)
<1>1. Scattered(mem.todo) /\ mem.todo = {}
  BY DEF SelectInv, Ended
<1> QED
  BY <1>1, CompactedFrom DEF Scattered

-----------------------------------------------------------------------------
\* The tiles

First(f, n) == [k \in 1 .. n |-> f[k]]
Following(f, n, m) == [k \in 1 .. m |-> f[n + k]]

LEMMA Continued ==
  ASSUME NEW V, NEW f \in [Nat -> V], NEW n \in Nat, NEW m \in Nat
  PROVE  First(f, n) \o Following(f, n, m) = First(f, n + m)
<1> DEFINE first == [k \in 1 .. n |-> f[k]]
           second == [k \in 1 .. m |-> f[n + k]]
           all == [k \in 1 .. n + m |-> f[k]]
<1>1. first \in Seq(V) /\ second \in Seq(V) /\ all \in Seq(V) /\ n + m \in Nat
  OBVIOUS
<1>2. Len(first) = n /\ Len(second) = m /\ Len(all) = n + m
  OBVIOUS
<1>3. /\ \A k \in 1 .. n : first[k] = f[k]
      /\ \A k \in 1 .. m : second[k] = f[n + k]
      /\ \A k \in 1 .. n + m : all[k] = f[k]
  OBVIOUS
<1> HIDE DEF first, second, all
<1>4. first \o second \in Seq(V) /\ Len(first \o second) = n + m
  BY <1>1, <1>2, ConcatProperties
<1>5. ASSUME NEW k \in 1 .. n + m PROVE (first \o second)[k] = all[k]
  <2>1. (first \o second)[k] = IF k <= n THEN first[k] ELSE second[k - n]
    BY <1>1, <1>2, ConcatProperties
  <2>2. k > n => k - n \in 1 .. m /\ n + (k - n) = k
    OBVIOUS
  <2>3. k <= n => k \in 1 .. n
    OBVIOUS
  <2> QED
    BY <1>3, <2>1, <2>2, <2>3
<1> QED
  BY <1>1, <1>2, <1>4, <1>5, SeqEqual DEF first, second, all, First, Following

\* nonlinear_tiled_matmul.cu: an item that has come through b barriers has loaded the tile at
\* LoadedAt(b) last.
LoadedAt(b) == IF b <= 2 THEN 0 ELSE 2
Term(t, k) == <<<<mem.block[2] + ty(t), k - 1>>, <<k - 1, mem.block[1] + tx(t)>>>>

\* Where an item is, what it has summed and what it has left in the tiles.
TileItem(t) ==
    /\ pc[t] \in {22, 32, 49, End}
    /\ pc[t] = 22 => mem.barriers[t] \in {0, 2, 4} /\ mem.t[t] = mem.barriers[t]
    /\ pc[t] = 32 => mem.barriers[t] \in {1, 3} /\ mem.t[t] = mem.barriers[t] - 1
    /\ pc[t] \in {49, End} => mem.barriers[t] = 5 /\ mem.t[t] = 4
    /\ mem.acc[t] = [k \in 1 .. mem.t[t] |-> Term(t, k)]
    /\ mem.barriers[t] # 0 =>
          /\ mem.tile_x[ty(t)][tx(t)]
               = <<mem.block[2] + ty(t), LoadedAt(mem.barriers[t]) + tx(t)>>
          /\ mem.tile_y[ty(t)][tx(t)]
               = <<LoadedAt(mem.barriers[t]) + ty(t), mem.block[1] + tx(t)>>
Tile(f) == DOMAIN f = 0 .. 1 /\ \A r \in 0 .. 1 : DOMAIN f[r] = 0 .. 1

\* No item is more than one barrier ahead of another.
TiledInv ==
    /\ Thread = 1 .. 5
    /\ DOMAIN mem = {"launched", "block", "z", "t", "acc", "barriers", "tile_x", "tile_y"}
    /\ DOMAIN mem.t = 1 .. 5 /\ DOMAIN mem.acc = 1 .. 5 /\ DOMAIN mem.barriers = 1 .. 5
    /\ Tile(mem.tile_x) /\ Tile(mem.tile_y)
    /\ mem.launched \in {"no", "yes"} /\ (mem.launched = "no" <=> pc[1] = 73)
    /\ \A t \in 2 .. 5 : TileItem(t)
    /\ \A t, u \in 2 .. 5 : mem.barriers[t] <= mem.barriers[u] + 1
    /\ mem.launched = "no" => \A t \in 2 .. 5 : mem.barriers[t] = 0
    /\ \/ mem.z = {}
       \/ /\ \A u \in 2 .. 3 : mem.barriers[u] = 5
          /\ mem.z = {mem.acc[2], mem.acc[3]}

LEMMA TileNumbers ==
    /\ tx(2) = 0 /\ tx(3) = 1 /\ tx(4) = 0 /\ tx(5) = 1
    /\ ty(2) = 0 /\ ty(3) = 0 /\ ty(4) = 1 /\ ty(5) = 1
BY DEF tx, ty, global_id, BlockSize

\* Each place of the tile is one item's.
LEMMA TilePlaces ==
    /\ \A t \in 2 .. 5 : tx(t) \in 0 .. 1 /\ ty(t) \in 0 .. 1
    /\ \A t, u \in 2 .. 5 : t # u => tx(t) # tx(u) \/ ty(t) # ty(u)
    /\ \A r, c \in 0 .. 1 : \E u \in 2 .. 5 : ty(u) = r /\ tx(u) = c
<1>1. 2 .. 5 = {2, 3, 4, 5} /\ 0 .. 1 = {0, 1}
  OBVIOUS
<1> QED
  BY <1>1, TileNumbers

Put(f, t, v) == [f EXCEPT ![ty(t)][tx(t)] = v]

LEMMA TileSet ==
  ASSUME NEW f, Tile(f), NEW t \in 2 .. 5, NEW v
  PROVE  /\ Tile(Put(f, t, v)) /\ Put(f, t, v)[ty(t)][tx(t)] = v
         /\ \A u \in 2 .. 5 : u # t => Put(f, t, v)[ty(u)][tx(u)] = f[ty(u)][tx(u)]
<1> DEFINE g == Put(f, t, v)
<1>1. tx(t) \in 0 .. 1 /\ ty(t) \in 0 .. 1
  BY TilePlaces
<1>2. Tile(g) /\ g[ty(t)][tx(t)] = v
  BY <1>1 DEF Tile, Put
<1>3. ASSUME NEW u \in 2 .. 5, u # t PROVE g[ty(u)][tx(u)] = f[ty(u)][tx(u)]
  <2>1. tx(u) \in 0 .. 1 /\ ty(u) \in 0 .. 1 /\ (tx(u) # tx(t) \/ ty(u) # ty(t))
    BY <1>3, TilePlaces
  <2> QED
    BY <1>1, <2>1 DEF Tile, Put
<1> QED
  BY <1>2, <1>3

\* What a step of item t does to the counts, and that it leaves the other items alone.
TileStep(t, count) ==
    /\ Thread' = 1 .. 5 /\ pc'[1] = pc[1] /\ mem'.launched = mem.launched
    /\ DOMAIN mem' = DOMAIN mem /\ mem'.block = mem.block
    /\ DOMAIN mem'.t = 1 .. 5 /\ DOMAIN mem'.acc = 1 .. 5 /\ DOMAIN mem'.barriers = 1 .. 5
    /\ Tile(mem'.tile_x) /\ Tile(mem'.tile_y)
    /\ mem'.barriers[t] = count
    /\ \A u \in 2 .. 5 : u # t =>
          /\ pc'[u] = pc[u] /\ mem'.barriers[u] = mem.barriers[u]
          /\ mem'.t[u] = mem.t[u] /\ mem'.acc[u] = mem.acc[u]
          /\ mem'.tile_x[ty(u)][tx(u)] = mem.tile_x[ty(u)][tx(u)]
          /\ mem'.tile_y[ty(u)][tx(u)] = mem.tile_y[ty(u)][tx(u)]

LEMMA TileOthers ==
  ASSUME TiledInv, NEW t \in 2 .. 5, NEW count, TileStep(t, count), NEW u \in 2 .. 5, u # t
  PROVE  TileItem(u)'
<1>1. TileItem(u)
  BY DEF TiledInv
<1>2. \A k : Term(u, k)' = Term(u, k)
  BY DEF Term, TileStep
<1>3. /\ pc'[u] = pc[u] /\ mem'.barriers[u] = mem.barriers[u]
      /\ mem'.t[u] = mem.t[u] /\ mem'.acc[u] = mem.acc[u] /\ mem'.block = mem.block
      /\ mem'.tile_x[ty(u)][tx(u)] = mem.tile_x[ty(u)][tx(u)]
      /\ mem'.tile_y[ty(u)][tx(u)] = mem.tile_y[ty(u)][tx(u)]
  BY DEF TileStep
<1>4. [k \in 1 .. mem.t[u] |-> Term(u, k)'] = [k \in 1 .. mem.t[u] |-> Term(u, k)]
  BY <1>2
<1> QED
  BY <1>1, <1>3, <1>4 DEF TileItem

\* An item that comes through a barrier may be one ahead of those who have come as far.
LEMMA TilePasses ==
  ASSUME TiledInv, NEW t \in 2 .. 5, mem.launched = "yes",
         Passed(t, Items), TileStep(t, mem.barriers[t] + 1), TileItem(t)',
         mem'.z = mem.z, mem.barriers[t] # 5
  PROVE  TiledInv'
<1>0. Items = 2 .. 5 /\ \A u \in 2 .. 5 : mem.barriers[u] \in 0 .. 5
  BY DEF TiledInv, Items, TileItem
<1>1. \A u \in 2 .. 5 : mem.barriers[u] >= mem.barriers[t]
  BY <1>0 DEF Passed
<1>2. \A u \in 2 .. 5 : TileItem(u)'
  BY TileOthers
<1>3. ASSUME NEW u \in 2 .. 5, NEW o \in 2 .. 5
      PROVE  mem'.barriers[u] <= mem'.barriers[o] + 1
  <2>1. /\ mem.barriers[u] <= mem.barriers[o] + 1 /\ mem.barriers[u] <= mem.barriers[t] + 1
        /\ mem.barriers[t] <= mem.barriers[o]
    BY <1>1 DEF TiledInv
  <2>2. mem'.barriers[u] = IF u = t THEN mem.barriers[t] + 1 ELSE mem.barriers[u]
    BY DEF TileStep
  <2>3. mem'.barriers[o] = IF o = t THEN mem.barriers[t] + 1 ELSE mem.barriers[o]
    BY DEF TileStep
  <2>4. mem.barriers[u] \in Int /\ mem.barriers[o] \in Int /\ mem.barriers[t] \in Int
    BY <1>0
  <2> QED
    BY <2>1, <2>2, <2>3, <2>4
<1>4. \/ mem'.z = {}
      \/ /\ \A u \in 2 .. 3 : mem'.barriers[u] = 5
         /\ mem'.z = {mem'.acc[2], mem'.acc[3]}
  <2>1. CASE mem.z = {}
    BY <2>1
  <2>2. CASE /\ \A u \in 2 .. 3 : mem.barriers[u] = 5
             /\ mem.z = {mem.acc[2], mem.acc[3]}
    <3>1. t # 2 /\ t # 3 /\ 2 \in 2 .. 5 /\ 3 \in 2 .. 5
      BY <2>2
    <3>2. /\ mem'.acc[2] = mem.acc[2] /\ mem'.acc[3] = mem.acc[3]
          /\ mem'.barriers[2] = mem.barriers[2] /\ mem'.barriers[3] = mem.barriers[3]
      BY <3>1 DEF TileStep
    <3> QED
      BY <2>2, <3>2
  <2> QED
    BY <2>1, <2>2 DEF TiledInv
<1> QED
  BY <1>2, <1>3, <1>4 DEF TiledInv, TileStep

LEMMA TileLoads ==
  ASSUME TiledInv, NEW t \in 2 .. 5, load_tile(t)
  PROVE  TiledInv'
<1> DEFINE b == mem.barriers[t]
           at == mem.t[t]
           X == <<mem.block[2] + ty(t), at + tx(t)>>
           Y == <<at + ty(t), mem.block[1] + tx(t)>>
<1>1. /\ mem.launched = "yes" /\ Passed(t, Items) /\ at < 4
      /\ pc[t] = 22 /\ pc' = [pc EXCEPT ![t] = 32]
      /\ mem' = Arrive(Loaded(t, at), t)
  BY DEF load_tile, Item, Await, Step, At, Goto, TiledInv, width, BlockSize
<1>2. b \in {0, 2} /\ at = b /\ mem.acc[t] = [k \in 1 .. at |-> Term(t, k)]
  <2>1. TileItem(t)
    BY DEF TiledInv
  <2> QED
    BY <1>1, <2>1 DEF TileItem, End
<1>3. /\ DOMAIN mem' = DOMAIN mem /\ mem'.launched = mem.launched /\ mem'.block = mem.block
      /\ mem'.z = mem.z /\ mem'.t = mem.t /\ mem'.acc = mem.acc
      /\ mem'.barriers = [mem.barriers EXCEPT ![t] = b + 1]
      /\ mem'.tile_x = Put(mem.tile_x, t, X) /\ mem'.tile_y = Put(mem.tile_y, t, Y)
  BY <1>1 DEF Arrive, Loaded, TiledInv, Put
<1>4. /\ Tile(mem'.tile_x) /\ mem'.tile_x[ty(t)][tx(t)] = X
      /\ \A u \in 2 .. 5 : u # t => mem'.tile_x[ty(u)][tx(u)] = mem.tile_x[ty(u)][tx(u)]
  <2> HIDE DEF X
  <2> QED
    BY <1>3, TileSet DEF TiledInv
<1>5. /\ Tile(mem'.tile_y) /\ mem'.tile_y[ty(t)][tx(t)] = Y
      /\ \A u \in 2 .. 5 : u # t => mem'.tile_y[ty(u)][tx(u)] = mem.tile_y[ty(u)][tx(u)]
  <2> HIDE DEF Y
  <2> QED
    BY <1>3, TileSet DEF TiledInv
<1>6. TileStep(t, b + 1) /\ pc'[t] = 32
  <2> HIDE DEF X, Y
  <2> QED
    BY <1>1, <1>3, <1>4, <1>5 DEF TileStep, TiledInv, Thread
<1>7. LoadedAt(b + 1) = at /\ b + 1 \in {1, 3} /\ at = (b + 1) - 1
  BY <1>2 DEF LoadedAt
<1>8. TileItem(t)'
  <2>1. \A k : Term(t, k)' = Term(t, k)
    BY <1>3 DEF Term
  <2>2. mem'.acc[t] = [k \in 1 .. mem'.t[t] |-> Term(t, k)']
    BY <1>2, <1>3, <2>1
  <2>3. mem'.barriers[t] = b + 1 /\ mem'.t[t] = at
    BY <1>3, <1>6 DEF TileStep
  <2>4. /\ mem'.tile_x[ty(t)][tx(t)] = <<mem'.block[2] + ty(t), at + tx(t)>>
        /\ mem'.tile_y[ty(t)][tx(t)] = <<at + ty(t), mem'.block[1] + tx(t)>>
    BY <1>3, <1>4, <1>5
  <2>5. /\ LoadedAt(mem'.barriers[t]) = at /\ mem'.barriers[t] \in {1, 3}
        /\ mem'.t[t] = mem'.barriers[t] - 1
    BY <1>7, <2>3
  <2> HIDE DEF b, at
  <2> QED
    BY <1>6, <2>2, <2>4, <2>5 DEF TileItem, End
<1>9. mem'.z = mem.z /\ b # 5
  BY <1>2, <1>3
<1> QED
  BY <1>1, <1>6, <1>8, <1>9, TilePasses

\* A row of one tile and a column of the other are those of the elements multiplied next:
\* all items that have filled them are as far as this one, or one barrier farther.
LEMMA TileRead ==
  ASSUME TiledInv, NEW t \in 2 .. 5, Passed(t, Items), mem.barriers[t] \in {1, 3},
         mem.t[t] = mem.barriers[t] - 1, NEW k \in 1 .. 2
  PROVE  <<mem.tile_x[ty(t)][k - 1], mem.tile_y[k - 1][tx(t)]>> = Term(t, mem.t[t] + k)
<1>0. k - 1 \in 0 .. 1 /\ ty(t) \in 0 .. 1 /\ tx(t) \in 0 .. 1 /\ Items = 2 .. 5
  BY TilePlaces DEF TiledInv, Items
<1>1. ASSUME NEW u \in 2 .. 5
      PROVE  mem.barriers[u] # 0 /\ LoadedAt(mem.barriers[u]) = mem.t[t]
  <2>1. mem.barriers[u] >= mem.barriers[t] /\ mem.barriers[u] <= mem.barriers[t] + 1
    BY <1>0 DEF Passed, TiledInv
  <2>2. mem.barriers[u] \in 0 .. 5
    BY DEF TiledInv, TileItem
  <2> QED
    BY <2>1, <2>2 DEF LoadedAt
<1>2. PICK u \in 2 .. 5 : ty(u) = ty(t) /\ tx(u) = k - 1
  BY <1>0, TilePlaces
<1>3. PICK o \in 2 .. 5 : ty(o) = k - 1 /\ tx(o) = tx(t)
  BY <1>0, TilePlaces
<1>4. mem.tile_x[ty(u)][tx(u)] = <<mem.block[2] + ty(u), mem.t[t] + tx(u)>>
  BY <1>1 DEF TiledInv, TileItem
<1>5. mem.tile_y[ty(o)][tx(o)] = <<mem.t[t] + ty(o), mem.block[1] + tx(o)>>
  BY <1>1 DEF TiledInv, TileItem
<1>6. mem.t[t] + (k - 1) = (mem.t[t] + k) - 1
  OBVIOUS
<1> QED
  BY <1>2, <1>3, <1>4, <1>5, <1>6 DEF Term

LEMMA TileUses ==
  ASSUME TiledInv, NEW t \in 2 .. 5, use_tile(t)
  PROVE  TiledInv'
<1> DEFINE b == mem.barriers[t]
           at == mem.t[t]
           Read == [k \in 1 .. 2 |-> <<mem.tile_x[ty(t)][k - 1], mem.tile_y[k - 1][tx(t)]>>]
<1>0. Passed(t, Items) /\ pc[t] = 32 /\ pc' = [pc EXCEPT ![t] = 22]
  BY DEF use_tile, Step, At, Goto
<1>1. mem' = Arrive([mem EXCEPT !.acc[t] = mem.acc[t] \o Read, !.t[t] = at + 2], t)
  BY DEF use_tile, Step, BlockSize
<1>2. /\ b \in {1, 3} /\ at = b - 1 /\ mem.acc[t] = [k \in 1 .. at |-> Term(t, k)]
      /\ mem.tile_x[ty(t)][tx(t)] = <<mem.block[2] + ty(t), LoadedAt(b) + tx(t)>>
      /\ mem.tile_y[ty(t)][tx(t)] = <<LoadedAt(b) + ty(t), mem.block[1] + tx(t)>>
  <2>1. TileItem(t)
    BY DEF TiledInv
  <2>2. b \in {1, 3} /\ at = b - 1
    BY <1>0, <2>1 DEF TileItem, End
  <2> QED
    BY <2>1, <2>2 DEF TileItem
<1>3. mem.launched = "yes"
  BY <1>2 DEF TiledInv
<1>4. Read = [k \in 1 .. 2 |-> Term(t, at + k)]
  <2>1. ASSUME NEW k \in 1 .. 2
        PROVE  <<mem.tile_x[ty(t)][k - 1], mem.tile_y[k - 1][tx(t)]>> = Term(t, at + k)
    BY <1>0, <1>2, TileRead
  <2> QED
    BY <2>1
<1>5. mem.acc[t] \o Read = [k \in 1 .. at + 2 |-> Term(t, k)]
  <2> DEFINE f == [k \in Nat |-> Term(t, k)]
  <2>1. f \in [Nat -> {Term(t, k) : k \in Nat}] /\ at \in Nat
    BY <1>2
  <2>2. \A k \in Nat : f[k] = Term(t, k)
    OBVIOUS
  <2> HIDE DEF f
  <2> HIDE DEF at
  <2>b. BlockSize \in Nat /\ BlockSize = 2
    BY DEF BlockSize
  <2>3. First(f, at) \o Following(f, at, BlockSize) = First(f, at + BlockSize)
    BY <2>1, <2>b, Continued
  <2>4. /\ First(f, at) = [k \in 1 .. at |-> Term(t, k)]
        /\ Following(f, at, BlockSize) = [k \in 1 .. 2 |-> Term(t, at + k)]
        /\ First(f, at + BlockSize) = [k \in 1 .. at + 2 |-> Term(t, k)]
    BY <2>1, <2>2, <2>b DEF First, Following
  <2> QED
    BY <1>2, <1>4, <2>3, <2>4
<1> DEFINE sum == mem.acc[t] \o Read
<1>6. /\ DOMAIN mem' = DOMAIN mem /\ mem'.launched = mem.launched /\ mem'.block = mem.block
      /\ mem'.z = mem.z /\ mem'.tile_x = mem.tile_x /\ mem'.tile_y = mem.tile_y
      /\ mem'.barriers = [mem.barriers EXCEPT ![t] = b + 1]
      /\ mem'.t = [mem.t EXCEPT ![t] = at + 2]
      /\ mem'.acc = [mem.acc EXCEPT ![t] = sum]
  <2> HIDE DEF Read
  <2> QED
    BY <1>1 DEF Arrive, TiledInv
<1> HIDE DEF sum, Read
<1>7. TileStep(t, b + 1) /\ pc'[t] = 22
  BY <1>0, <1>6 DEF TileStep, TiledInv, Thread
<1>8. LoadedAt(b + 1) = LoadedAt(b) /\ b + 1 \in {2, 4} /\ at + 2 = b + 1
  BY <1>2 DEF LoadedAt
<1>9. TileItem(t)'
  <2>1. \A k : Term(t, k)' = Term(t, k)
    BY <1>6 DEF Term
  <2>2. mem'.t[t] = at + 2 /\ mem'.acc[t] = sum
    BY <1>6 DEF TiledInv
  <2>3. mem'.acc[t] = [k \in 1 .. mem'.t[t] |-> Term(t, k)']
    BY <1>5, <2>1, <2>2 DEF sum
  <2>4. mem'.barriers[t] = b + 1
    BY <1>7 DEF TileStep
  <2> HIDE DEF b, at
  <2> QED
    BY <1>2, <1>6, <1>7, <1>8, <2>2, <2>3, <2>4 DEF TileItem, End
<1>10. b # 5
  BY <1>2
<1> QED
  BY <1>0, <1>3, <1>6, <1>7, <1>9, <1>10, TilePasses

LEMMA TileSums ==
  ASSUME TiledInv, NEW t \in 2 .. 5, shuffle(t)
  PROVE  TiledInv'
<1> DEFINE b == mem.barriers[t]
<1>0. /\ Items = 2 .. 5 /\ {u \in 2 .. 5 : ty(u) = 0} = {2, 3}
  <2>1. 2 .. 5 = {2, 3, 4, 5}
    OBVIOUS
  <2> QED
    BY <2>1, TileNumbers DEF TiledInv, Items
<1>1. CASE mem.t[t] = width /\ Passed(t, Items) /\ Step(t, 22, Arrive(mem, t), 49)
  <2>1. /\ mem.t[t] = 4 /\ pc[t] = 22 /\ pc' = [pc EXCEPT ![t] = 49]
        /\ mem' = [mem EXCEPT !.barriers[t] = b + 1]
    BY <1>1 DEF Step, At, Goto, Arrive, width, BlockSize
  <2>2. b = 4 /\ mem.launched = "yes" /\ TileItem(t) /\ LoadedAt(5) = LoadedAt(4)
    <3>1. TileItem(t)
      BY DEF TiledInv
    <3>2. b = 4
      BY <2>1, <3>1 DEF TileItem, End
    <3> QED
      BY <3>1, <3>2 DEF TiledInv, LoadedAt
  <2>3. /\ DOMAIN mem' = DOMAIN mem /\ mem'.launched = mem.launched /\ mem'.block = mem.block
        /\ mem'.z = mem.z /\ mem'.tile_x = mem.tile_x /\ mem'.tile_y = mem.tile_y
        /\ mem'.barriers = [mem.barriers EXCEPT ![t] = b + 1]
        /\ mem'.t = mem.t /\ mem'.acc = mem.acc
    BY <2>1 DEF TiledInv
  <2>4. TileStep(t, b + 1) /\ pc'[t] = 49
    BY <2>1, <2>3 DEF TileStep, TiledInv, Thread
  <2>5. TileItem(t)'
    <3>1. \A k : Term(t, k)' = Term(t, k)
      BY <2>3 DEF Term
    <3>2. mem.acc[t] = [k \in 1 .. mem.t[t] |-> Term(t, k)]
      BY <2>2 DEF TileItem
    <3>3. mem'.acc[t] = [k \in 1 .. mem'.t[t] |-> Term(t, k)']
      BY <2>3, <3>1, <3>2
    <3>4. mem'.barriers[t] = 5
      BY <2>2, <2>4 DEF TileStep
    <3> QED
      BY <2>1, <2>2, <2>3, <2>4, <3>3, <3>4 DEF TileItem, End
  <2> QED
    BY <1>1, <2>2, <2>3, <2>4, <2>5, TilePasses
<1>2. CASE /\ Passed(t, Warp(t))
           /\ Step(t, 49, IF tx(t) = 0 /\ ty(t) = 0
                          THEN [mem EXCEPT !.z = mem.z \cup {mem.acc[u] : u \in Warp(t)}]
                          ELSE mem, End)
  <2>1. pc[t] = 49 /\ pc' = [pc EXCEPT ![t] = End] /\ b = 5
    BY <1>2 DEF Step, At, Goto, TiledInv, TileItem, End
  <2>2. /\ DOMAIN mem' = DOMAIN mem /\ mem'.launched = mem.launched /\ mem'.block = mem.block
        /\ mem'.tile_x = mem.tile_x /\ mem'.tile_y = mem.tile_y
        /\ mem'.barriers = mem.barriers /\ mem'.t = mem.t /\ mem'.acc = mem.acc
        /\ \/ mem'.z = mem.z
           \/ ty(t) = 0 /\ mem'.z = mem.z \cup {mem.acc[u] : u \in Warp(t)}
    BY <1>2 DEF Step, TiledInv
  <2>3. TileStep(t, b) /\ pc'[t] = End
    BY <2>1, <2>2 DEF TileStep, TiledInv, Thread
  <2>4. TileItem(t)'
    <3>1. \A k : Term(t, k)' = Term(t, k)
      BY <2>2 DEF Term
    <3>2. mem.acc[t] = [k \in 1 .. mem.t[t] |-> Term(t, k)] /\ TileItem(t)
      BY DEF TiledInv, TileItem
    <3>3. mem'.acc[t] = [k \in 1 .. mem'.t[t] |-> Term(t, k)']
      BY <2>2, <3>1, <3>2
    <3> QED
      BY <2>1, <2>2, <2>3, <3>2, <3>3 DEF TileItem, End
  <2>5. \A u \in 2 .. 5 : TileItem(u)'
    BY <2>3, <2>4, TileOthers
  <2>6. \/ mem'.z = {}
        \/ /\ \A u \in 2 .. 3 : mem'.barriers[u] = 5
           /\ mem'.z = {mem'.acc[2], mem'.acc[3]}
    <3>1. CASE mem'.z = mem.z
      BY <2>2, <3>1 DEF TiledInv
    <3>2. CASE ty(t) = 0 /\ mem'.z = mem.z \cup {mem.acc[u] : u \in Warp(t)}
      <4>1. Warp(t) = {2, 3}
        BY <1>0, <3>2 DEF Warp
      <4>2. \A u \in {2, 3} : mem.barriers[u] = 5
        <5>1. \A u \in {2, 3} : mem.barriers[u] >= 5
          BY <1>2, <2>1, <4>1 DEF Passed
        <5>2. \A u \in {2, 3} : mem.barriers[u] \in 0 .. 5
          BY DEF TiledInv, TileItem
        <5> QED
          BY <5>1, <5>2
      <4>3. {mem.acc[u] : u \in Warp(t)} = {mem.acc[2], mem.acc[3]}
        BY <4>1
      <4>4. mem'.z = {mem.acc[2], mem.acc[3]}
        BY <3>2, <4>3 DEF TiledInv
      <4>5. 2 .. 3 = {2, 3}
        OBVIOUS
      <4> QED
        BY <2>2, <4>2, <4>4, <4>5
    <3> QED
      BY <2>2, <3>1, <3>2
  <2> QED
    BY <2>2, <2>3, <2>5, <2>6 DEF TiledInv, TileStep
<1> QED
  BY <1>1, <1>2 DEF shuffle

LEMMA TiledKept ==
  ASSUME TiledInv, NEW t \in Thread,
         IF t = 1 THEN tiled_main(t) ELSE load_tile(t) \/ use_tile(t) \/ shuffle(t)
  PROVE  TiledInv'
<1>1. CASE t = 1
  <2>1. CASE \E bx, by \in {0, BlockSize} :
               Step(t, 73, [mem EXCEPT !.launched = "yes", !.block = <<bx, by>>], 77)
    <3>1. PICK bx, by \in {0, BlockSize} :
              Step(t, 73, [mem EXCEPT !.launched = "yes", !.block = <<bx, by>>], 77)
      BY <2>1
    <3>2. /\ pc[1] = 73 /\ pc' = [pc EXCEPT ![1] = 77]
          /\ DOMAIN mem' = DOMAIN mem /\ mem'.launched = "yes"
          /\ mem'.z = mem.z /\ mem'.tile_x = mem.tile_x /\ mem'.tile_y = mem.tile_y
          /\ mem'.barriers = mem.barriers /\ mem'.t = mem.t /\ mem'.acc = mem.acc
      BY <1>1, <3>1 DEF Step, At, Goto, TiledInv
    <3>3. /\ Thread' = 1 .. 5 /\ pc'[1] = 77 /\ \A u \in 2 .. 5 : pc'[u] = pc[u]
      BY <3>2 DEF TiledInv, Thread
    <3>4. mem.launched = "no"
      BY <3>2 DEF TiledInv
    <3>5. ASSUME NEW u \in 2 .. 5 PROVE TileItem(u)'
      <4>1. mem.barriers[u] = 0 /\ TileItem(u)
        BY <3>4 DEF TiledInv
      <4>2. mem.t[u] = 0 /\ pc[u] = 22 /\ mem.acc[u] = [k \in 1 .. 0 |-> Term(u, k)]
        BY <4>1 DEF TileItem
      <4>3. mem'.acc[u] = [k \in 1 .. 0 |-> Term(u, k)']
        BY <3>2, <4>2
      <4> QED
        BY <3>2, <3>3, <4>1, <4>2, <4>3 DEF TileItem, End
    <3> QED
      BY <3>2, <3>3, <3>5 DEF TiledInv
  <2>2. CASE Finish(t, 77, mem, End)
    <3>1. pc[1] = 77 /\ mem' = mem /\ pc' = [pc EXCEPT ![1] = End]
      BY <1>1, <2>2 DEF Finish, Await, Step, At, Goto
    <3>2. Thread' = 1 .. 5 /\ pc'[1] = End /\ \A u \in 2 .. 5 : pc'[u] = pc[u]
      BY <3>1 DEF TiledInv, Thread
    <3>3. ASSUME NEW u \in 2 .. 5 PROVE TileItem(u)'
      <4>1. TileItem(u) /\ \A k : Term(u, k)' = Term(u, k)
        BY <3>1 DEF TiledInv, Term
      <4>2. [k \in 1 .. mem.t[u] |-> Term(u, k)'] = [k \in 1 .. mem.t[u] |-> Term(u, k)]
        BY <4>1
      <4> QED
        BY <3>1, <3>2, <4>1, <4>2 DEF TileItem
    <3> QED
      BY <3>1, <3>2, <3>3 DEF TiledInv, End
  <2> QED
    BY <1>1, <2>1, <2>2 DEF tiled_main
<1>2. CASE t # 1
  <2>1. t \in 2 .. 5
    BY <1>2 DEF TiledInv
  <2> QED
    BY <1>2, <2>1, TileLoads, TileUses, TileSums
<1> QED
  BY <1>1, <1>2

\* Each sum has its terms in their order, and what the first warp has put in z are those of
\* its lanes.
LEMMA TiledMultiplies ==
  ASSUME TiledInv
  PROVE  /\ \A t \in Items : Ended(t) =>
                mem.acc[t] = Terms(mem.block[2] + ty(t), mem.block[1] + tx(t))
         /\ mem.z \in {{}, {mem.acc[t] : t \in {u \in Items : ty(u) = 0}}}
<1>0. Items = 2 .. 5 /\ {u \in Items : ty(u) = 0} = {2, 3}
  <2>1. 2 .. 5 = {2, 3, 4, 5}
    OBVIOUS
  <2> QED
    BY <2>1, TileNumbers DEF TiledInv, Items
<1>1. {mem.acc[t] : t \in {2, 3}} = {mem.acc[2], mem.acc[3]}
  OBVIOUS
<1>2. ASSUME NEW t \in 2 .. 5, Ended(t)
      PROVE  mem.acc[t] = Terms(mem.block[2] + ty(t), mem.block[1] + tx(t))
  <2>1. mem.t[t] = 4 /\ mem.acc[t] = [k \in 1 .. mem.t[t] |-> Term(t, k)]
    BY <1>2 DEF TiledInv, TileItem, Ended, End
  <2> QED
    BY <2>1 DEF Terms, Term, width, BlockSize
<1> QED
  BY <1>0, <1>1, <1>2 DEF TiledInv

-----------------------------------------------------------------------------
\* The reduction

\* parallel_reduction.cpp. p has the sums of the last terms of f[0], ..., f[n - 1].
SumsOf(f, n, p) ==
    /\ p \in [0 .. n -> Int] /\ p[n] = 0
    /\ \A k \in 0 .. n - 1 : f[k] \in Int /\ p[k] = f[k] + p[k + 1]
Adds(f, n, total) == \E p : SumsOf(f, n, p) /\ p[0] = total

LEMMA SumsAt ==
  ASSUME NEW n \in Nat, NEW f, NEW p, SumsOf(f, n, p)
  PROVE  /\ p[n] = 0 /\ p[0] \in Int
         /\ \A k \in 0 .. n - 1 : /\ p[k] = f[k] + p[k + 1]
                                  /\ f[k] \in Int /\ p[k] \in Int /\ p[k + 1] \in Int
BY DEF SumsOf

LEMMA AddsOne ==
  ASSUME NEW n \in Nat, NEW f, NEW a, NEW b, Adds(f, n, a), Adds(f, n, b)
  PROVE  a = b
<1>1. PICK p : SumsOf(f, n, p) /\ p[0] = a
  BY DEF Adds
<1>2. PICK q : SumsOf(f, n, q) /\ q[0] = b
  BY DEF Adds
<1> DEFINE Differ == {m \in 0 .. n : p[n - m] # q[n - m]}
<1> SUFFICES ASSUME n \in Differ PROVE FALSE
  BY <1>1, <1>2
<1>3. PICK m \in Differ : \A o \in Differ : m <= o
  <2>1. Differ \subseteq Nat
    OBVIOUS
  <2> HIDE DEF Differ
  <2> QED
    BY <2>1, LeastNumber
<1>4. m \in 1 .. n /\ p[n - m] # q[n - m]
  <2>1. m \in 0 .. n /\ p[n - m] # q[n - m]
    OBVIOUS
  <2>2. n - 0 = n /\ p[n] = q[n]
    BY <1>1, <1>2, SumsAt
  <2> QED
    BY <2>1, <2>2
<1>5. m - 1 \in 0 .. n /\ m - 1 \notin Differ
  <2> HIDE DEF Differ
  <2> QED
    BY <1>3, <1>4
<1>6. n - m \in 0 .. n - 1 /\ n - (m - 1) = (n - m) + 1
  BY <1>4
<1>7. p[(n - m) + 1] = q[(n - m) + 1]
  BY <1>5, <1>6
<1>8. /\ p[n - m] = f[n - m] + p[(n - m) + 1]
      /\ q[n - m] = f[n - m] + q[(n - m) + 1]
  BY <1>1, <1>2, <1>6, SumsAt
<1> QED
  BY <1>4, <1>7, <1>8

LEMMA AddsSame ==
  ASSUME NEW n \in Nat, NEW f, NEW g, NEW total, Adds(f, n, total),
         \A k \in 0 .. n - 1 : g[k] = f[k]
  PROVE  Adds(g, n, total)
BY DEF Adds, SumsOf

\* Moving a number from one place to another leaves the sum as it is.
Moved(f, g, n, i, j) ==
    /\ i \in 0 .. n - 1 /\ j \in 0 .. n - 1
    /\ i # j /\ g[i] = f[i] + f[j] /\ g[j] = 0
    /\ \A k \in 0 .. n - 1 : k # i /\ k # j => g[k] = f[k]

\* x added to p up to i and taken from it up to j.
Shifted(p, q, n, i, j, x) ==
    /\ q \in [0 .. n -> Int]
    /\ \A k \in 0 .. n : /\ p[k] \in Int
                        /\ q[k] = (p[k] + (IF k <= i THEN x ELSE 0)) - (IF k <= j THEN x ELSE 0)

LEMMA ShiftedBy ==
  ASSUME NEW n \in Nat, NEW p, NEW f, SumsOf(f, n, p), NEW i \in Nat, NEW j \in Nat, NEW x \in Int
  PROVE  \E q : Shifted(p, q, n, i, j, x)
<1>0. p \in [0 .. n -> Int]
  BY DEF SumsOf
<1>1. PICK q \in [0 .. n -> Int] :
          \A k \in 0 .. n : q[k] = (p[k] + (IF k <= i THEN x ELSE 0)) - (IF k <= j THEN x ELSE 0)
  <2> DEFINE r == [k \in 0 .. n |->
                     (p[k] + (IF k <= i THEN x ELSE 0)) - (IF k <= j THEN x ELSE 0)]
  <2>1. r \in [0 .. n -> Int]
    BY <1>0
  <2> QED
    BY <2>1
<1> QED
  BY <1>0, <1>1 DEF Shifted

LEMMA AddsMoved ==
  ASSUME NEW n \in Nat, NEW f, NEW g, NEW total, Adds(f, n, total), NEW i, NEW j,
         Moved(f, g, n, i, j)
  PROVE  Adds(g, n, total)
<1>1. PICK p : SumsOf(f, n, p) /\ p[0] = total
  BY DEF Adds
<1>2. i \in 0 .. n - 1 /\ j \in 0 .. n - 1 /\ i # j /\ i \in Nat /\ j \in Nat
  BY DEF Moved
<1>3. PICK x \in Int : x = f[j]
  BY <1>1, <1>2, SumsAt
<1>4. PICK q : Shifted(p, q, n, i, j, x)
  BY <1>1, <1>2, <1>3, ShiftedBy
<1>5. q \in [0 .. n -> Int]
  BY <1>4 DEF Shifted
<1>6. q[n] = 0 /\ q[0] = total
  <2>1. 0 \in 0 .. n /\ n \in 0 .. n /\ p[n] = 0 /\ p[0] = total /\ ~ (n <= i) /\ ~ (n <= j)
        /\ 0 <= i /\ 0 <= j
    BY <1>1, <1>2, SumsAt
  <2>2. /\ p[0] \in Int /\ q[0] = (p[0] + x) - x /\ q[n] = (0 + 0) - 0
    BY <1>4, <2>1 DEF Shifted
  <2> QED
    BY <2>1, <2>2
<1>7. ASSUME NEW k \in 0 .. n - 1 PROVE g[k] \in Int /\ q[k] = g[k] + q[k + 1]
  <2>1. /\ k \in 0 .. n /\ k + 1 \in 0 .. n /\ k \in Int
        /\ p[k] = f[k] + p[k + 1] /\ f[k] \in Int /\ p[k + 1] \in Int
    BY <1>1, SumsAt
  <2>2. /\ q[k] = (p[k] + (IF k <= i THEN x ELSE 0)) - (IF k <= j THEN x ELSE 0)
        /\ q[k + 1] = (p[k + 1] + (IF k + 1 <= i THEN x ELSE 0)) - (IF k + 1 <= j THEN x ELSE 0)
    BY <1>4, <2>1 DEF Shifted
  <2>3. CASE k = i
    <3>1. g[k] = f[k] + x
      BY <1>3, <2>3 DEF Moved
    <3> QED
      BY <1>2, <2>1, <2>2, <2>3, <3>1
  <2>4. CASE k = j
    <3>1. g[k] = 0 /\ f[k] = x
      BY <1>3, <2>4 DEF Moved
    <3> QED
      BY <1>2, <2>1, <2>2, <2>4, <3>1
  <2>5. CASE k # i /\ k # j
    <3>1. g[k] = f[k]
      BY <2>5 DEF Moved
    <3> QED
      BY <1>2, <2>1, <2>2, <2>5, <3>1
  <2> QED
    BY <2>3, <2>4, <2>5
<1> QED
  BY <1>5, <1>6, <1>7 DEF Adds, SumsOf

LEMMA AddsFirst ==
  ASSUME NEW n \in Nat, n # 0, NEW f, NEW total, Adds(f, n, total),
         \A k \in 1 .. n - 1 : f[k] = 0
  PROVE  total = f[0]
<1>1. f[0] \in Int
  <2>1. 0 \in 0 .. n - 1
    OBVIOUS
  <2> QED
    BY <2>1, SumsAt DEF Adds
<1> DEFINE p == [k \in 0 .. n |-> IF k = 0 THEN f[0] ELSE 0]
<1>2. p \in [0 .. n -> Int] /\ p[n] = 0 /\ p[0] = f[0]
  BY <1>1
<1>3. \A k \in 0 .. n - 1 : f[k] \in Int /\ p[k] = f[k] + p[k + 1]
  BY <1>1
<1> HIDE DEF p
<1>4. Adds(f, n, f[0])
  BY <1>2, <1>3 DEF Adds, SumsOf
<1> QED
  BY <1>4, AddsOne

LEMMA AddsExist ==
  ASSUME NEW n \in Nat, NEW f, \A k \in 0 .. n - 1 : f[k] \in Int
  PROVE  \E p : SumsOf(f, n, p)
<1> DEFINE s == [i \in 1 .. n |-> f[i - 1]]
<1>1. s \in Seq(Int) /\ Len(s) = n /\ \A k \in 0 .. n - 1 : s[k + 1] = f[k]
  OBVIOUS
<1> HIDE DEF s
<1>2. PICK p : Partial(s, p)
  BY <1>1, PartialSums
<1>3. p \in [0 .. n -> Int] /\ p[n] = 0 /\ \A k \in 1 .. n : p[k - 1] = s[k] + p[k]
  BY <1>1, <1>2 DEF Partial
<1>4. ASSUME NEW k \in 0 .. n - 1 PROVE p[k] = f[k] + p[k + 1]
  <2>1. k + 1 \in 1 .. n /\ (k + 1) - 1 = k
    OBVIOUS
  <2> QED
    BY <1>1, <1>3, <2>1
<1> QED
  BY <1>3, <1>4 DEF SumsOf

\* Sum is that sum.
SumEquation(f) == f = [s \in Seq(Nat) |-> IF s = <<>> THEN 0 ELSE Head(s) + f[Tail(s)]]

LEMMA NatSumDefined == SumEquation(Sum)
<1> DEFINE f == [s \in Seq(Nat) |-> SumOf[s]]
<1>1. ASSUME NEW s \in Seq(Nat)
      PROVE  f[s] = IF s = <<>> THEN 0 ELSE Head(s) + f[Tail(s)]
  <2>1. s \in Seq(Int) /\ (s # <<>> => Tail(s) \in Seq(Nat))
    OBVIOUS
  <2>2. SumOf[s] = IF s = <<>> THEN 0 ELSE Head(s) + SumOf[Tail(s)]
    BY <2>1, SumDefined DEF SumsUp
  <2> QED
    BY <2>1, <2>2
<1>2. f = [s \in Seq(Nat) |-> f[s]]
  OBVIOUS
<1> HIDE DEF f
<1>3. SumEquation(f)
  BY <1>1, <1>2 DEF SumEquation
<1>4. Sum = CHOOSE g : SumEquation(g)
  BY DEF Sum, SumEquation
<1> QED
  BY <1>3, <1>4

\* The part of a sequence behind its first k terms.
Behind(s, k) == [i \in 1 .. Len(s) - k |-> s[k + i]]

LEMMA BehindIs ==
  ASSUME NEW s \in Seq(Nat), NEW k \in 0 .. Len(s)
  PROVE  /\ Behind(s, k) \in Seq(Nat) /\ (Behind(s, k) = <<>> <=> k = Len(s))
         /\ k # Len(s) => /\ Head(Behind(s, k)) = s[k + 1] /\ s[k + 1] \in Nat
                          /\ Tail(Behind(s, k)) = Behind(s, k + 1) /\ k + 1 \in 0 .. Len(s)
<1> DEFINE b == Behind(s, k)
<1>0. Len(s) \in Nat
  OBVIOUS
<1>1. b \in Seq(Nat) /\ Len(b) = Len(s) - k /\ Len(s) \in Nat
      /\ \A i \in 1 .. Len(s) - k : b[i] = s[k + i]
  BY DEF Behind
<1>2. ASSUME k # Len(s)
      PROVE  Head(b) = s[k + 1] /\ s[k + 1] \in Nat /\ Tail(b) = Behind(s, k + 1)
             /\ k + 1 \in 0 .. Len(s)
  <2>1. k + 1 \in 1 .. Len(s) /\ 1 \in 1 .. Len(s) - k /\ b # <<>>
    BY <1>1, <1>2
  <2>2. Head(b) = s[k + 1] /\ s[k + 1] \in Nat
    BY <1>1, <2>1
  <2>3. /\ Tail(b) \in Seq(Nat) /\ Len(Tail(b)) = Len(s) - (k + 1)
        /\ \A i \in 1 .. Len(s) - (k + 1) : Tail(b)[i] = b[i + 1]
    BY <1>1, <2>1
  <2>4. /\ Behind(s, k + 1) \in Seq(Nat) /\ Len(Behind(s, k + 1)) = Len(s) - (k + 1)
        /\ \A i \in 1 .. Len(s) - (k + 1) : Behind(s, k + 1)[i] = s[(k + 1) + i]
    BY <1>1, <2>1 DEF Behind
  <2>5. ASSUME NEW i \in 1 .. Len(s) - (k + 1) PROVE Tail(b)[i] = Behind(s, k + 1)[i]
    <3>1. i + 1 \in 1 .. Len(s) - k /\ k + (i + 1) = (k + 1) + i
      BY <1>0
    <3> HIDE DEF b
    <3>2. Tail(b)[i] = b[i + 1] /\ Behind(s, k + 1)[i] = s[(k + 1) + i]
      BY <2>3, <2>4
    <3> QED
      BY <1>1, <3>1, <3>2
  <2>6. Tail(b) = Behind(s, k + 1)
    <3> HIDE DEF b
    <3> QED
      BY <2>3, <2>4, <2>5, SeqEqual
  <2> QED
    BY <2>1, <2>2, <2>6
<1> QED
  BY <1>1, <1>2

LEMMA SumAdds ==
  ASSUME NEW n \in Nat, NEW f, \A k \in 0 .. n - 1 : f[k] \in Nat, NEW total, Adds(f, n, total)
  PROVE  Sum[[i \in 1 .. n |-> f[i - 1]]] = total
<1> DEFINE s == [i \in 1 .. n |-> f[i - 1]]
           p == [k \in 0 .. n |-> Sum[Behind(s, k)]]
<1>1. s \in Seq(Nat) /\ Len(s) = n /\ \A k \in 0 .. n - 1 : s[k + 1] = f[k]
  OBVIOUS
<1>2. Behind(s, 0) = s
  <2> HIDE DEF s
  <2>1. Behind(s, 0) \in Seq(Nat) /\ Len(Behind(s, 0)) = Len(s)
        /\ \A i \in 1 .. Len(s) : Behind(s, 0)[i] = s[i]
    BY <1>1 DEF Behind
  <2> QED
    BY <1>1, <2>1, SeqEqual
<1> HIDE DEF s
<1>3. \A r \in Seq(Nat) : Sum[r] = IF r = <<>> THEN 0 ELSE Head(r) + Sum[Tail(r)]
  BY NatSumDefined DEF SumEquation
<1>4. Sum[Behind(s, n)] = 0
  <2>1. n \in 0 .. n
    OBVIOUS
  <2>2. Behind(s, n) = <<>> /\ Behind(s, n) \in Seq(Nat)
    BY <1>1, <2>1, BehindIs
  <2> QED
    BY <1>3, <2>2
<1>5. ASSUME NEW k \in 0 .. n - 1 PROVE Sum[Behind(s, k)] = f[k] + Sum[Behind(s, k + 1)]
  <2>1. k \in 0 .. n /\ k # n
    OBVIOUS
  <2>2. /\ Behind(s, k) \in Seq(Nat) /\ Behind(s, k) # <<>>
        /\ Head(Behind(s, k)) = s[k + 1] /\ Tail(Behind(s, k)) = Behind(s, k + 1)
    BY <1>1, <2>1, BehindIs
  <2> QED
    BY <1>1, <1>3, <2>2
<1>6. \A k \in 0 .. n : Sum[Behind(s, k)] \in Int
  <2> DEFINE Odd == {m \in 0 .. n : Sum[Behind(s, n - m)] \notin Int}
  <2> SUFFICES ASSUME NEW m \in Odd PROVE FALSE
    <3>1. \A k \in 0 .. n : n - k \in 0 .. n /\ n - (n - k) = k
      OBVIOUS
    <3> QED
      BY <3>1
  <2>1. PICK least \in Odd : \A o \in Odd : least <= o
    <3>1. Odd \subseteq Nat
      OBVIOUS
    <3> HIDE DEF Odd
    <3>2. Odd # {}
      OBVIOUS
    <3> QED
      BY <3>1, <3>2, LeastNumber
  <2>2. least \in 1 .. n
    BY <1>4
  <2>3. least - 1 \in 0 .. n /\ least - 1 \notin Odd
    <3> HIDE DEF Odd
    <3> QED
      BY <2>1, <2>2
  <2>4. n - least \in 0 .. n - 1 /\ (n - least) + 1 = n - (least - 1)
    BY <2>2
  <2>5. Sum[Behind(s, (n - least) + 1)] \in Int
    BY <2>3, <2>4
  <2>6. Sum[Behind(s, n - least)] \in Int
    BY <1>5, <2>4, <2>5
  <2> QED
    BY <2>6
<1>7. p \in [0 .. n -> Int] /\ p[n] = 0 /\ p[0] = Sum[s]
      /\ \A k \in 0 .. n - 1 : p[k] = f[k] + p[k + 1]
  BY <1>2, <1>4, <1>5, <1>6
<1> HIDE DEF p
<1>8. Adds(f, n, Sum[s])
  BY <1>1, <1>7 DEF Adds, SumsOf
<1> QED
  BY <1>8, AddsOne DEF s

\* The equation that Product is defined by has a solution.
ProductEquation(f) == f = [i \in Nat |-> IF i = 0 THEN 1 ELSE 4 * f[i - 1]]
Powers(n, p) ==
    p \in [0 .. n -> Nat] /\ \A i \in 0 .. n : p[i] = IF i = 0 THEN 1 ELSE 4 * p[i - 1]

LEMMA PowersExist ==
  ASSUME NEW n \in Nat
  PROVE  \E p : Powers(n, p)
<1> DEFINE Without == {m \in Nat : ~ \E p : Powers(m, p)}
<1> SUFFICES ASSUME n \in Without PROVE FALSE
  OBVIOUS
<1>1. PICK least \in Without : \A m \in Without : least <= m
  <2>1. Without \subseteq Nat
    OBVIOUS
  <2> HIDE DEF Without
  <2> QED
    BY <2>1, LeastNumber
<1>2. least \in Nat /\ ~ \E p : Powers(least, p)
  BY <1>1
<1>3. least # 0
  <2>1. Powers(0, [k \in 0 .. 0 |-> 1])
    BY DEF Powers
  <2> QED
    BY <1>2, <2>1
<1>4. PICK p : Powers(least - 1, p)
  <2>1. least - 1 \in Nat /\ ~ (least <= least - 1)
    BY <1>2, <1>3
  <2>2. least - 1 \notin Without
    <3> HIDE DEF Without
    <3> QED
      BY <1>1, <2>1
  <2> QED
    BY <2>1, <2>2
<1>7. PICK here \in Nat : here = 4 * p[least - 1]
  BY <1>2, <1>3, <1>4 DEF Powers
<1> DEFINE q == [k \in 0 .. least |-> IF k = least THEN here ELSE p[k]]
<1>5. /\ q \in [0 .. least -> Nat] /\ q[least] = 4 * p[least - 1]
      /\ \A k \in 0 .. least - 1 : k \in 0 .. least /\ q[k] = p[k]
  BY <1>2, <1>3, <1>4, <1>7 DEF Powers
<1> HIDE DEF q
<1>6. ASSUME NEW k \in 0 .. least
      PROVE  q[k] = IF k = 0 THEN 1 ELSE 4 * q[k - 1]
  <2>1. k # 0 => k - 1 \in 0 .. least - 1
    BY <1>2
  <2>2. CASE k = least
    BY <1>3, <1>5, <2>1, <2>2
  <2>3. CASE k \in 0 .. least - 1
    BY <1>4, <1>5, <2>1, <2>3 DEF Powers
  <2> QED
    BY <1>2, <2>2, <2>3
<1> QED
  BY <1>2, <1>5, <1>6 DEF Powers

LEMMA PowersAgree ==
  ASSUME NEW n \in Nat, NEW m \in 0 .. n, NEW p, NEW q, Powers(n, p), Powers(m, q)
  PROVE  p[m] = q[m]
<1> DEFINE Differ == {k \in 0 .. m : p[k] # q[k]}
<1> SUFFICES ASSUME m \in Differ PROVE FALSE
  OBVIOUS
<1>1. PICK k \in Differ : \A j \in Differ : k <= j
  <2>1. Differ \subseteq Nat
    OBVIOUS
  <2> HIDE DEF Differ
  <2> QED
    BY <2>1, LeastNumber
<1>2. k \in 0 .. m /\ k \in 0 .. n /\ p[k] # q[k]
  BY <1>1
<1>3. CASE k = 0
  BY <1>2, <1>3 DEF Powers
<1>4. CASE k # 0
  <2>1. k - 1 \in 0 .. m /\ ~ (k <= k - 1)
    BY <1>2, <1>4
  <2>2. k - 1 \notin Differ
    <3> HIDE DEF Differ
    <3> QED
      BY <1>1, <2>1
  <2> QED
    BY <1>2, <1>4, <2>1, <2>2 DEF Powers
<1> QED
  BY <1>3, <1>4

LEMMA ProductDefined == Product \in [Nat -> Nat]
<1> DEFINE product == [n \in Nat |-> (CHOOSE p : Powers(n, p))[n]]
<1>1. ASSUME NEW n \in Nat, NEW p, Powers(n, p), NEW m \in 0 .. n PROVE product[m] = p[m]
  <2>1. m \in Nat /\ Powers(m, CHOOSE q : Powers(m, q))
    BY PowersExist
  <2> QED
    BY <1>1, <2>1, PowersAgree
<1>2. ASSUME NEW n \in Nat
      PROVE  product[n] = (IF n = 0 THEN 1 ELSE 4 * product[n - 1]) /\ product[n] \in Nat
  <2>1. PICK p : Powers(n, p)
    BY PowersExist
  <2> HIDE DEF product
  <2>2. n \in 0 .. n /\ (n # 0 => n - 1 \in 0 .. n)
    OBVIOUS
  <2>3. product[n] = p[n] /\ (n # 0 => product[n - 1] = p[n - 1])
    BY <1>1, <2>1, <2>2
  <2> QED
    BY <2>1, <2>2, <2>3 DEF Powers
<1>3. product = [n \in Nat |-> product[n]]
  OBVIOUS
<1> HIDE DEF product
<1>4. ProductEquation(product)
  BY <1>2, <1>3 DEF ProductEquation
<1>5. Product = CHOOSE f : ProductEquation(f)
  BY DEF Product, ProductEquation
<1>6. ProductEquation(Product)
  BY <1>4, <1>5
<1>7. ASSUME NEW n \in Nat PROVE Product[n] \in Nat
  <2> DEFINE Odd == {m \in Nat : Product[m] \notin Nat}
  <2> SUFFICES ASSUME n \in Odd PROVE FALSE
    OBVIOUS
  <2>1. PICK m \in Odd : \A o \in Odd : m <= o
    <3>1. Odd \subseteq Nat
      OBVIOUS
    <3> HIDE DEF Odd
    <3> QED
      BY <3>1, LeastNumber
  <2>2. m \in Nat /\ Product[m] \notin Nat /\ Product[m] = IF m = 0 THEN 1 ELSE 4 * Product[m - 1]
    BY <1>6, <2>1 DEF ProductEquation
  <2>3. m # 0 /\ m - 1 \in Nat /\ ~ (m <= m - 1)
    BY <2>2
  <2>4. m - 1 \notin Odd
    <3> HIDE DEF Odd
    <3> QED
      BY <2>1, <2>3
  <2> QED
    BY <2>2, <2>3, <2>4
<1> QED
  BY <1>6, <1>7 DEF ProductEquation

\* The items of the groups.
Member(g, l) == (g * LOCAL_SIZE + l) + 2
PastLast == groups * LOCAL_SIZE

PowerOfTwo(e) == 2 ^ e

LEMMA LocalSizes == LOCAL_SIZE \in {1, 2, 4, 8, 16, 32, 64, 128, 256}
<1>1. PICK e \in 0 .. 8 : LOCAL_SIZE = PowerOfTwo(e)
  BY KernelAssumption DEF PowerOfTwo
<1>2. /\ PowerOfTwo(0) = 1 /\ PowerOfTwo(1) = 2 /\ PowerOfTwo(2) = 4 /\ PowerOfTwo(3) = 8
      /\ PowerOfTwo(4) = 16 /\ PowerOfTwo(5) = 32 /\ PowerOfTwo(6) = 64
      /\ PowerOfTwo(7) = 128 /\ PowerOfTwo(8) = 256
  BY DEF PowerOfTwo
<1> QED
  BY <1>1, <1>2

LEMMA Numbering ==
  /\ LOCAL_SIZE \in Nat \ {0} /\ groups \in Nat \ {0} /\ PastLast \in Nat
  /\ DotLength \in Nat \ {0} /\ DotLength <= PastLast
  /\ \A t \in 2 .. PastLast + 1 :
        /\ group_id(t) \in 0 .. groups - 1 /\ local_id(t) \in 0 .. LOCAL_SIZE - 1
        /\ t = Member(group_id(t), local_id(t))
        /\ global_id(t) \in Nat /\ global_id(t) = group_id(t) * LOCAL_SIZE + local_id(t)
<1>1. DotLength \in Nat \ {0}
  BY KernelAssumption
<1>2. /\ LOCAL_SIZE \in Nat \ {0} /\ groups \in Nat \ {0} /\ PastLast \in Nat
      /\ DotLength <= PastLast
  BY <1>1, LocalSizes DEF groups, PastLast
<1>3. ASSUME NEW t \in 2 .. groups * LOCAL_SIZE + 1
      PROVE  /\ group_id(t) \in 0 .. groups - 1 /\ local_id(t) \in 0 .. LOCAL_SIZE - 1
             /\ t = Member(group_id(t), local_id(t))
             /\ global_id(t) \in Nat /\ global_id(t) = group_id(t) * LOCAL_SIZE + local_id(t)
  BY <1>1, LocalSizes DEF groups, group_id, local_id, global_id, Member
<1> QED
  BY <1>1, <1>2, <1>3 DEF PastLast

LEMMA MemberIs ==
  ASSUME NEW g \in 0 .. groups - 1, NEW l \in 0 .. LOCAL_SIZE - 1
  PROVE  /\ Member(g, l) \in 2 .. PastLast + 1
         /\ group_id(Member(g, l)) = g /\ local_id(Member(g, l)) = l
<1>1. groups \in Nat \ {0}
  BY Numbering
<1> HIDE DEF groups
<1> QED
  BY <1>1, LocalSizes DEF group_id, local_id, global_id, Member, PastLast

\* How many partial sums are left behind the m-th barrier.
Width(m) ==
    IF m = 1 THEN LOCAL_SIZE
    ELSE <<0, LOCAL_SIZE \div 2, LOCAL_SIZE \div 4, LOCAL_SIZE \div 8, LOCAL_SIZE \div 16,
           LOCAL_SIZE \div 32, LOCAL_SIZE \div 64, LOCAL_SIZE \div 128, LOCAL_SIZE \div 256, 0>>[m]

LEMMA Widths ==
  /\ Width(1) = LOCAL_SIZE /\ Width(2) = LOCAL_SIZE \div 2 /\ Width(10) = 0
  /\ \A m \in 1 .. 10 : Width(m) \in Nat /\ Width(m) <= LOCAL_SIZE
  /\ \A m \in 1 .. 9 : Width(m + 1) = Width(m) \div 2
  /\ \A m \in 1 .. 9 : Width(m + 1) # 0 => Width(m) = 2 * Width(m + 1)
  /\ \A m \in 1 .. 9 : Width(m + 1) = 0 => Width(m) \in {0, 1}
BY LocalSizes DEF Width

\* The products, with nothing behind the last, and the sums of all from each on.
ProductAt(i) == IF i < DotLength THEN Product[i] ELSE 0
AllProducts == Sum[[i \in 1 .. DotLength |-> Product[i - 1]]]
RestOf(r) ==
    /\ \A k \in Nat : r[k] \in Int /\ ProductAt(k) \in Nat /\ r[k] = ProductAt(k) + r[k + 1]
    /\ \A k \in Nat : k >= DotLength => r[k] = 0
    /\ r[0] = AllProducts
Rest == CHOOSE r : RestOf(r)

LEMMA RestDefined == RestOf(Rest)
<1>0. DotLength \in Nat \ {0}
  BY KernelAssumption
<1>1. \A k \in Nat : Product[k] \in Nat
  BY ProductDefined
<1>2. PICK p : SumsOf(Product, DotLength, p)
  BY <1>0, <1>1, AddsExist
<1>3. p[0] = AllProducts
  <2>1. Adds(Product, DotLength, p[0])
    BY <1>2 DEF Adds
  <2> QED
    BY <1>0, <1>1, <2>1, SumAdds DEF AllProducts
<1>4. PICK r : r = [k \in Nat |-> IF k < DotLength THEN p[k] ELSE 0]
  OBVIOUS
<1>5. ASSUME NEW k \in Nat
      PROVE  r[k] \in Int /\ ProductAt(k) \in Nat /\ r[k] = ProductAt(k) + r[k + 1]
  <2>1. CASE k < DotLength
    <3>1. /\ k \in 0 .. DotLength - 1 /\ k + 1 \in Nat
          /\ (~ (k + 1 < DotLength) => k + 1 = DotLength)
      BY <1>0, <2>1
    <3>2. /\ p[k] = Product[k] + p[k + 1] /\ p[k] \in Int /\ p[k + 1] \in Int
          /\ p[DotLength] = 0
      BY <1>0, <1>2, <3>1, SumsAt
    <3>3. r[k] = p[k] /\ r[k + 1] = p[k + 1]
      BY <1>4, <2>1, <3>1, <3>2
    <3> QED
      BY <1>1, <2>1, <3>2, <3>3 DEF ProductAt
  <2>2. CASE ~ (k < DotLength)
    <3>1. r[k] = 0 /\ r[k + 1] = 0
      BY <1>0, <1>4, <2>2
    <3> QED
      BY <2>2, <3>1 DEF ProductAt
  <2> QED
    BY <2>1, <2>2
<1>6. r[0] = p[0] /\ \A k \in Nat : k >= DotLength => r[k] = 0
  BY <1>0, <1>4
<1>7. RestOf(r)
  BY <1>3, <1>5, <1>6 DEF RestOf
<1> QED
  BY <1>7 DEF Rest

\* What the items of a group add up.
Total(g) == Rest[g * LOCAL_SIZE] - Rest[g * LOCAL_SIZE + LOCAL_SIZE]
Place(g, l) == g * LOCAL_SIZE + l

LEMMA PlaceIs ==
  ASSUME NEW g \in Nat
  PROVE  /\ \A l \in Nat : Place(g, l) \in Nat /\ Place(g, l + 1) = Place(g, l) + 1
         /\ Place(g, LOCAL_SIZE) = Place(g + 1, 0)
         /\ Place(0, 0) = 0 /\ Place(groups, 0) = PastLast
         /\ Total(g) = Rest[Place(g, 0)] - Rest[Place(g, LOCAL_SIZE)]
<1>1. groups \in Nat
  BY Numbering
<1> HIDE DEF groups
<1> QED
  BY <1>1, LocalSizes DEF Place, Total, PastLast

LEMMA GroupAdds ==
  ASSUME NEW g \in Nat, NEW f, \A l \in 0 .. LOCAL_SIZE - 1 : f[l] = ProductAt(Place(g, l))
  PROVE  Adds(f, LOCAL_SIZE, Total(g)) /\ \A l \in 0 .. LOCAL_SIZE - 1 : f[l] \in Nat
<1>0. LOCAL_SIZE \in Nat \ {0}
  BY Numbering
<1>1. PICK last : last = Rest[Place(g, LOCAL_SIZE)]
  OBVIOUS
<1>2. /\ \A k \in Nat : Rest[k] \in Int /\ ProductAt(k) \in Nat
                        /\ Rest[k] = ProductAt(k) + Rest[k + 1]
      /\ last \in Int
  BY <1>0, <1>1, RestDefined, PlaceIs DEF RestOf
<1>3. ASSUME NEW l \in 0 .. LOCAL_SIZE
      PROVE  Rest[Place(g, l)] \in Int
  <2>1. l \in Nat
    BY <1>0
  <2> QED
    BY <1>2, <2>1, PlaceIs
<1>4. PICK p : p = [l \in 0 .. LOCAL_SIZE |-> Rest[Place(g, l)] - last]
  OBVIOUS
<1>5. p \in [0 .. LOCAL_SIZE -> Int]
  <2>1. \A l \in 0 .. LOCAL_SIZE : Rest[Place(g, l)] - last \in Int
    <3> SUFFICES ASSUME NEW l \in 0 .. LOCAL_SIZE PROVE Rest[Place(g, l)] - last \in Int
      OBVIOUS
    <3> QED
      BY <1>2, <1>3
  <2> QED
    BY <1>4, <2>1
<1>6. p[LOCAL_SIZE] = 0 /\ p[0] = Total(g)
  <2>1. 0 \in 0 .. LOCAL_SIZE /\ LOCAL_SIZE \in 0 .. LOCAL_SIZE
    BY <1>0
  <2>2. p[0] = Rest[Place(g, 0)] - last /\ p[LOCAL_SIZE] = last - last
    BY <1>1, <1>4, <2>1
  <2>3. Total(g) = Rest[Place(g, 0)] - last
    BY <1>1, PlaceIs
  <2>4. last - last = 0
    BY <1>2
  <2> QED
    BY <2>2, <2>3, <2>4
<1>7. ASSUME NEW l \in 0 .. LOCAL_SIZE - 1 PROVE f[l] \in Nat /\ p[l] = f[l] + p[l + 1]
  <2>1. l \in Nat /\ l \in 0 .. LOCAL_SIZE /\ l + 1 \in 0 .. LOCAL_SIZE
    BY <1>0
  <2>2. PICK k \in Nat : k = Place(g, l) /\ k + 1 = Place(g, l + 1)
    BY <2>1, PlaceIs
  <2>3. p[l] = Rest[k] - last /\ p[l + 1] = Rest[k + 1] - last /\ f[l] = ProductAt(k)
    BY <1>4, <2>1, <2>2
  <2>4. Rest[k] = ProductAt(k) + Rest[k + 1] /\ Rest[k + 1] \in Int /\ ProductAt(k) \in Nat
    BY <1>2, <2>2
  <2> QED
    BY <1>2, <2>3, <2>4
<1>8. \A l \in 0 .. LOCAL_SIZE - 1 : f[l] \in Int
  BY <1>7
<1> QED
  BY <1>5, <1>6, <1>7, <1>8 DEF Adds, SumsOf

LEMMA TotalsAdd ==
  ASSUME NEW output, \A g \in 0 .. groups - 1 : output[g] \in Nat /\ output[g] = Total(g)
  PROVE  Sum[[g \in 1 .. groups |-> output[g - 1]]] = AllProducts
<1>0. groups \in Nat \ {0} /\ PastLast \in Nat /\ DotLength \in Nat /\ PastLast >= DotLength
      /\ LOCAL_SIZE \in Nat
  BY Numbering
<1>1. PICK p : p = [g \in 0 .. groups |-> Rest[Place(g, 0)]]
  OBVIOUS
<1>2. \A k \in Nat : Rest[k] \in Int
  BY RestDefined DEF RestOf
<1>3. \A g \in 0 .. groups : Rest[Place(g, 0)] \in Int
  <2>1. \A g \in 0 .. groups : g \in Nat
    BY <1>0
  <2> QED
    BY <1>2, <2>1, PlaceIs
<1>4. p \in [0 .. groups -> Int]
  BY <1>1, <1>3
<1>5. p[groups] = 0 /\ p[0] = AllProducts
  <2>1. 0 \in 0 .. groups /\ groups \in 0 .. groups
    BY <1>0
  <2>2. p[0] = Rest[0] /\ p[groups] = Rest[PastLast]
    BY <1>0, <1>1, <2>1, PlaceIs
  <2> QED
    BY <1>0, <2>2, RestDefined DEF RestOf
<1>6. ASSUME NEW g \in 0 .. groups - 1 PROVE output[g] \in Int /\ p[g] = output[g] + p[g + 1]
  <2>1. g \in Nat /\ g \in 0 .. groups /\ g + 1 \in 0 .. groups
    BY <1>0
  <2>2. /\ output[g] = Rest[Place(g, 0)] - Rest[Place(g + 1, 0)] /\ output[g] \in Nat
    BY <2>1, PlaceIs
  <2>3. p[g] = Rest[Place(g, 0)] /\ p[g + 1] = Rest[Place(g + 1, 0)]
    BY <1>1, <2>1
  <2>4. p[g] \in Int /\ p[g + 1] \in Int
    BY <1>3, <2>1, <2>3
  <2> QED
    BY <2>2, <2>3, <2>4
<1>7. SumsOf(output, groups, p)
  <2> HIDE DEF groups
  <2> QED
    BY <1>4, <1>5, <1>6 DEF SumsOf
<1>8. Adds(output, groups, AllProducts)
  BY <1>5, <1>7 DEF Adds
<1> HIDE DEF groups
<1> QED
  BY <1>0, <1>8, SumAdds

\* Behind the m-th barrier a partial sum is alive that is not yet in another one: an item that has
\* come to the next barrier has added the one that is Width(m + 1) places behind its own.
Alive(g, m, k) ==
    /\ k < Width(m)
    /\ k - Width(m + 1) \in 0 .. Width(m + 1) - 1 =>
          mem.barriers[Member(g, k - Width(m + 1))] # m + 1
Live(g, m) ==
    [k \in 0 .. LOCAL_SIZE - 1 |-> IF Alive(g, m, k) THEN mem.shared[g][k] ELSE 0]

\* The items of a group are between the m-th barrier and the next.
Phase(g, m) ==
    /\ \A l \in 0 .. LOCAL_SIZE - 1 : mem.barriers[Member(g, l)] \in {m, m + 1}
    /\ m = 0 => \A l \in 0 .. LOCAL_SIZE - 1 :
                   mem.barriers[Member(g, l)] = 1 => mem.shared[g][l] = ProductAt(Place(g, l))
    /\ m # 0 => Adds(Live(g, m), LOCAL_SIZE, Total(g))
Cells(shared) ==
    /\ DOMAIN shared = 0 .. groups - 1
    /\ \A g \in 0 .. groups - 1 :
          /\ DOMAIN shared[g] = 0 .. LOCAL_SIZE - 1
          /\ \A l \in 0 .. LOCAL_SIZE - 1 : shared[g][l] \in Nat

LEMMA LiveAt ==
  ASSUME NEW g, NEW m, NEW k \in 0 .. LOCAL_SIZE - 1
  PROVE  Live(g, m)[k] = IF Alive(g, m, k) THEN mem.shared[g][k] ELSE 0
BY DEF Live

\* When all have come to the next barrier the next phase begins.
LEMMA PhaseOver ==
  ASSUME NEW g \in 0 .. groups - 1, NEW m \in 0 .. 8, Phase(g, m), Cells(mem.shared),
         \A l \in 0 .. LOCAL_SIZE - 1 : mem.barriers[Member(g, l)] = m + 1,
         m # 0 => Width(m + 1) # 0
  PROVE  Phase(g, m + 1)
<1>0. LOCAL_SIZE \in Nat \ {0} /\ g \in Nat /\ m + 1 \in 1 .. 9 /\ m + 1 # 0
      /\ (m + 1) + 1 # m + 1
  BY Numbering
<1>1. /\ Width(m + 1) \in Nat /\ Width((m + 1) + 1) \in Nat
      /\ Width((m + 1) + 1) <= LOCAL_SIZE /\ Width(m + 1) <= LOCAL_SIZE
  <2>1. (m + 1) + 1 \in 1 .. 10 /\ m + 1 \in 1 .. 10
    OBVIOUS
  <2> QED
    BY <2>1, Widths
<1>2. ASSUME NEW k \in 0 .. LOCAL_SIZE - 1
      PROVE  Alive(g, m + 1, k) <=> k < Width(m + 1)
  <2>1. ASSUME k - Width((m + 1) + 1) \in 0 .. Width((m + 1) + 1) - 1
        PROVE  mem.barriers[Member(g, k - Width((m + 1) + 1))] # (m + 1) + 1
    <3>1. k - Width((m + 1) + 1) \in 0 .. LOCAL_SIZE - 1
      BY <1>0, <1>1, <2>1
    <3> QED
      BY <1>0, <3>1
  <2> QED
    BY <2>1 DEF Alive
<1>3. CASE m = 0
  <2>1. Width(m + 1) = LOCAL_SIZE
    BY <1>3, Widths
  <2>2. ASSUME NEW l \in 0 .. LOCAL_SIZE - 1 PROVE Live(g, m + 1)[l] = ProductAt(Place(g, l))
    <3>1. mem.barriers[Member(g, l)] = 1
      BY <1>3
    <3>2. mem.shared[g][l] = ProductAt(Place(g, l))
      BY <1>3, <3>1 DEF Phase
    <3>3. l < Width(m + 1)
      BY <1>0, <2>1
    <3> QED
      BY <1>2, <3>2, <3>3, LiveAt
  <2>3. Adds(Live(g, m + 1), LOCAL_SIZE, Total(g))
    BY <1>0, <2>2, GroupAdds
  <2> QED
    BY <1>0, <2>3 DEF Phase
<1>4. CASE m # 0
  <2>1. Width(m) = 2 * Width(m + 1) /\ Width(m + 1) > 0
    <3>1. m \in 1 .. 9
      BY <1>4
    <3> QED
      BY <1>1, <1>4, <3>1, Widths
  <2>2. ASSUME NEW k \in 0 .. LOCAL_SIZE - 1 PROVE Live(g, m + 1)[k] = Live(g, m)[k]
    <3>1. Alive(g, m, k) <=> k < Width(m + 1)
      <4>1. CASE k < Width(m + 1)
        BY <1>0, <1>1, <2>1, <4>1 DEF Alive
      <4>2. CASE ~ (k < Width(m + 1))
        <5>1. CASE k < Width(m)
          <6>1. k - Width(m + 1) \in 0 .. Width(m + 1) - 1
            BY <1>0, <1>1, <2>1, <4>2, <5>1
          <6>2. k - Width(m + 1) \in 0 .. LOCAL_SIZE - 1
            BY <1>0, <1>1, <6>1
          <6> QED
            BY <4>2, <6>1, <6>2 DEF Alive
        <5>2. CASE ~ (k < Width(m))
          BY <4>2, <5>2 DEF Alive
        <5> QED
          BY <5>1, <5>2
      <4> QED
        BY <4>1, <4>2
    <3> QED
      BY <1>2, <3>1, LiveAt
  <2>3. Adds(Live(g, m), LOCAL_SIZE, Total(g))
    BY <1>4 DEF Phase
  <2>4. Adds(Live(g, m + 1), LOCAL_SIZE, Total(g))
    BY <1>0, <2>2, <2>3, AddsSame
  <2> QED
    BY <1>0, <2>4 DEF Phase
<1> QED
  BY <1>3, <1>4

\* A sum of one is that one.
LEMMA LiveAlone ==
  ASSUME NEW g \in 0 .. groups - 1, NEW m \in 1 .. 9, Phase(g, m), Width(m) = 1
  PROVE  mem.shared[g][0] = Total(g)
<1>0. LOCAL_SIZE \in Nat \ {0} /\ m # 0
  BY Numbering
<1>1. Width(m + 1) = 0
  BY Widths
<1>2. ASSUME NEW k \in 0 .. LOCAL_SIZE - 1
      PROVE  Live(g, m)[k] = IF k = 0 THEN mem.shared[g][0] ELSE 0
  <2>1. Alive(g, m, k) <=> k = 0
    <3>1. ~ (k - 0 \in 0 .. 0 - 1)
      OBVIOUS
    <3>2. k < 1 <=> k = 0
      BY <1>0
    <3> QED
      BY <1>1, <3>1, <3>2 DEF Alive
  <2> QED
    BY <2>1, LiveAt
<1>3. Adds(Live(g, m), LOCAL_SIZE, Total(g))
  BY <1>0 DEF Phase
<1>4. \A k \in 1 .. LOCAL_SIZE - 1 : Live(g, m)[k] = 0
  <2>1. \A k \in 1 .. LOCAL_SIZE - 1 : k \in 0 .. LOCAL_SIZE - 1 /\ k # 0
    OBVIOUS
  <2> QED
    BY <1>2, <2>1
<1>5. Total(g) = Live(g, m)[0]
  BY <1>0, <1>3, <1>4, AddsFirst
<1>6. 0 \in 0 .. LOCAL_SIZE - 1
  BY <1>0
<1> QED
  BY <1>2, <1>5, <1>6

\* An item that comes to the next barrier has taken in one partial sum, or none.
Arrived(t, b) ==
    /\ DOMAIN mem'.barriers = DOMAIN mem.barriers
    /\ mem'.barriers[t] = b
    /\ \A u \in 2 .. PastLast + 1 : u # t => mem'.barriers[u] = mem.barriers[u]
TakenIn(g, l, h) ==
    \A k \in 0 .. LOCAL_SIZE - 1 :
        mem'.shared[g][k] = IF k = l /\ l < h THEN mem.shared[g][l] + mem.shared[g][l + h]
                            ELSE mem.shared[g][k]

LEMMA LiveAdds ==
  ASSUME NEW g \in 0 .. groups - 1, NEW l \in 0 .. LOCAL_SIZE - 1, NEW b \in 1 .. 9,
         Phase(g, b), mem.barriers[Member(g, l)] = b, Width(b + 1) # 0,
         Arrived(Member(g, l), b + 1), TakenIn(g, l, Width(b + 1))
  PROVE  Phase(g, b)'
<1> DEFINE h == Width(b + 1)
<1>0. LOCAL_SIZE \in Nat \ {0} /\ b # 0 /\ b # b + 1
  BY Numbering
<1>1. h \in Nat /\ h > 0 /\ Width(b) = 2 * h /\ Width(b) <= LOCAL_SIZE
  <2>1. b \in 1 .. 10 /\ b + 1 \in 1 .. 10
    OBVIOUS
  <2>2. Width(b + 1) \in Nat /\ Width(b) <= LOCAL_SIZE
    BY <2>1, Widths
  <2>3. Width(b) = 2 * Width(b + 1)
    BY Widths
  <2> QED
    BY <2>2, <2>3
<1> HIDE DEF h
<1>2. \A k : Width(k)' = Width(k)
  BY DEF Width
<1>3. ASSUME NEW k \in 0 .. LOCAL_SIZE - 1
      PROVE  mem'.barriers[Member(g, k)] = IF k = l THEN b + 1 ELSE mem.barriers[Member(g, k)]
  <2>1. /\ Member(g, k) \in 2 .. PastLast + 1
        /\ local_id(Member(g, k)) = k /\ local_id(Member(g, l)) = l
    BY MemberIs
  <2> QED
    BY <2>1 DEF Arrived
<1>4. ASSUME NEW k \in 0 .. LOCAL_SIZE - 1
      PROVE  /\ Alive(g, b, k) <=> /\ k < 2 * h
                                   /\ k - h \in 0 .. h - 1 => mem.barriers[Member(g, k - h)] # b + 1
             /\ Alive(g, b, k)' <=> /\ k < 2 * h
                                    /\ k - h \in 0 .. h - 1 =>
                                          mem'.barriers[Member(g, k - h)] # b + 1
  BY <1>1, <1>2 DEF Alive, h
<1>5. ASSUME NEW k \in 0 .. LOCAL_SIZE - 1
      PROVE  Alive(g, b, k)' <=> Alive(g, b, k) /\ ~ (l < h /\ k = l + h)
  <2>1. CASE k - h \in 0 .. h - 1
    <3>1. k - h \in 0 .. LOCAL_SIZE - 1 /\ (k - h = l <=> k = l + h) /\ (k = l + h => l < h)
      BY <1>0, <1>1, <2>1
    <3>2. mem'.barriers[Member(g, k - h)]
            = IF k - h = l THEN b + 1 ELSE mem.barriers[Member(g, k - h)]
      BY <1>3, <3>1
    <3> QED
      BY <1>4, <2>1, <3>1, <3>2
  <2>2. CASE ~ (k - h \in 0 .. h - 1)
    <3>1. ~ (l < h /\ k = l + h)
      BY <1>0, <1>1, <2>2
    <3> QED
      BY <1>4, <2>2, <3>1
  <2> QED
    BY <2>1, <2>2
<1>6. ASSUME NEW k \in 0 .. LOCAL_SIZE - 1
      PROVE  Live(g, b)'[k] = IF Alive(g, b, k)' THEN mem'.shared[g][k] ELSE 0
  BY DEF Live
<1>7. ASSUME NEW k \in 0 .. LOCAL_SIZE - 1
      PROVE  mem'.shared[g][k] = IF k = l /\ l < h THEN mem.shared[g][l] + mem.shared[g][l + h]
                                 ELSE mem.shared[g][k]
  BY DEF TakenIn, h
<1>8. Adds(Live(g, b)', LOCAL_SIZE, Total(g))
  <2>0. Adds(Live(g, b), LOCAL_SIZE, Total(g))
    BY <1>0 DEF Phase
  <2>1. CASE ~ (l < h)
    <3>1. \A k \in 0 .. LOCAL_SIZE - 1 : Live(g, b)'[k] = Live(g, b)[k]
      BY <1>5, <1>6, <1>7, <2>1, LiveAt
    <3> QED
      BY <1>0, <2>0, <3>1, AddsSame
  <2>2. CASE l < h
    <3>1. PICK j \in 0 .. LOCAL_SIZE - 1 : j = l + h
      BY <1>0, <1>1, <2>2
    <3>2. /\ l # j /\ l < 2 * h /\ j < 2 * h /\ ~ (l - h \in 0 .. h - 1) /\ j - h = l
      BY <1>0, <1>1, <2>2, <3>1
    <3>3. Alive(g, b, l) /\ Alive(g, b, j)
      BY <1>0, <1>4, <3>2
    <3>4. Live(g, b)[l] = mem.shared[g][l] /\ Live(g, b)[j] = mem.shared[g][j]
      BY <3>3, LiveAt
    <3>5. Live(g, b)'[l] = mem.shared[g][l] + mem.shared[g][j] /\ Live(g, b)'[j] = 0
      BY <1>5, <1>6, <1>7, <2>2, <3>1, <3>2, <3>3
    <3>6. ASSUME NEW k \in 0 .. LOCAL_SIZE - 1, k # l, k # j
          PROVE  Live(g, b)'[k] = Live(g, b)[k]
      BY <1>5, <1>6, <1>7, <3>1, <3>6, LiveAt
    <3>7. Moved(Live(g, b), Live(g, b)', LOCAL_SIZE, l, j)
      <4>1. PICK f : f = Live(g, b)
        OBVIOUS
      <4>2. PICK f2 : f2 = Live(g, b)'
        OBVIOUS
      <4> QED
        BY <3>2, <3>4, <3>5, <3>6, <4>1, <4>2 DEF Moved
    <3> QED
      BY <1>0, <2>0, <3>7, AddsMoved
  <2> QED
    BY <2>1, <2>2
<1>9. \A k \in 0 .. LOCAL_SIZE - 1 : mem'.barriers[Member(g, k)] \in {b, b + 1}
  BY <1>3 DEF Phase
<1> QED
  BY <1>0, <1>8, <1>9 DEF Phase, Total, Rest, RestOf, Place, Member, ProductAt

\* Where an item is, how often it has come to a barrier and what it has done.
ReduceItem(t) ==
    /\ pc[t] \in {41, 51, 61, End} /\ mem.barriers[t] \in 0 .. 9
    /\ pc[t] \in {41, 51} => mem.barriers[t] = 0 /\ mem.offset[t] = Width(2)
    /\ pc[t] \in {51, 61} => mem.launched = "yes"
    /\ pc[t] = 61 => mem.offset[t] = Width(mem.barriers[t] + 1)
    /\ pc[t] = 61 \/ (Ended(t) /\ mem.launched = "yes") =>
          mem.barriers[t] # 0 /\ Width(mem.barriers[t]) # 0
    /\ Ended(t) => mem.launched # "no"
    /\ Ended(t) /\ mem.launched = "yes" =>
          /\ Width(mem.barriers[t] + 1) = 0
          /\ local_id(t) = 0 => mem.output[group_id(t)] = Total(group_id(t))
    /\ Ended(t) /\ mem.launched = "never" => mem.barriers[t] = 0
    /\ pc[t] # 41 /\ mem.launched = "yes" /\ global_id(t) < DotLength =>
          mem.C[global_id(t)] = Product[global_id(t)]
ReductionHost ==
    /\ pc[1] \in {12, 119, 130, End} /\ mem.launched \in {"no", "yes", "never"}
    /\ mem.launched = "no" <=> pc[1] = 12
    /\ mem.launched = "never" => pc[1] = End
    /\ pc[1] \in {130, End} /\ mem.launched = "yes" => \A t \in 2 .. PastLast + 1 : Ended(t)
    /\ pc[1] = 130 => mem.cpu_dot = mem.gpu_dot
    /\ mem.printed = IF pc[1] = End /\ mem.launched = "yes" THEN "correct" ELSE Silent
ReductionShape ==
    /\ Thread = 1 .. PastLast + 1
    /\ DOMAIN mem = {"launched", "printed", "cpu_dot", "gpu_dot", "C", "shared", "output",
                     "barriers", "offset"}
    /\ DOMAIN mem.barriers = Thread /\ DOMAIN mem.offset = Thread
    /\ DOMAIN mem.C = 0 .. DotLength - 1
    /\ Cells(mem.shared)
    /\ DOMAIN mem.output = 0 .. groups - 1
    /\ \A g \in 0 .. groups - 1 : mem.output[g] \in Nat

\* The items of a group are never more than one barrier apart, and what they have still to add
\* up is the same at each.
ReductionInv ==
    /\ ReductionShape
    /\ ReductionHost
    /\ \A t \in 2 .. PastLast + 1 : ReduceItem(t)
    /\ \A g \in 0 .. groups - 1 : \E m \in 0 .. 9 : Phase(g, m)

\* An item that steps leaves the others and their groups as they are.
ReduceStep(t, line, b) ==
    /\ DOMAIN pc' = DOMAIN pc /\ pc'[t] = line /\ \A u \in Thread : u # t => pc'[u] = pc[u]
    /\ ReductionShape'
    /\ mem'.launched = mem.launched /\ mem'.printed = mem.printed
    /\ mem'.cpu_dot = mem.cpu_dot /\ mem'.gpu_dot = mem.gpu_dot
    /\ Arrived(t, b)
    /\ \A u \in 2 .. PastLast + 1 : u # t =>
          /\ mem'.offset[u] = mem.offset[u]
          /\ global_id(u) < DotLength => mem'.C[global_id(u)] = mem.C[global_id(u)]
    /\ \A g \in 0 .. groups - 1 :
          /\ g # group_id(t) => mem'.shared[g] = mem.shared[g]
          /\ g # group_id(t) \/ local_id(t) # 0 => mem'.output[g] = mem.output[g]

LEMMA ReduceOthers ==
  ASSUME ReductionInv, NEW t \in 2 .. PastLast + 1, NEW line, NEW b, ReduceStep(t, line, b),
         NEW u \in 2 .. PastLast + 1, u # t
  PROVE  ReduceItem(u)'
<1>1. ReduceItem(u) /\ u \in Thread /\ ~ (group_id(u) = group_id(t) /\ local_id(u) = local_id(t))
  <2>1. ReduceItem(u) /\ Thread = 1 .. PastLast + 1
    BY DEF ReductionInv, ReductionShape
  <2>2. PastLast \in Nat
    BY Numbering
  <2>3. u \in Thread
    BY <2>1, <2>2
  <2>4. t = Member(group_id(t), local_id(t)) /\ u = Member(group_id(u), local_id(u))
    BY Numbering
  <2>5. ~ (group_id(u) = group_id(t) /\ local_id(u) = local_id(t))
    BY <2>4
  <2> QED
    BY <2>1, <2>3, <2>5
<1>2. /\ pc'[u] = pc[u] /\ mem'.barriers[u] = mem.barriers[u] /\ mem'.offset[u] = mem.offset[u]
      /\ global_id(u) < DotLength => mem'.C[global_id(u)] = mem.C[global_id(u)]
      /\ mem'.launched = mem.launched
  BY <1>1 DEF ReduceStep, Arrived
<1>3. local_id(u) = 0 /\ mem.output[group_id(u)] = Total(group_id(u)) =>
          mem'.output[group_id(u)] = Total(group_id(u))
  <2>1. group_id(u) \in 0 .. groups - 1
    BY Numbering
  <2> QED
    BY <1>1, <2>1 DEF ReduceStep
<1>4. \A k : Width(k)' = Width(k)
  BY DEF Width
<1> QED
  BY <1>1, <1>2, <1>3, <1>4 DEF ReduceItem, Ended

\* A group whose items and cells stay as they are.
LEMMA PhaseStays ==
  ASSUME NEW g \in 0 .. groups - 1, NEW m \in 0 .. 9, Phase(g, m),
         mem'.shared[g] = mem.shared[g],
         \A l \in 0 .. LOCAL_SIZE - 1 : mem'.barriers[Member(g, l)] = mem.barriers[Member(g, l)]
  PROVE  Phase(g, m)'
<1>0. LOCAL_SIZE \in Nat
  BY Numbering
<1>1. ASSUME NEW k \in 0 .. LOCAL_SIZE - 1, m # 0 PROVE Alive(g, m, k)' <=> Alive(g, m, k)
  <2>1. Width(m + 1)' = Width(m + 1) /\ Width(m)' = Width(m)
    BY DEF Width
  <2>2. ASSUME k - Width(m + 1) \in 0 .. Width(m + 1) - 1
        PROVE  k - Width(m + 1) \in 0 .. LOCAL_SIZE - 1
    <3>1. m + 1 \in 1 .. 10
      OBVIOUS
    <3>2. Width(m + 1) \in Nat /\ Width(m + 1) <= LOCAL_SIZE
      BY <3>1, Widths
    <3> QED
      BY <1>0, <2>2, <3>2
  <2> QED
    BY <2>1, <2>2 DEF Alive
<1>2. ASSUME m # 0 PROVE Live(g, m)' = Live(g, m)
  BY <1>1, <1>2 DEF Live
<1>3. \A i, j : Place(i, j)' = Place(i, j) /\ ProductAt(i)' = ProductAt(i)
  BY DEF Place, ProductAt, Product
<1>4. Total(g)' = Total(g)
  BY DEF Total, Rest, RestOf, ProductAt
<1> QED
  BY <1>2, <1>3, <1>4 DEF Phase, Member

LEMMA ReducePasses ==
  ASSUME ReductionInv, NEW t \in 2 .. PastLast + 1, NEW line, NEW b, ReduceStep(t, line, b),
         ~ Ended(t), ReduceItem(t)', \E m \in 0 .. 9 : Phase(group_id(t), m)'
  PROVE  ReductionInv'
<1>1. \A u \in 2 .. PastLast + 1 : ReduceItem(u)'
  BY ReduceOthers
<1>2. ASSUME NEW g \in 0 .. groups - 1 PROVE \E m \in 0 .. 9 : Phase(g, m)'
  <2>1. CASE g = group_id(t)
    BY <2>1
  <2>2. CASE g # group_id(t)
    <3>1. PICK m \in 0 .. 9 : Phase(g, m)
      BY DEF ReductionInv
    <3>2. \A l \in 0 .. LOCAL_SIZE - 1 : Member(g, l) \in 2 .. PastLast + 1 /\ Member(g, l) # t
      BY <2>2, MemberIs
    <3>3. mem'.shared[g] = mem.shared[g]
          /\ \A l \in 0 .. LOCAL_SIZE - 1 :
                mem'.barriers[Member(g, l)] = mem.barriers[Member(g, l)]
      BY <2>2, <3>2 DEF ReduceStep, Arrived
    <3> QED
      BY <3>1, <3>3, PhaseStays
  <2> QED
    BY <2>1, <2>2
<1>3. ReductionHost'
  <2>1. 1 # t /\ 1 \in Thread /\ ReductionHost
    <3>1. PastLast \in Nat
      BY Numbering
    <3> QED
      BY <3>1 DEF ReductionInv, ReductionShape
  <2>2. ~ (pc[1] \in {130, End} /\ mem.launched = "yes")
    BY <2>1 DEF ReductionHost
  <2> QED
    BY <2>1, <2>2 DEF ReduceStep, ReductionHost
<1>4. PastLast' = PastLast /\ groups' = groups
  BY DEF PastLast, groups
<1> QED
  BY <1>1, <1>2, <1>3, <1>4 DEF ReductionInv, ReduceStep

\* What an item step leaves alone in any case.
LEMMA ReduceAt ==
  ASSUME ReductionInv, NEW t \in 2 .. PastLast + 1, NEW from, NEW line,
         At(t, from), Goto(t, line)
  PROVE  /\ pc[t] = from /\ DOMAIN pc' = DOMAIN pc /\ pc'[t] = line /\ t \in Thread /\ t # 1
         /\ \A u \in Thread : u # t => pc'[u] = pc[u]
         /\ Thread = 1 .. PastLast + 1 /\ Thread' = 1 .. PastLast + 1 /\ Items = 2 .. PastLast + 1
         /\ ReduceItem(t) /\ group_id(t) \in 0 .. groups - 1 /\ local_id(t) \in 0 .. LOCAL_SIZE - 1
         /\ t = Member(group_id(t), local_id(t)) /\ global_id(t) \in Nat
         /\ global_id(t) = Place(group_id(t), local_id(t))
<1>1. PastLast \in Nat
  BY Numbering
<1>2. Thread = 1 .. PastLast + 1 /\ t \in Thread /\ t # 1 /\ Items = 2 .. PastLast + 1
  BY <1>1 DEF ReductionInv, ReductionShape, Items
<1>3. pc[t] = from /\ pc' = [pc EXCEPT ![t] = line]
  BY DEF At, Goto
<1>4. /\ DOMAIN pc' = DOMAIN pc /\ pc'[t] = line /\ \A u \in Thread : u # t => pc'[u] = pc[u]
      /\ Thread' = Thread
  BY <1>2, <1>3 DEF Thread
<1> QED
  BY <1>2, <1>3, <1>4, Numbering DEF ReductionInv, Place

LEMMA MulKept ==
  ASSUME ReductionInv, NEW t \in 2 .. PastLast + 1, mul(t)
  PROVE  ReductionInv'
<1> DEFINE i == global_id(t)
           new == IF i < DotLength THEN [mem EXCEPT !.C[i] = Product[i]] ELSE mem
<1>1. \/ mem.launched = "yes" /\ At(t, 41) /\ Goto(t, 51) /\ mem' = new
      \/ mem.launched = "never" /\ At(t, 41) /\ Goto(t, End) /\ mem' = mem
  BY DEF mul, Item, Await, Step
<1>2. PICK line \in {51, End} : /\ At(t, 41) /\ Goto(t, line)
                                /\ line = 51 => mem.launched = "yes" /\ mem' = new
                                /\ line = End => mem.launched = "never" /\ mem' = mem
  BY <1>1 DEF End
<1>3. /\ pc[t] = 41 /\ DOMAIN pc' = DOMAIN pc /\ pc'[t] = line /\ t \in Thread /\ t # 1
      /\ \A u \in Thread : u # t => pc'[u] = pc[u]
      /\ Thread = 1 .. PastLast + 1 /\ Thread' = 1 .. PastLast + 1
      /\ ReduceItem(t) /\ group_id(t) \in 0 .. groups - 1
      /\ i \in Nat
  BY <1>2, ReduceAt
<1>4. ReductionShape
  BY DEF ReductionInv
<1> HIDE DEF i
<1>5. /\ DOMAIN mem' = DOMAIN mem /\ mem'.launched = mem.launched /\ mem'.printed = mem.printed
      /\ mem'.cpu_dot = mem.cpu_dot /\ mem'.gpu_dot = mem.gpu_dot
      /\ mem'.shared = mem.shared /\ mem'.output = mem.output
      /\ mem'.barriers = mem.barriers /\ mem'.offset = mem.offset
      /\ DOMAIN mem'.C = DOMAIN mem.C
      /\ \A k \in DOMAIN mem.C : k # i => mem'.C[k] = mem.C[k]
      /\ line = 51 /\ i < DotLength => mem'.C[i] = Product[i]
  <2>1. CASE line = End
    BY <1>2, <2>1 DEF End
  <2>2. CASE line = 51 /\ i < DotLength
    <3>1. mem' = [mem EXCEPT !.C[i] = Product[i]]
      BY <1>2, <2>2
    <3>2. DotLength \in Nat
      BY KernelAssumption
    <3>3. i \in 0 .. DotLength - 1
      BY <1>3, <2>2, <3>2
    <3>4. i \in DOMAIN mem.C
      BY <1>4, <3>3 DEF ReductionShape
    <3> QED
      BY <1>4, <2>2, <3>1, <3>4 DEF ReductionShape, End
  <2>3. CASE line = 51 /\ ~ (i < DotLength)
    BY <1>2, <2>3
  <2> QED
    BY <2>1, <2>2, <2>3
<1> HIDE DEF new
<1>6. mem.barriers[t] = 0 /\ mem.offset[t] = Width(2)
  BY <1>3 DEF ReduceItem
<1>7. ReductionShape'
  <2>1. groups' = groups /\ PastLast' = PastLast
    BY DEF groups, PastLast
  <2> QED
    BY <1>3, <1>4, <1>5, <2>1 DEF ReductionShape, Cells
<1>8. ReduceStep(t, line, 0)
  <2>1. ASSUME NEW u \in 2 .. PastLast + 1, u # t, global_id(u) < DotLength
        PROVE  mem'.C[global_id(u)] = mem.C[global_id(u)]
    <3>1. global_id(u) # i /\ global_id(u) \in Nat
      <4>1. t \in Int /\ u \in Int
        BY Numbering
      <4> QED
        BY <2>1, <4>1, Numbering DEF global_id, i
    <3> QED
      BY <1>4, <1>5, <2>1, <3>1, Numbering DEF ReductionShape
  <2> QED
    BY <1>3, <1>5, <1>6, <1>7, <2>1 DEF ReduceStep, Arrived
<1>9. ReduceItem(t)'
  <2>1. Width(2)' = Width(2) /\ Product' = Product
    BY DEF Width, Product
  <2>2. i = global_id(t)
    BY DEF i
  <2>3. 51 \notin {41, 61, End}
    BY DEF End
  <2> QED
    BY <1>2, <1>3, <1>5, <1>6, <2>1, <2>2, <2>3 DEF ReduceItem, Ended, End
<1>10. \E m \in 0 .. 9 : Phase(group_id(t), m)'
  <2>1. PICK m \in 0 .. 9 : Phase(group_id(t), m)
    BY <1>3 DEF ReductionInv
  <2> QED
    BY <1>3, <1>5, <2>1, PhaseStays
<1>11. ~ Ended(t)
  BY <1>3 DEF Ended, End
<1> QED
  BY <1>8, <1>9, <1>10, <1>11, ReducePasses

\* Line 51, the loop and the end of the kernel.
Loads(t) ==
    /\ At(t, 51) /\ Goto(t, 61)
    /\ mem' = Arrive([mem EXCEPT !.shared[group_id(t)][local_id(t)] =
                          IF global_id(t) < DotLength THEN mem.C[global_id(t)] ELSE 0], t)
Sum2(t) == mem.shared[group_id(t)][local_id(t)]
             + mem.shared[group_id(t)][local_id(t) + mem.offset[t]]
Takes(t) ==
    /\ At(t, 61) /\ Goto(t, 61) /\ Passed(t, Group(t)) /\ mem.offset[t] > 0
    /\ \/ /\ local_id(t) < mem.offset[t]
          /\ mem' = Arrive([[mem EXCEPT !.shared[group_id(t)][local_id(t)] = Sum2(t)]
                                EXCEPT !.offset[t] = mem.offset[t] \div 2], t)
       \/ /\ ~ (local_id(t) < mem.offset[t])
          /\ mem' = Arrive([mem EXCEPT !.offset[t] = mem.offset[t] \div 2], t)
Delivers(t) ==
    /\ At(t, 61) /\ Goto(t, End) /\ Passed(t, Group(t)) /\ mem.offset[t] = 0
    /\ mem' = IF local_id(t) = 0
              THEN [mem EXCEPT !.output[group_id(t)] = mem.shared[group_id(t)][0]] ELSE mem

LEMMA ReduceCases ==
  ASSUME NEW t, reduce(t)
  PROVE  Loads(t) \/ Takes(t) \/ Delivers(t)
BY DEF reduce, Await, Step, Loads, Takes, Delivers, Sum2

\* An item that goes on finds all of its group at its barrier or at the next.
LEMMA PhaseAt ==
  ASSUME ReductionInv, NEW t \in 2 .. PastLast + 1, At(t, 61), Passed(t, Group(t))
  PROVE  /\ mem.barriers[t] \in 1 .. 9 /\ Width(mem.barriers[t]) # 0
         /\ mem.offset[t] = Width(mem.barriers[t] + 1)
         /\ Phase(group_id(t), mem.barriers[t])
         /\ \A l \in 0 .. LOCAL_SIZE - 1 :
               mem.barriers[Member(group_id(t), l)] >= mem.barriers[t]
<1> DEFINE g == group_id(t)
           b == mem.barriers[t]
<1>0. /\ g \in 0 .. groups - 1 /\ local_id(t) \in 0 .. LOCAL_SIZE - 1
      /\ t = Member(g, local_id(t))
  BY Numbering
<1>1. pc[t] = 61 /\ ReduceItem(t) /\ Cells(mem.shared) /\ Items = 2 .. PastLast + 1
  <2>1. PastLast \in Nat
    BY Numbering
  <2> QED
    BY <2>1 DEF At, ReductionInv, ReductionShape, Items
<1>2. b \in 1 .. 9 /\ Width(b) # 0 /\ mem.offset[t] = Width(b + 1)
  BY <1>1 DEF ReduceItem
<1>3. \A l \in 0 .. LOCAL_SIZE - 1 : mem.barriers[Member(g, l)] >= b
  <2>1. \A l \in 0 .. LOCAL_SIZE - 1 : Member(g, l) \in Group(t)
    BY <1>0, <1>1, MemberIs DEF Group
  <2> QED
    BY <2>1 DEF Passed
<1>4. PICK m \in 0 .. 9 : Phase(g, m)
  BY <1>0 DEF ReductionInv
<1>5. b \in {m, m + 1}
  <2> HIDE DEF g
  <2> QED
    BY <1>0, <1>4 DEF Phase
<1>6. CASE b = m
  BY <1>2, <1>3, <1>4, <1>6
<1>7. CASE b = m + 1
  <2>1. \A l \in 0 .. LOCAL_SIZE - 1 : mem.barriers[Member(g, l)] = m + 1
    <3>1. \A l \in 0 .. LOCAL_SIZE - 1 :
             mem.barriers[Member(g, l)] \in {m, m + 1} /\ mem.barriers[Member(g, l)] >= m + 1
      BY <1>3, <1>4, <1>7 DEF Phase
    <3> QED
      BY <3>1
  <2>2. m \in 0 .. 8 /\ Width(m + 1) # 0
    BY <1>2, <1>7
  <2> HIDE DEF g, b
  <2>3. Phase(g, m + 1)
    BY <1>0, <1>1, <1>4, <2>1, <2>2, PhaseOver
  <2> QED
    BY <1>2, <1>3, <1>7, <2>3 DEF g, b
<1> QED
  BY <1>5, <1>6, <1>7

LEMMA LoadKept ==
  ASSUME ReductionInv, NEW t \in 2 .. PastLast + 1, Loads(t)
  PROVE  ReductionInv'
<1> DEFINE g == group_id(t)
           l == local_id(t)
           i == global_id(t)
<1>1. /\ pc[t] = 51 /\ DOMAIN pc' = DOMAIN pc /\ pc'[t] = 61 /\ t \in Thread /\ t # 1
      /\ \A u \in Thread : u # t => pc'[u] = pc[u]
      /\ Thread = 1 .. PastLast + 1 /\ Thread' = 1 .. PastLast + 1
      /\ ReduceItem(t) /\ g \in 0 .. groups - 1 /\ l \in 0 .. LOCAL_SIZE - 1
      /\ t = Member(g, l) /\ i \in Nat /\ i = Place(g, l)
  BY ReduceAt DEF Loads
<1>2. ReductionShape /\ mem.launched = "yes" /\ mem.barriers[t] = 0 /\ mem.offset[t] = Width(2)
  BY <1>1 DEF ReductionInv, ReduceItem, End
<1>3. PICK value \in Nat : /\ value = ProductAt(i)
                           /\ value = IF i < DotLength THEN mem.C[i] ELSE 0
  <2>1. i < DotLength => mem.C[i] = Product[i]
    BY <1>1, <1>2 DEF ReduceItem
  <2>2. Product[i] \in Nat
    BY <1>1, ProductDefined
  <2> HIDE DEF i
  <2> QED
    BY <2>1, <2>2 DEF ProductAt
<1>4. mem' = Arrive([mem EXCEPT !.shared[g][l] = value], t)
  BY <1>3 DEF Loads
<1> HIDE DEF g, l, i
<1>5. /\ DOMAIN mem' = DOMAIN mem /\ mem'.launched = mem.launched /\ mem'.printed = mem.printed
      /\ mem'.cpu_dot = mem.cpu_dot /\ mem'.gpu_dot = mem.gpu_dot
      /\ mem'.C = mem.C /\ mem'.output = mem.output /\ mem'.offset = mem.offset
      /\ mem'.barriers = [mem.barriers EXCEPT ![t] = mem.barriers[t] + 1]
      /\ mem'.shared = [mem.shared EXCEPT ![g] = [mem.shared[g] EXCEPT ![l] = value]]
  BY <1>2, <1>4 DEF Arrive, ReductionShape
<1>6. /\ DOMAIN mem'.shared = DOMAIN mem.shared
      /\ \A o \in 0 .. groups - 1 : o # g => mem'.shared[o] = mem.shared[o]
      /\ DOMAIN mem'.shared[g] = DOMAIN mem.shared[g] /\ mem'.shared[g][l] = value
      /\ \A k \in 0 .. LOCAL_SIZE - 1 : k # l => mem'.shared[g][k] = mem.shared[g][k]
  <2>1. /\ DOMAIN mem.shared = 0 .. groups - 1 /\ DOMAIN mem.shared[g] = 0 .. LOCAL_SIZE - 1
    BY <1>1, <1>2 DEF ReductionShape, Cells
  <2>2. PICK row : row = [mem.shared[g] EXCEPT ![l] = value]
    OBVIOUS
  <2>3. /\ DOMAIN row = DOMAIN mem.shared[g] /\ row[l] = value
        /\ \A k \in 0 .. LOCAL_SIZE - 1 : k # l => row[k] = mem.shared[g][k]
    BY <1>1, <2>1, <2>2
  <2>4. mem'.shared = [mem.shared EXCEPT ![g] = row]
    BY <1>5, <2>2
  <2>5. mem'.shared[g] = row
    BY <1>1, <2>1, <2>4
  <2> QED
    BY <2>1, <2>3, <2>4, <2>5
<1>7. Arrived(t, 1)
  <2>1. DOMAIN mem.barriers = Thread
    BY <1>2 DEF ReductionShape
  <2>2. DOMAIN mem'.barriers = DOMAIN mem.barriers /\ mem'.barriers[t] = 0 + 1
    BY <1>1, <1>2, <1>5, <2>1
  <2>3. \A u \in 2 .. PastLast + 1 : u # t => mem'.barriers[u] = mem.barriers[u]
    BY <1>1, <1>5, <2>1
  <2> QED
    BY <2>2, <2>3 DEF Arrived
<1>8. groups' = groups /\ PastLast' = PastLast
  BY DEF groups, PastLast
<1>9. Cells(mem.shared)'
  <2>1. Cells(mem.shared)
    BY <1>2 DEF ReductionShape
  <2> QED
    BY <1>1, <1>6, <1>8, <2>1 DEF Cells
<1>10. ReductionShape'
  BY <1>1, <1>2, <1>5, <1>7, <1>8, <1>9 DEF ReductionShape, Arrived
<1>11. ReduceStep(t, 61, 1)
  BY <1>1, <1>5, <1>6, <1>7, <1>10 DEF ReduceStep, g
<1>12. ReduceItem(t)'
  <2>1. Width(2)' = Width(2) /\ Width(1)' = Width(1) /\ Product' = Product
    BY DEF Width, Product
  <2>2. Width(1) # 0 /\ mem'.barriers[t] = 1 /\ mem'.offset[t] = Width(1 + 1)
    BY <1>2, <1>5, <1>7, Widths, Numbering DEF Arrived
  <2>3. i < DotLength => mem'.C[i] = Product[i]
    BY <1>1, <1>2, <1>5 DEF ReduceItem, i
  <2> QED
    BY <1>1, <1>2, <1>5, <2>1, <2>2, <2>3 DEF ReduceItem, Ended, End, i
<1>13. Phase(g, 0)'
  <2>1. PICK m \in 0 .. 9 : Phase(g, m)
    BY <1>1 DEF ReductionInv
  <2>2. m = 0
    <3>1. mem.barriers[Member(g, l)] \in {m, m + 1}
      BY <1>1, <2>1 DEF Phase
    <3> QED
      BY <1>1, <1>2, <3>1
  <2>3. \A x : ProductAt(x)' = ProductAt(x)
    BY DEF ProductAt, Product
  <2>4. ASSUME NEW k \in 0 .. LOCAL_SIZE - 1
        PROVE  /\ mem'.barriers[Member(g, k)] \in {0, 1}
               /\ mem'.barriers[Member(g, k)] = 1 => mem'.shared[g][k] = ProductAt(Place(g, k))
    <3>1. CASE k = l
      BY <1>1, <1>3, <1>6, <1>7, <3>1 DEF Arrived
    <3>2. CASE k # l
      <4>1. Member(g, k) \in 2 .. PastLast + 1 /\ Member(g, k) # t
        BY <1>1, <3>2, MemberIs
      <4>2. mem'.barriers[Member(g, k)] = mem.barriers[Member(g, k)]
        BY <1>7, <4>1 DEF Arrived
      <4> QED
        BY <1>6, <2>1, <2>2, <3>2, <4>2 DEF Phase
    <3> QED
      BY <3>1, <3>2
  <2> QED
    BY <2>3, <2>4 DEF Phase, Place, Member
<1>14. \E m \in 0 .. 9 : Phase(g, m)'
  <2>1. 0 \in 0 .. 9
    OBVIOUS
  <2> QED
    BY <1>13, <2>1
<1>15. ~ Ended(t)
  BY <1>1 DEF Ended, End
<1> QED
  BY <1>11, <1>12, <1>14, <1>15, ReducePasses DEF g

\* An item that goes on adds the partial sum it is to take in, if one, and comes to the next
\* barrier.
LEMMA TakeKept ==
  ASSUME ReductionInv, NEW t \in 2 .. PastLast + 1, Takes(t)
  PROVE  ReductionInv'
<1> DEFINE g == group_id(t)
           l == local_id(t)
           h == mem.offset[t]
           half == h \div 2
<1>0. At(t, 61) /\ Goto(t, 61) /\ Passed(t, Group(t)) /\ h > 0
  BY DEF Takes
<1>1. /\ pc[t] = 61 /\ DOMAIN pc' = DOMAIN pc /\ pc'[t] = 61 /\ t \in Thread /\ t # 1
      /\ \A u \in Thread : u # t => pc'[u] = pc[u]
      /\ Thread = 1 .. PastLast + 1 /\ Thread' = 1 .. PastLast + 1
      /\ ReduceItem(t) /\ g \in 0 .. groups - 1 /\ l \in 0 .. LOCAL_SIZE - 1
      /\ t = Member(g, l)
  BY <1>0, ReduceAt
<1>2. PICK b \in 1 .. 9 : /\ ReductionShape /\ mem.launched = "yes" /\ mem.barriers[t] = b
                         /\ Width(b) # 0 /\ h = Width(b + 1) /\ Phase(g, b)
  BY <1>0, <1>1, PhaseAt DEF ReductionInv, ReduceItem
<1>3. /\ b \in 1 .. 8 /\ h \in Nat /\ Width(b) = 2 * h /\ Width(b) <= LOCAL_SIZE
      /\ half = Width((b + 1) + 1) /\ h # 0 /\ LOCAL_SIZE \in Nat
  <2> HIDE DEF h
  <2>1. b # 9
    <3>1. Width(10) = 0
      BY Widths
    <3> QED
      BY <1>0, <1>2, <3>1
  <2>2. b \in 1 .. 8 /\ b \in 1 .. 10 /\ b + 1 \in 1 .. 10 /\ b + 1 \in 1 .. 9
    BY <1>2, <2>1
  <2>3. h \in Nat /\ Width(b) <= LOCAL_SIZE /\ Width((b + 1) + 1) = Width(b + 1) \div 2
    BY <1>2, <2>2, Widths
  <2>4. h # 0
    BY <1>0, <2>3
  <2>5. Width(b) = 2 * Width(b + 1)
    BY <1>2, <2>4, Widths
  <2> QED
    BY <1>2, <2>2, <2>3, <2>4, <2>5, Numbering
<1>4. /\ DOMAIN mem.shared = 0 .. groups - 1 /\ DOMAIN mem.shared[g] = 0 .. LOCAL_SIZE - 1
      /\ \A k \in 0 .. LOCAL_SIZE - 1 : mem.shared[g][k] \in Nat
      /\ DOMAIN mem.barriers = Thread /\ DOMAIN mem.offset = Thread
  <2> HIDE DEF g
  <2> QED
    BY <1>1, <1>2 DEF ReductionShape, Cells
<1>5. PICK value \in Nat :
          value = IF l < h THEN mem.shared[g][l] + mem.shared[g][l + h] ELSE mem.shared[g][l]
  <2> HIDE DEF g, l, h, half
  <2>1. l < h => l + h \in 0 .. LOCAL_SIZE - 1
    BY <1>1, <1>3
  <2> QED
    BY <1>1, <1>4, <2>1
<1>6. \/ /\ l < h
         /\ mem' = Arrive([[mem EXCEPT !.shared[g][l] = value] EXCEPT !.offset[t] = half], t)
      \/ ~ (l < h) /\ mem' = Arrive([mem EXCEPT !.offset[t] = half], t)
  BY <1>5 DEF Takes, Sum2
<1>7. PICK row : row = [mem.shared[g] EXCEPT ![l] = value]
  OBVIOUS
<1>8. /\ DOMAIN row = 0 .. LOCAL_SIZE - 1 /\ row[l] = value
      /\ \A k \in 0 .. LOCAL_SIZE - 1 : k # l => row[k] = mem.shared[g][k]
  <2> HIDE DEF g, l
  <2> QED
    BY <1>1, <1>4, <1>7
<1> HIDE DEF g, l, h, half
<1>9. /\ DOMAIN mem' = DOMAIN mem /\ mem'.launched = mem.launched /\ mem'.printed = mem.printed
      /\ mem'.cpu_dot = mem.cpu_dot /\ mem'.gpu_dot = mem.gpu_dot
      /\ mem'.C = mem.C /\ mem'.output = mem.output
      /\ mem'.offset = [mem.offset EXCEPT ![t] = half]
      /\ mem'.barriers = [mem.barriers EXCEPT ![t] = mem.barriers[t] + 1]
      /\ mem'.shared = IF l < h THEN [mem.shared EXCEPT ![g] = row] ELSE mem.shared
  BY <1>2, <1>6, <1>7 DEF Arrive, ReductionShape
<1>10. /\ DOMAIN mem'.shared = DOMAIN mem.shared
       /\ \A o \in 0 .. groups - 1 : o # g => mem'.shared[o] = mem.shared[o]
       /\ DOMAIN mem'.shared[g] = 0 .. LOCAL_SIZE - 1 /\ mem'.shared[g][l] = value
       /\ \A k \in 0 .. LOCAL_SIZE - 1 : k # l => mem'.shared[g][k] = mem.shared[g][k]
  <2>1. CASE l < h
    <3>1. mem'.shared = [mem.shared EXCEPT ![g] = row] /\ mem'.shared[g] = row
      BY <1>1, <1>4, <1>9, <2>1
    <3> QED
      BY <1>4, <1>8, <3>1
  <2>2. CASE ~ (l < h)
    BY <1>4, <1>5, <1>9, <2>2
  <2> QED
    BY <2>1, <2>2
<1>11. Arrived(t, b + 1)
  <2>1. DOMAIN mem'.barriers = DOMAIN mem.barriers /\ mem'.barriers[t] = b + 1
    BY <1>1, <1>2, <1>4, <1>9
  <2>2. \A u \in 2 .. PastLast + 1 : u # t => mem'.barriers[u] = mem.barriers[u]
    BY <1>1, <1>4, <1>9
  <2> QED
    BY <2>1, <2>2 DEF Arrived
<1>12. groups' = groups /\ PastLast' = PastLast
  BY DEF groups, PastLast
<1>13. Cells(mem.shared)'
  <2>1. Cells(mem.shared)
    BY <1>2 DEF ReductionShape
  <2> QED
    BY <1>1, <1>10, <1>12, <2>1 DEF Cells
<1>14. ReductionShape'
  BY <1>1, <1>2, <1>9, <1>11, <1>12, <1>13 DEF ReductionShape, Arrived
<1>15. mem'.offset[t] = half /\ \A u \in 2 .. PastLast + 1 : u # t => mem'.offset[u] = mem.offset[u]
  <2>1. mem'.offset[t] = half
    BY <1>1, <1>4, <1>9
  <2>2. \A u \in 2 .. PastLast + 1 : u # t => mem'.offset[u] = mem.offset[u]
    BY <1>1, <1>4, <1>9
  <2> QED
    BY <2>1, <2>2
<1>16. ReduceStep(t, 61, b + 1)
  BY <1>1, <1>9, <1>10, <1>11, <1>14, <1>15 DEF ReduceStep, g
<1>17. ReduceItem(t)'
  <2>1. (\A m : Width(m)' = Width(m)) /\ Product' = Product
    BY DEF Width, Product
  <2>2. /\ mem'.barriers[t] = b + 1 /\ b + 1 \in 1 .. 9 /\ Width(b + 1) # 0
        /\ mem'.offset[t] = Width((b + 1) + 1)
    BY <1>2, <1>3, <1>11, <1>15 DEF Arrived
  <2>3. global_id(t) < DotLength => mem'.C[global_id(t)] = Product[global_id(t)]
    BY <1>1, <1>2, <1>9 DEF ReduceItem
  <2> QED
    BY <1>1, <1>2, <1>9, <2>1, <2>2, <2>3 DEF ReduceItem, Ended, End
<1>18. TakenIn(g, l, h)
  BY <1>1, <1>5, <1>10 DEF TakenIn
<1>19. Phase(g, b)'
  <2>1. mem.barriers[Member(g, l)] = b /\ Arrived(Member(g, l), b + 1)
    BY <1>1, <1>2, <1>11
  <2>2. TakenIn(g, l, Width(b + 1)) /\ Width(b + 1) # 0
    BY <1>2, <1>3, <1>18
  <2> QED
    BY <1>1, <1>2, <2>1, <2>2, LiveAdds
<1>20. \E m \in 0 .. 9 : Phase(g, m)'
  <2>1. b \in 0 .. 9
    BY <1>2
  <2> QED
    BY <1>19, <2>1
<1>21. ~ Ended(t)
  BY <1>1 DEF Ended, End
<1> QED
  BY <1>16, <1>17, <1>20, <1>21, ReducePasses DEF g

\* When one is left, the first item of the group puts it where the host reads it.
LEMMA DeliverKept ==
  ASSUME ReductionInv, NEW t \in 2 .. PastLast + 1, Delivers(t)
  PROVE  ReductionInv'
<1> DEFINE g == group_id(t)
           l == local_id(t)
           b == mem.barriers[t]
<1>0. At(t, 61) /\ Goto(t, End) /\ Passed(t, Group(t)) /\ mem.offset[t] = 0
  BY DEF Delivers
<1>1. /\ pc[t] = 61 /\ DOMAIN pc' = DOMAIN pc /\ pc'[t] = End /\ t \in Thread /\ t # 1
      /\ \A u \in Thread : u # t => pc'[u] = pc[u]
      /\ Thread = 1 .. PastLast + 1 /\ Thread' = 1 .. PastLast + 1
      /\ ReduceItem(t) /\ g \in 0 .. groups - 1 /\ l \in 0 .. LOCAL_SIZE - 1
  BY <1>0, ReduceAt
<1>2. /\ ReductionShape /\ mem.launched = "yes"
      /\ b \in 1 .. 9 /\ Width(b) # 0 /\ Width(b + 1) = 0 /\ Phase(g, b)
  BY <1>0, <1>1, PhaseAt DEF ReductionInv, ReduceItem
<1>3. mem' = IF l = 0 THEN [mem EXCEPT !.output[g] = mem.shared[g][0]] ELSE mem
  BY DEF Delivers
<1> HIDE DEF g, l, b
<1>4. mem.shared[g][0] = Total(g) /\ mem.shared[g][0] \in Nat
  <2>1. Width(b) = 1
    BY <1>2, Widths
  <2>2. 0 \in 0 .. LOCAL_SIZE - 1 /\ Cells(mem.shared)
    BY <1>2, Numbering DEF ReductionShape
  <2> QED
    BY <1>1, <1>2, <2>1, <2>2, LiveAlone DEF Cells
<1>5. /\ DOMAIN mem' = DOMAIN mem /\ mem'.launched = mem.launched /\ mem'.printed = mem.printed
      /\ mem'.cpu_dot = mem.cpu_dot /\ mem'.gpu_dot = mem.gpu_dot
      /\ mem'.C = mem.C /\ mem'.offset = mem.offset /\ mem'.barriers = mem.barriers
      /\ mem'.shared = mem.shared
      /\ mem'.output = IF l = 0 THEN [mem.output EXCEPT ![g] = mem.shared[g][0]] ELSE mem.output
  BY <1>2, <1>3 DEF ReductionShape
<1>6. /\ DOMAIN mem'.output = DOMAIN mem.output
      /\ \A o \in 0 .. groups - 1 : o # g => mem'.output[o] = mem.output[o]
      /\ IF l = 0 THEN mem'.output[g] = mem.shared[g][0] ELSE mem'.output = mem.output
  <2>1. DOMAIN mem.output = 0 .. groups - 1
    BY <1>2 DEF ReductionShape
  <2> QED
    BY <1>1, <1>5, <2>1
<1>7. groups' = groups /\ PastLast' = PastLast
  BY DEF groups, PastLast
<1>8. ReductionShape'
  <2>1. Cells(mem.shared)'
    BY <1>2, <1>5, <1>7 DEF ReductionShape, Cells
  <2>2. \A o \in 0 .. groups - 1 : mem'.output[o] \in Nat
    BY <1>2, <1>4, <1>6 DEF ReductionShape
  <2> QED
    BY <1>1, <1>2, <1>5, <1>6, <1>7, <2>1, <2>2 DEF ReductionShape
<1>9. ReduceStep(t, End, b)
  <2>1. Arrived(t, b)
    BY <1>5 DEF Arrived, b
  <2> QED
    BY <1>1, <1>5, <1>6, <1>8, <2>1 DEF ReduceStep, g, l
<1>10. ReduceItem(t)'
  <2>1. (\A m : Width(m)' = Width(m)) /\ Product' = Product /\ (\A o : Total(o)' = Total(o))
    BY DEF Width, Product, Total, Rest, RestOf, ProductAt
  <2>2. mem'.barriers[t] = b /\ b \in 1 .. 9 /\ Width(b) # 0 /\ Width(b + 1) = 0
    BY <1>2, <1>5 DEF b
  <2>3. global_id(t) < DotLength => mem'.C[global_id(t)] = Product[global_id(t)]
    BY <1>1, <1>2, <1>5 DEF ReduceItem
  <2>4. local_id(t) = 0 => mem'.output[group_id(t)] = Total(group_id(t))
    BY <1>4, <1>6 DEF l, g
  <2> QED
    BY <1>1, <1>2, <1>5, <2>1, <2>2, <2>3, <2>4 DEF ReduceItem, Ended, End
<1>11. \E m \in 0 .. 9 : Phase(g, m)'
  <2>1. b \in 0 .. 9
    BY <1>2
  <2> QED
    BY <1>1, <1>2, <1>5, <2>1, PhaseStays
<1>12. ~ Ended(t)
  BY <1>1 DEF Ended, End
<1> QED
  BY <1>9, <1>10, <1>11, <1>12, ReducePasses DEF g

LEMMA ReduceKept ==
  ASSUME ReductionInv, NEW t \in 2 .. PastLast + 1, mul(t) \/ reduce(t)
  PROVE  ReductionInv'
<1>1. mul(t) \/ Loads(t) \/ Takes(t) \/ Delivers(t)
  BY ReduceCases
<1> QED
  BY <1>1, MulKept, LoadKept, TakeKept, DeliverKept

\* The host lets no item begin twice and touches none of what they work on.
HostMoves(line) ==
    /\ DOMAIN pc' = DOMAIN pc /\ pc'[1] = line /\ \A u \in Thread : u # 1 => pc'[u] = pc[u]
    /\ DOMAIN mem' = DOMAIN mem
    /\ mem'.launched = mem.launched \/ mem.launched = "no"
    /\ mem'.C = mem.C /\ mem'.shared = mem.shared /\ mem'.output = mem.output
    /\ mem'.barriers = mem.barriers /\ mem'.offset = mem.offset

LEMMA HostPasses ==
  ASSUME ReductionInv, NEW line, HostMoves(line), ReductionHost'
  PROVE  ReductionInv'
<1>1. /\ groups' = groups /\ PastLast' = PastLast /\ Thread' = Thread
      /\ Thread = 1 .. PastLast + 1 /\ \A u \in 2 .. PastLast + 1 : u \in Thread /\ u # 1
  <2>1. PastLast \in Nat /\ Thread = 1 .. PastLast + 1
    BY Numbering DEF ReductionInv, ReductionShape
  <2> QED
    BY <2>1 DEF groups, PastLast, Thread, HostMoves
<1>2. ASSUME NEW u \in 2 .. PastLast + 1
      PROVE  ReduceItem(u)'
  <2>1. /\ ReduceItem(u) /\ pc'[u] = pc[u] /\ mem'.barriers[u] = mem.barriers[u]
        /\ mem'.offset[u] = mem.offset[u] /\ mem'.C = mem.C /\ mem'.output = mem.output
        /\ mem'.launched = mem.launched \/ mem.launched = "no"
    BY <1>1 DEF ReductionInv, HostMoves
  <2>2. (\A m : Width(m)' = Width(m)) /\ Product' = Product /\ (\A o : Total(o)' = Total(o))
    BY DEF Width, Product, Total, Rest, RestOf, ProductAt
  <2>3. CASE mem'.launched = mem.launched
    BY <2>1, <2>2, <2>3 DEF ReduceItem, Ended
  <2>4. CASE mem.launched = "no"
    <3>1. pc[u] = 41
      BY <2>1, <2>4 DEF ReduceItem, Ended
    <3> QED
      BY <2>1, <2>2, <3>1 DEF ReduceItem, Ended, End
  <2> QED
    BY <2>1, <2>3, <2>4
<1>3. ASSUME NEW g \in 0 .. groups - 1 PROVE \E m \in 0 .. 9 : Phase(g, m)'
  <2>1. PICK m \in 0 .. 9 : Phase(g, m)
    BY DEF ReductionInv
  <2> QED
    BY <2>1, PhaseStays DEF HostMoves
<1>4. ReductionShape'
  BY <1>1 DEF ReductionInv, HostMoves, ReductionShape, Cells
<1> QED
  BY <1>1, <1>2, <1>3, <1>4 DEF ReductionInv

LEMMA HostKept ==
  ASSUME ReductionInv, reduction_main(1)
  PROVE  ReductionInv'
<1>0. /\ ReductionShape /\ ReductionHost /\ Thread = 1 .. PastLast + 1 /\ 1 \in Thread
      /\ Items = 2 .. PastLast + 1
      /\ DOMAIN mem = {"launched", "printed", "cpu_dot", "gpu_dot", "C", "shared", "output",
                       "barriers", "offset"}
  <2>1. PastLast \in Nat
    BY Numbering
  <2> QED
    BY <2>1 DEF ReductionInv, ReductionShape, Items
<1>1. \A to : Goto(1, to) =>
          DOMAIN pc' = DOMAIN pc /\ pc'[1] = to /\ \A u \in Thread : u # 1 => pc'[u] = pc[u]
  BY <1>0 DEF Goto, Thread
<1>2. CASE GiveUp(1, 12) \/ Launch(1, 12, 119)
  <2>1. PICK to \in {119, End} :
            /\ pc[1] = 12 /\ Goto(1, to)
            /\ mem' = [mem EXCEPT !.launched = IF to = End THEN "never" ELSE "yes"]
    BY <1>2 DEF GiveUp, Launch, Step, At, End
  <2>2. mem.launched = "no" /\ mem.printed = Silent
    BY <2>1 DEF ReductionInv, ReductionHost, End
  <2>3. /\ HostMoves(to) /\ mem'.launched = (IF to = End THEN "never" ELSE "yes")
        /\ mem'.printed = mem.printed
    BY <1>0, <1>1, <2>1, <2>2 DEF HostMoves
  <2>4. ReductionHost'
    BY <2>2, <2>3 DEF HostMoves, ReductionHost, End
  <2> QED
    BY <2>3, <2>4, HostPasses
<1>3. CASE Finish(1, 119, [mem EXCEPT !.gpu_dot = Sum[[g \in 1 .. groups |-> mem.output[g - 1]]],
                                      !.cpu_dot = AllProducts], 130)
  <2>1. /\ pc[1] = 119 /\ Goto(1, 130) /\ \A u \in 2 .. PastLast + 1 : Ended(u)
        /\ mem' = [mem EXCEPT !.gpu_dot = Sum[[g \in 1 .. groups |-> mem.output[g - 1]]],
                              !.cpu_dot = AllProducts]
    BY <1>0, <1>3 DEF Finish, Await, Step, At
  <2>2. mem.launched = "yes" /\ mem.printed = Silent
    BY <1>0, <2>1 DEF ReductionHost, End
  <2>3. ASSUME NEW g \in 0 .. groups - 1 PROVE mem.output[g] \in Nat /\ mem.output[g] = Total(g)
    <3>1. 0 \in 0 .. LOCAL_SIZE - 1
      BY Numbering
    <3>2. PICK u \in 2 .. PastLast + 1 : group_id(u) = g /\ local_id(u) = 0
      BY <3>1, MemberIs
    <3>3. ReduceItem(u) /\ Ended(u)
      BY <2>1 DEF ReductionInv
    <3>4. mem.output[g] \in Nat
      BY <1>0 DEF ReductionShape
    <3> QED
      BY <2>2, <3>2, <3>3, <3>4 DEF ReduceItem
  <2>4. PICK output : output = mem.output
    OBVIOUS
  <2>5. Sum[[g \in 1 .. groups |-> output[g - 1]]] = AllProducts
    BY <2>3, <2>4, TotalsAdd
  <2>6. mem' = [mem EXCEPT !.gpu_dot = AllProducts, !.cpu_dot = AllProducts]
    BY <2>1, <2>4, <2>5
  <2>7. /\ HostMoves(130) /\ mem'.launched = "yes" /\ mem'.printed = Silent
        /\ mem'.cpu_dot = mem'.gpu_dot
    <3>1. Goto(1, 130)
      BY <2>1
    <3> QED
      BY <1>0, <1>1, <2>2, <2>6, <3>1 DEF HostMoves
  <2>8. ReductionHost'
    <3>1. \A u \in 2 .. PastLast + 1 : Ended(u)'
      BY <1>0, <1>1, <2>1 DEF Ended
    <3>2. PastLast' = PastLast
      BY DEF PastLast, groups
    <3> QED
      BY <2>7, <3>1, <3>2 DEF HostMoves, ReductionHost, End
  <2> QED
    BY <2>7, <2>8, HostPasses
<1>4. CASE Report(1, 130, mem.cpu_dot = mem.gpu_dot)
  <2>1. pc[1] = 130 /\ Goto(1, End) /\ mem.launched = "yes" /\ mem.cpu_dot = mem.gpu_dot
    BY <1>0, <1>4 DEF Report, Step, At, ReductionHost, End
  <2>2. mem' = [mem EXCEPT !.printed = "correct"]
    BY <1>4, <2>1 DEF Report, Step
  <2>3. HostMoves(End) /\ mem'.launched = "yes" /\ mem'.printed = "correct"
    BY <1>0, <1>1, <2>1, <2>2 DEF HostMoves
  <2>4. ReductionHost'
    <3>1. \A u \in 2 .. PastLast + 1 : Ended(u)'
      BY <1>0, <1>1, <2>1 DEF Ended, ReductionHost
    <3>2. PastLast' = PastLast
      BY DEF PastLast, groups
    <3> QED
      BY <2>3, <3>1, <3>2 DEF HostMoves, ReductionHost, End
  <2> QED
    BY <2>3, <2>4, HostPasses
<1> QED
  BY <1>2, <1>3, <1>4 DEF reduction_main, AllProducts

LEMMA ReductionKept ==
  ASSUME ReductionInv, NEW t \in Thread, IF t = 1 THEN reduction_main(t) ELSE mul(t) \/ reduce(t)
  PROVE  ReductionInv'
<1>1. t = 1 \/ t \in 2 .. PastLast + 1
  <2>1. PastLast \in Nat /\ Thread = 1 .. PastLast + 1
    BY Numbering DEF ReductionInv, ReductionShape
  <2> QED
    BY <2>1
<1> QED
  BY <1>1, HostKept, ReduceKept

LEMMA ReductionPrints ==
  ASSUME ReductionInv, AllEnded
  PROVE  mem.printed = IF mem.launched = "yes" THEN "correct" ELSE Silent
<1>1. pc[1] = End
  <2>1. PastLast \in Nat /\ Thread = 1 .. PastLast + 1
    BY Numbering DEF ReductionInv, ReductionShape
  <2> QED
    BY <2>1 DEF AllEnded, Ended
<1> QED
  BY <1>1 DEF ReductionInv, ReductionHost

-----------------------------------------------------------------------------
\* All of the kernels

KernelsInvariant ==
    /\ ItemsInvariant
    /\ program = "parallel_reduction" => ReductionInv
    /\ program = "tiled_matmul" => TiledInv
    /\ program = "select" => SelectInv
    /\ program = "daxpy" => DaxpyInv
    /\ program = "fvm_solver" => FvmInv

LEMMA KernelsStep ==
  ASSUME NEW t, ThreadStep(t)
  PROVE  /\ program = "parallel_reduction" =>
               IF t = 1 THEN reduction_main(t) ELSE mul(t) \/ reduce(t)
         /\ program = "tiled_matmul" =>
               IF t = 1 THEN tiled_main(t) ELSE load_tile(t) \/ use_tile(t) \/ shuffle(t)
         /\ program = "select" => IF t = 1 THEN select_main(t) ELSE select_item(t)
         /\ program = "daxpy" => daxpy_main(t)
         /\ program = "fvm_solver" => fvm_main(t)
BY DEF ThreadStep, LockStep, MonitorStep, EventStep, FutureStep, SchedulerStep, KernelStep,
       DataStep

LEMMA KernelsStart ==
  ASSUME Init
  PROVE  /\ program = "parallel_reduction" => Boot(program, ParallelReduction)
         /\ program = "tiled_matmul" => Boot(program, TiledMatmul)
         /\ program = "select" => Boot(program, Select)
         /\ program = "daxpy" => Boot(program, Daxpy)
         /\ program = "fvm_solver" => Boot(program, FvmSolver)
<1>1. CASE Boots(LockMains)
  BY <1>1, BootOf DEF LockMains
<1>2. CASE Boots(MonitorMains)
  BY <1>2, BootOf DEF MonitorMains
<1>3. CASE Boots(EventMains)
  BY <1>3, BootOf DEF EventMains
<1>4. CASE Boots(FutureMains)
  BY <1>4, BootOf DEF FutureMains
<1>5. CASE Boots(SchedulerMains)
  BY <1>5, BootOf DEF SchedulerMains
<1>6. CASE Boots(KernelMains)
  BY <1>6, BootOf DEF KernelMains
<1>7. CASE Boots(DataMains)
  BY <1>7, BootOf DEF DataMains
<1> QED
  BY <1>1, <1>2, <1>3, <1>4, <1>5, <1>6, <1>7 DEF Init

LEMMA ReductionBoots ==
  ASSUME Boot(program, ParallelReduction)
  PROVE  ReductionInv
<1> DEFINE items == groups * LOCAL_SIZE
           Each(value) == [t \in 1 .. items + 1 |-> value]
           memory == [launched |-> "no", printed |-> Silent, cpu_dot |-> 0, gpu_dot |-> 0,
                      C |-> [i \in 0 .. DotLength - 1 |-> 0],
                      shared |-> [g \in 0 .. groups - 1 |-> [l \in 0 .. LOCAL_SIZE - 1 |-> 0]],
                      output |-> [g \in 0 .. groups - 1 |-> 0],
                      barriers |-> Each(0), offset |-> Each(LOCAL_SIZE \div 2)]
<1>1. /\ pc = [t \in 1 .. items + 1 |-> IF t = 1 THEN 12 ELSE 41] /\ mem = memory
  BY DEF Boot, ParallelReduction, Grid, Main, Silent
<1>2. items = PastLast /\ PastLast \in Nat
  BY Numbering DEF PastLast
<1>3. /\ Thread = 1 .. PastLast + 1 /\ pc[1] = 12 /\ \A t \in 2 .. PastLast + 1 : pc[t] = 41
      /\ Thread = 1 .. items + 1
  BY <1>1, <1>2 DEF Thread
<1> HIDE DEF items
<1>4. /\ DOMAIN mem.barriers = Thread /\ DOMAIN mem.offset = Thread
      /\ \A t \in 1 .. PastLast + 1 : mem.barriers[t] = 0 /\ mem.offset[t] = LOCAL_SIZE \div 2
  BY <1>1, <1>2, <1>3
<1>5. ReductionShape
  <2>1. Cells(mem.shared)
    BY <1>1 DEF Cells
  <2>2. DOMAIN mem.output = 0 .. groups - 1 /\ \A g \in 0 .. groups - 1 : mem.output[g] \in Nat
    BY <1>1
  <2>3. DOMAIN mem.C = 0 .. DotLength - 1
    BY <1>1
  <2>4. DOMAIN mem = {"launched", "printed", "cpu_dot", "gpu_dot", "C", "shared", "output",
                      "barriers", "offset"}
    BY <1>1
  <2> QED
    BY <1>3, <1>4, <2>1, <2>2, <2>3, <2>4 DEF ReductionShape
<1>6. mem.launched = "no" /\ mem.printed = Silent
  BY <1>1
<1> HIDE DEF memory
<1>7. ReductionHost
  BY <1>3, <1>6 DEF ReductionHost, End
<1>8. ASSUME NEW t \in 2 .. PastLast + 1 PROVE ReduceItem(t)
  <2>1. mem.barriers[t] = 0 /\ mem.offset[t] = Width(2) /\ pc[t] = 41
    <3>1. t \in 1 .. PastLast + 1
      BY <1>2
    <3>2. Width(2) = LOCAL_SIZE \div 2
      BY Widths
    <3> QED
      BY <1>3, <1>4, <3>1, <3>2
  <2> QED
    BY <1>6, <2>1 DEF ReduceItem, Ended, End
<1>9. ASSUME NEW g \in 0 .. groups - 1 PROVE \E m \in 0 .. 9 : Phase(g, m)
  <2>1. \A l \in 0 .. LOCAL_SIZE - 1 : mem.barriers[Member(g, l)] = 0
    BY <1>2, <1>4, MemberIs
  <2>2. Phase(g, 0)
    BY <2>1 DEF Phase
  <2>3. 0 \in 0 .. 9
    OBVIOUS
  <2> QED
    BY <2>2, <2>3
<1> QED
  BY <1>5, <1>7, <1>8, <1>9 DEF ReductionInv

LEMMA TiledBoots ==
  ASSUME Boot(program, TiledMatmul)
  PROVE  TiledInv
<1> DEFINE tile == [r \in 0 .. 1 |-> [c \in 0 .. 1 |-> Unknown]]
           memory == [launched |-> "no", block |-> <<0, 0>>, z |-> {},
                      t |-> [t \in 1 .. 5 |-> 0], acc |-> [t \in 1 .. 5 |-> <<>>],
                      barriers |-> [t \in 1 .. 5 |-> 0], tile_x |-> tile, tile_y |-> tile]
<1>1. /\ pc = [t \in 1 .. 5 |-> IF t = 1 THEN 73 ELSE 22] /\ mem = memory
  <2>1. BlockSize * BlockSize + 1 = 5 /\ lanes = 0 .. 1
    BY DEF BlockSize, lanes
  <2> QED
    BY <2>1 DEF Boot, TiledMatmul, Grid, Main
<1>2. Thread = 1 .. 5 /\ pc[1] = 73 /\ \A t \in 2 .. 5 : pc[t] = 22
  BY <1>1 DEF Thread
<1>3. Tile(mem.tile_x) /\ Tile(mem.tile_y)
  BY <1>1 DEF Tile
<1>4. \A t \in 2 .. 5 : mem.t[t] = 0 /\ mem.acc[t] = <<>> /\ mem.barriers[t] = 0
  BY <1>1
<1>5. \A t \in 2 .. 5 : TileItem(t)
  BY <1>2, <1>4 DEF TileItem, End
<1> QED
  BY <1>1, <1>2, <1>3, <1>4, <1>5 DEF TiledInv

LEMMA SomeKernelsBoot ==
  ASSUME Init
  PROVE  /\ program = "select" => SelectInv
         /\ program = "daxpy" => DaxpyInv
         /\ program = "fvm_solver" => FvmInv
<1>0. Elements \in Nat /\ Rounds \in Nat
  BY KernelAssumption, RoundsAssumption
<1>1. ASSUME program = "select" PROVE SelectInv
  <2>1. /\ pc = [t \in 1 .. Elements + 1 |-> IF t = 1 THEN 88 ELSE 61]
        /\ mem = [v |-> <<>>, index |-> <<>>, w |-> <<>>, todo |-> {}]
    BY <1>1, KernelsStart DEF Boot, Select, Grid, Main
  <2>2. Thread = 1 .. Elements + 1 /\ pc[1] = 88
    BY <1>0, <2>1 DEF Thread
  <2> QED
    BY <2>1, <2>2 DEF SelectInv, End
<1>2. ASSUME program = "daxpy" PROVE DaxpyInv
  <2>1. /\ pc = <<71>> /\ mem = [x |-> Buffer(0), y |-> Buffer(0), it |-> 0, ok |-> FALSE]
    BY <1>2, KernelsStart DEF Boot, Daxpy, Main
  <2>2. Thread = 1 .. 1 /\ pc[1] = 71 /\ DOMAIN Buffer(0) = Indices
    BY <2>1 DEF Thread, Buffer, Indices
  <2> QED
    BY <1>0, <2>1, <2>2 DEF DaxpyInv, End
<1>3. ASSUME program = "fvm_solver" PROVE FvmInv
  <2>1. /\ pc = <<82>>
        /\ mem = [s |-> 0, u |-> [c \in cells |-> <<"known">>], u_new |-> [c \in cells |-> Unknown]]
    BY <1>3, KernelsStart DEF Boot, FvmSolver, Main
  <2>2. Thread = 1 .. 1 /\ pc[1] = 82
    BY <2>1 DEF Thread
  <2>3. DOMAIN mem = {"s", "u", "u_new"} /\ mem.s = 0
        /\ \A c \in cells : mem.u[c] # Unknown /\ mem.u_new[c] = Unknown
    BY <2>1 DEF Unknown
  <2>4. Spread(mem.u, 0)
    <3>1. \A c \in cells : ~ (Ring(c) < 0) /\ 0 % 2 # 1
      BY RingIs
    <3> QED
      BY <2>3, <3>1 DEF Spread
  <2>5. 0 % 2 = 0 /\ 0 \in Nat
    OBVIOUS
  <2> QED
    BY <2>2, <2>3, <2>4, <2>5 DEF FvmInv
<1> QED
  BY <1>1, <1>2, <1>3

LEMMA KernelsBoot == Init => KernelsInvariant
<1> SUFFICES ASSUME Init PROVE KernelsInvariant
  OBVIOUS
<1>1. program = "parallel_reduction" => ReductionInv
  BY KernelsStart, ReductionBoots
<1>2. program = "tiled_matmul" => TiledInv
  BY KernelsStart, TiledBoots
<1> QED
  BY <1>1, <1>2, ItemsBoot, SomeKernelsBoot DEF KernelsInvariant

LEMMA KernelsStutter ==
  ASSUME UNCHANGED <<pc, mem>>
  PROVE  /\ ReductionInv => ReductionInv'
         /\ TiledInv => TiledInv'
         /\ SelectInv => SelectInv'
         /\ DaxpyInv => DaxpyInv'
         /\ FvmInv => FvmInv'
<1>0. Thread' = Thread /\ \A t : Ended(t)' = Ended(t)
  BY DEF Thread, Ended
<1>1. ASSUME ReductionInv PROVE ReductionInv'
  <2>1. HostMoves(pc[1])
    BY DEF HostMoves
  <2>2. ReductionHost'
    <3>1. PastLast' = PastLast
      BY DEF PastLast, groups
    <3> QED
      BY <1>0, <1>1, <3>1 DEF ReductionInv, ReductionHost
  <2> QED
    BY <1>1, <2>1, <2>2, HostPasses
<1>2. TiledInv => TiledInv'
  <2>1. ASSUME NEW t, TileItem(t) PROVE TileItem(t)'
    <3>1. \A k : Term(t, k)' = Term(t, k)
      BY DEF Term
    <3> QED
      BY <2>1, <3>1 DEF TileItem
  <2> QED
    BY <1>0, <2>1 DEF TiledInv, Tile
<1>3. SelectInv => SelectInv'
  BY <1>0 DEF SelectInv, Scattered
<1>4. DaxpyInv => DaxpyInv'
  BY <1>0 DEF DaxpyInv
<1>5. FvmInv => FvmInv'
  BY <1>0 DEF FvmInv, Spread
<1> QED
  BY <1>1, <1>2, <1>3, <1>4, <1>5

LEMMA KernelsNext == LockInv /\ KernelsInvariant /\ [Next]_vars => KernelsInvariant'
<1> SUFFICES ASSUME LockInv, KernelsInvariant, [Next]_vars PROVE KernelsInvariant'
  OBVIOUS
<1>1. program' = program /\ ItemsInvariant'
  BY LockNext, ItemsNext DEF KernelsInvariant
<1>2. CASE UNCHANGED <<pc, mem>>
  BY <1>1, <1>2, KernelsStutter DEF KernelsInvariant
<1>3. CASE \E t \in Thread : ThreadStep(t)
  <2> PICK t \in Thread : ThreadStep(t)
    BY <1>3
  <2>1. program = "parallel_reduction" => ReductionInv'
    BY KernelsStep, ReductionKept DEF KernelsInvariant
  <2>2. program = "tiled_matmul" => TiledInv'
    BY KernelsStep, TiledKept DEF KernelsInvariant
  <2>3. program = "select" => SelectInv'
    BY KernelsStep, SelectKept DEF KernelsInvariant
  <2>4. program = "daxpy" => DaxpyInv'
    BY KernelsStep, DaxpyKept DEF KernelsInvariant
  <2>5. program = "fvm_solver" => FvmInv'
    BY KernelsStep, FvmKept DEF KernelsInvariant
  <2> QED
    BY <1>1, <2>1, <2>2, <2>3, <2>4, <2>5 DEF KernelsInvariant
<1> QED
  BY <1>2, <1>3 DEF Next, SpuriousWakeup, vars, machineVars

\* What a host reads and checks is the result of all items, for every number of elements and
\* every size of a group that is a power of two up to 256: whichever order the items run in, a
\* reduction loses no product and adds none twice, no item of a tile reads what its neighbours
\* have overwritten, the selection keeps the elements in order, and the buffer that nobody
\* initialises spreads one ring of cells a step.
THEOREM KernelsDeliver == Spec => []KernelsExact
<1>1. KernelsInvariant => KernelsExact
  <2> SUFFICES ASSUME KernelsInvariant PROVE KernelsExact
    OBVIOUS
  <2>1. ItemResults
    BY ItemsDeliver DEF KernelsInvariant
  <2>2. AllEnded /\ program = "parallel_reduction" =>
            mem.printed = IF mem.launched = "yes" THEN "correct" ELSE Silent
    BY ReductionPrints DEF KernelsInvariant
  <2>3. program = "tiled_matmul" =>
            /\ \A t \in Items : Ended(t) =>
                  mem.acc[t] = Terms(mem.block[2] + ty(t), mem.block[1] + tx(t))
            /\ mem.z \in {{}, {mem.acc[t] : t \in {u \in Items : ty(u) = 0}}}
    BY TiledMultiplies DEF KernelsInvariant
  <2>4. AtEnd("select") => Compacted(mem.v, mem.w)
    <3> SUFFICES ASSUME AtEnd("select") PROVE Compacted(mem.v, mem.w)
      OBVIOUS
    <3>1. SelectInv
      BY DEF KernelsInvariant, AtEnd
    <3>2. Ended(1)
      <4>1. 1 \in Thread
        BY <3>1, KernelAssumption DEF SelectInv
      <4> QED
        BY <4>1 DEF AtEnd, AllEnded
    <3> QED
      BY <3>1, <3>2, SelectCompacts
  <2>5. AtEnd("daxpy") => mem.ok /\ \A i \in DOMAIN mem.y : mem.y[i] = 2 + 2 * i * (Rounds + 2)
    <3> SUFFICES ASSUME AtEnd("daxpy")
                 PROVE  mem.ok /\ \A i \in DOMAIN mem.y : mem.y[i] = 2 + 2 * i * (Rounds + 2)
      OBVIOUS
    <3>1. DaxpyInv /\ pc[1] = End
      BY DEF KernelsInvariant, AtEnd, AllEnded, Ended, DaxpyInv
    <3>2. mem.ok /\ mem.y = After(Rounds + 2)
      BY <3>1 DEF DaxpyInv
    <3> QED
      BY <3>2 DEF After
  <2>6. program = "fvm_solver" =>
            {c \in cells : Inner(c) /\ mem.u[c] = Unknown}
               = {c \in cells : Ring(c) \in 1 .. mem.s - 1}
    BY FvmRings DEF KernelsInvariant
  <2> QED
    BY <2>1, <2>2, <2>3, <2>4, <2>5, <2>6 DEF KernelsExact, ItemResults, AtEnd, Silent
<1>2. Spec => []KernelsInvariant
  BY KernelsBoot, KernelsNext, LocksInvariant, PTL DEF Spec
<1> QED
  BY <1>1, <1>2, PTL

==============================================================================
