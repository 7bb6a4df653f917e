-------------------------- MODULE SchedulerPrograms --------------------------
(***************************************************************************)
(* Threads/jthread_1.cpp, the job scheduler, and jthread_2.cpp: threads    *)
(* that are asked to stop and joined by the destructors of their jthreads. *)
(***************************************************************************)
EXTENDS Threads

\* request_stop() of thread u.
RequestStop(t, from, u, to) == Step(t, from, [mem EXCEPT !.stop = @ \cup {u}], to)
stop_requested(t) == t \in mem.stop

-----------------------------------------------------------------------------
\* jthread_1.cpp. Thread 1 is main, 2 the producer, 3 the monitor, 4 and 5 the
\* workers. A job is its number, and the checksum the set of the jobs that have
\* gone into it an odd number of times, as with the exclusive or.
\*
\* The members declared last go first. mem.gone are the members destroyed, and
\* mem.late those that a thread has used after that.

Used(m, members) == [m EXCEPT !.late = @ \cup (members \cap m.gone)]
Xor(A, B) == (A \ B) \cup (B \ A)

\* BlockingQueue::push(): the notification follows the unlock.
push_job(t, value, to) ==
    \/ Guarded(t, 21, "mutex_", [Used(mem, {"queue_"}) EXCEPT !.queue_ = Append(@, value)], 24)
    \/ NotifyOne(t, 24, "cv_", Used(mem, {"queue_"}), to)

\* BlockingQueue::pop(): the wait ends with a job or with the request to stop,
\* and a job is taken even then.
pop_job(t, job, nullopt) ==
    \/ Lock(t, 28, "mutex_", 30)
    \/ WaitUntil(t, 30, "cv_", "mutex_", mem.queue_ # <<>> \/ stop_requested(t), 34)
    \/ At(t, 34) /\ IF stop_requested(t) /\ mem.queue_ = <<>>
                    THEN Unlock(t, 34, {"mutex_"}, Used(mem, {"queue_"}), nullopt)
                    ELSE Unlock(t, 34, {"mutex_"},
                                [Used(mem, {"queue_"}) EXCEPT
                                    !.queue_ = Tail(@), !.job[t] = Head(mem.queue_)], job)

\* The bound Rounds is on the jobs produced.
producerLoop(t) ==
    \/ stop_requested(t) /\ Step(t, 93, mem, End)
    \/ ~stop_requested(t) /\ mem.id < Rounds
         /\ Step(t, 93, [mem EXCEPT !.id = @ + 1], 21)
    \/ push_job(t, mem.id, 93)

workerLoop(t) ==
    \/ pop_job(t, 121, End)
    \/ Lock(t, 121, "resultMutex_", 122)
    \/ Unlock(t, 122, {"resultMutex_"},
              [Used(mem, {"resultMutex_", "completed_", "checksum_"}) EXCEPT
                  !.completed_ = @ + 1, !.checksum_ = Xor(@, {mem.job[t]})], 28)

\* It holds resultMutex_ while size() locks the mutex of the queue.
monitorLoop(t) ==
    \/ Test(t, 135, stop_requested(t), End, 139)
    \/ Lock(t, 139, "resultMutex_", 142)
    \/ Guarded(t, 142, "mutex_", Used(mem, {"queue_"}), 143)
    \/ Unlock(t, 143, {"resultMutex_"},
              Used(mem, {"resultMutex_", "completed_", "checksum_"}), 135)

\* The destructor of a jthread requests the stop and joins; a worker that is
\* asleep in its wait is woken by the request.
joined(t, from, u, to) == Await(t, from, Ended(u), mem, to)
stopped(t, from, u, to) ==
    Wake(t, from, "cv_", {u}, [mem EXCEPT !.stop = @ \cup {u}], to)

\* Mutant: the second worker is detached.
Mut_workers_destroyed(t, to) ==
    \/ stopped(t, 151, 4, 1151) \/ joined(t, 1151, 4, 2151)
    \/ stopped(t, 2151, 5, to)

workers_destroyed(t, to) ==
    \/ stopped(t, 151, 4, 1151) \/ joined(t, 1151, 4, 2151)
    \/ stopped(t, 2151, 5, 3151) \/ joined(t, 3151, 5, to)

\* main() after its sleep: the members go from the last to the first.
scheduler_main(t) ==
    \/ Step(t, 158, [mem EXCEPT !.gone = {"completed_", "checksum_", "resultMutex_"}], 153)
    \/ RequestStop(t, 153, 3, 1153) \/ joined(t, 1153, 3, 152)
    \/ RequestStop(t, 152, 2, 1152) \/ joined(t, 1152, 2, 151)
    \/ workers_destroyed(t, 149)
    \/ Step(t, 149, [mem EXCEPT !.gone = @ \cup {"queue_"}], End)

Scheduler ==
    Main(<<158, 93, 135, 28, 28>>, {"mutex_", "resultMutex_"}, {"cv_"},
         [queue_ |-> <<>>, job |-> <<0, 0, 0, 0, 0>>, id |-> 0, completed_ |-> 0,
          checksum_ |-> {}, stop |-> {}, gone |-> {}, late |-> {}])

-----------------------------------------------------------------------------
\* jthread_2.cpp: of the two threads only the first looks at its token.

assigned_job(t) ==
    \/ Test(t, 10, mem.counter[t] < Rounds, 11, End)
    \/ Test(t, 11, stop_requested(t), End, 14)
    \/ Step(t, 14, [mem EXCEPT !.counter[t] = @ + 1], 10)

alternate_job(t) ==
    \/ Test(t, 21, mem.counter[t] < Rounds, 24, End)
    \/ Step(t, 24, [mem EXCEPT !.counter[t] = @ + 1], 21)

\* main() is thread 3; thread2 is destroyed, and so joined, before thread1.
jthread_main(t) ==
    \/ RequestStop(t, 34, 1, 35)
    \/ RequestStop(t, 35, 2, 137)
    \/ Await(t, 137, Ended(2), mem, 138)
    \/ Await(t, 138, Ended(1), mem, End)

JThreads ==
    Main(<<10, 21, 34>>, {}, {}, [counter |-> <<0, 0, 0>>, stop |-> {}])

-----------------------------------------------------------------------------
SchedulerStep(t) ==
    \/ program = "jthread_1"
         /\ (producerLoop(t) \/ workerLoop(t) \/ monitorLoop(t) \/ scheduler_main(t))
    \/ program = "jthread_2"
         /\ (assigned_job(t) \/ alternate_job(t) \/ jthread_main(t))

SchedulerMains == [jthread_1 |-> Scheduler, jthread_2 |-> JThreads]

=============================================================================
