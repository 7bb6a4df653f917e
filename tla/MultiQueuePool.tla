--------------------------- MODULE MultiQueuePool ---------------------------
(***************************************************************************)
(* ThreadPool of multi_queue_thread_pool.h and .cpp: each worker has an    *)
(* unbounded concurrent_queue of its own and, when that is empty, tries to *)
(* take a task from the others before it sleeps on its own.                *)
(*                                                                         *)
(* The main thread submits tasks and then destroys the pool; a running     *)
(* task may submit others. The task of main.cpp:71-77 that spins until all *)
(* the others have completed is a member of Awaiting; main submits it last.*)
(***************************************************************************)
EXTENDS ConcurrentQueue

CONSTANTS
    thread_count,
    Main,       \* the thread that owns the pool
    Tasks,      \* the functions submitted
    Awaiting,   \* those that return only when all the others have
    Dummy       \* the empty function the destructor pushes

Workers == 0..(thread_count - 1)

ASSUME PoolAssumption ==
    /\ thread_count \in Nat \ {0}
    /\ Main \notin Workers
    /\ Threads = Workers \cup {Main}
    /\ Queues = Workers
    /\ Items = Tasks \cup {Dummy}
    /\ Dummy \notin Tasks
    /\ Awaiting \subseteq Tasks

VARIABLES
    pc,         \* where each thread is in the pool's code
    task,       \* the local variable `task` of a worker
    victims,    \* the queues a stealing worker has still to try, in order
    func,       \* the argument of a thread's submit() in progress
    idx,        \* the queue its submit() has chosen
    next,       \* the static counter of submit(), modulo thread_count
    stopping,   \* the member `stopping`
    todo,       \* the queue the destructor pushes the next dummy to
    unsent,     \* the tasks not submitted yet
    refused,    \* the tasks whose submit() returned without pushing
    starts,     \* [Tasks -> Nat]: the calls of each task's function
    done,       \* the tasks that have returned
    robbed      \* the workers whose dummy another one has taken

poolVars == <<pc, task, victims, func, idx, next, stopping, todo, unsent,
              refused, starts, done, robbed>>
vars == <<queueVars, poolVars>>

WorkerPC == {"loop", "own", "steal", "block", "check", "run", "submit", "push", "exit"}
MainPC == {"idle", "submit", "push", "dtor", "join", "gone"}

TypeOK ==
    /\ QueueTypeOK
    /\ pc \in [Threads -> WorkerPC \cup MainPC]
    /\ \A w \in Workers : pc[w] \in WorkerPC
    /\ pc[Main] \in MainPC
    /\ task \in [Workers -> Items \cup {NoItem}]
    /\ victims \in [Workers -> Seq(Workers)]
    /\ func \in [Threads -> Tasks \cup {NoItem}]
    /\ idx \in [Threads -> Workers]
    /\ next \in Workers
    /\ stopping \in BOOLEAN
    /\ todo \in 0..thread_count
    /\ unsent \subseteq Tasks
    /\ refused \subseteq Tasks
    /\ starts \in [Tasks -> Nat]
    /\ done \subseteq Tasks
    /\ robbed \subseteq Workers

\* The constructor has started the threads.
Init ==
    /\ QueueInit([k \in Queues |-> 0])
    /\ pc = [t \in Threads |-> IF t = Main THEN "idle" ELSE "loop"]
    /\ task = [w \in Workers |-> NoItem]
    /\ victims = [w \in Workers |-> <<>>]
    /\ func = [t \in Threads |-> NoItem]
    /\ idx = [t \in Threads |-> 0]
    /\ next = 0
    /\ stopping = FALSE
    /\ todo = 0
    /\ unsent = Tasks
    /\ refused = {}
    /\ starts = [x \in Tasks |-> 0]
    /\ done = {}
    /\ robbed = {}

Goto(t, label) == pc' = [pc EXCEPT ![t] = label]

\* Where a thread goes on when its submit() returns.
AfterSubmit(t) == IF t = Main THEN "idle" ELSE "run"

-----------------------------------------------------------------------------
\* worker()

\* The call of x; a stolen dummy is called like a task.
Calls(w, x) ==
    /\ task' = [task EXCEPT ![w] = x]
    /\ starts' = [y \in Tasks |-> IF y = x THEN starts[y] + 1 ELSE starts[y]]
    /\ Goto(w, "run")

\* while (true)
Mut_WorkerLoopsForever(w) ==
    /\ pc[w] = "loop"
    /\ Goto(w, "own")
    /\ UNCHANGED <<queueVars, task, victims, func, idx, next, stopping, todo, unsent,
                   refused, starts, done, robbed>>

\* while (!stopping)
WorkerLoops(w) ==
    /\ pc[w] = "loop"
    /\ Goto(w, IF stopping THEN "exit" ELSE "own")
    /\ UNCHANGED <<queueVars, task, victims, func, idx, next, stopping, todo, unsent,
                   refused, starts, done, robbed>>

\* 1. The worker's own queue.
WorkerTakesOwn(w) ==
    /\ pc[w] = "own"
    /\ TryPop(w, w)
    /\ Calls(w, Head(q[w]))
    /\ UNCHANGED <<victims, func, idx, next, stopping, todo, unsent, refused, done,
                   robbed>>

\* The other queues in the order start, start + 1, ... modulo thread_count; w
\* itself is the one that comes after (w - start) % thread_count others.
VictimsFrom(w, start) ==
    [i \in 1..thread_count - 1 |->
        (start + (IF i <= (w - start) % thread_count THEN i - 1 ELSE i)) % thread_count]

WorkerFindsOwnEmpty(w) ==
    /\ pc[w] = "own"
    /\ TryPopFails(w, w)
    /\ \E start \in Workers : victims' = [victims EXCEPT ![w] = VictimsFrom(w, start)]
    /\ Goto(w, "steal")
    /\ UNCHANGED <<task, func, idx, next, stopping, todo, unsent, refused, starts, done,
                   robbed>>

\* A worker that runs what it sees in a victim's queue without taking it out.
Mut_WorkerPeeks(w) ==
    /\ pc[w] = "steal"
    /\ victims[w] # <<>>
    /\ q[Head(victims[w])] # <<>>
    /\ Calls(w, Head(q[Head(victims[w])]))
    /\ victims' = [victims EXCEPT ![w] = <<>>]
    /\ UNCHANGED <<queueVars, func, idx, next, stopping, todo, unsent, refused, done, robbed>>

\* 2. The next victim has something.
WorkerSteals(w) ==
    /\ pc[w] = "steal"
    /\ victims[w] # <<>>
    /\ LET v == Head(victims[w]) IN
         /\ TryPop(w, v)
         /\ Calls(w, Head(q[v]))
         /\ robbed' = IF Head(q[v]) = Dummy THEN robbed \cup {v} ELSE robbed
    /\ victims' = [victims EXCEPT ![w] = <<>>]
    /\ UNCHANGED <<func, idx, next, stopping, todo, unsent, refused, done>>

WorkerFindsVictimEmpty(w) ==
    /\ pc[w] = "steal"
    /\ victims[w] # <<>>
    /\ TryPopFails(w, Head(victims[w]))
    /\ victims' = [victims EXCEPT ![w] = Tail(@)]
    /\ UNCHANGED <<pc, task, func, idx, next, stopping, todo, unsent, refused, starts,
                   done, robbed>>

WorkerGivesUp(w) ==
    /\ pc[w] = "steal"
    /\ victims[w] = <<>>
    /\ Goto(w, "block")
    /\ UNCHANGED <<queueVars, task, victims, func, idx, next, stopping, todo, unsent,
                   refused, starts, done, robbed>>

\* 3. my_queue.local_queue.pop(task)
WorkerBlocks(w) ==
    /\ pc[w] = "block"
    /\ PopBlock(w, w)
    /\ UNCHANGED poolVars

WorkerPops(w) ==
    /\ pc[w] = "block"
    /\ PopTake(w, w)
    /\ task' = [task EXCEPT ![w] = Head(q[w])]
    /\ Goto(w, "check")
    /\ UNCHANGED <<victims, func, idx, next, stopping, todo, unsent, refused, starts, done,
                   robbed>>

\* if (stopping) break: the task in hand is destroyed unrun.
WorkerLeaves(w) ==
    /\ pc[w] = "check"
    /\ stopping
    /\ task' = [task EXCEPT ![w] = NoItem]
    /\ Goto(w, "exit")
    /\ UNCHANGED <<queueVars, victims, func, idx, next, stopping, todo, unsent, refused,
                   starts, done, robbed>>

WorkerCalls(w) ==
    /\ pc[w] = "check"
    /\ ~stopping
    /\ Calls(w, task[w])
    /\ UNCHANGED <<queueVars, victims, func, idx, next, stopping, todo, unsent, refused,
                   done, robbed>>

\* task() returns, and the loop's condition is evaluated next.
WorkerFinishes(w) ==
    /\ pc[w] = "run"
    /\ Free(w)
    /\ task[w] \in Awaiting => Tasks \ Awaiting \subseteq done
    /\ done' = done \cup ({task[w]} \cap Tasks)
    /\ task' = [task EXCEPT ![w] = NoItem]
    /\ Goto(w, "loop")
    /\ UNCHANGED <<queueVars, victims, func, idx, next, stopping, todo, unsent, refused,
                   starts, robbed>>

worker(w) ==
    \/ WorkerLoops(w) \/ WorkerTakesOwn(w) \/ WorkerFindsOwnEmpty(w)
    \/ WorkerSteals(w) \/ WorkerFindsVictimEmpty(w) \/ WorkerGivesUp(w)
    \/ WorkerBlocks(w) \/ WorkerPops(w) \/ WorkerLeaves(w) \/ WorkerCalls(w)
    \/ WorkerFinishes(w)

-----------------------------------------------------------------------------
\* submit()

\* A thread calls submit(x): main between two statements, a worker in a task
\* (the dummy submits nothing).
SubmitCalled(t, x) ==
    /\ Free(t)
    /\ pc[t] = AfterSubmit(t)
    /\ t # Main => task[t] \in Tasks
    /\ x \in unsent
    /\ x \in Awaiting => t = Main /\ unsent \subseteq Awaiting
    /\ unsent' = unsent \ {x}
    /\ func' = [func EXCEPT ![t] = x]
    /\ Goto(t, "submit")
    /\ UNCHANGED <<queueVars, task, victims, idx, next, stopping, todo, refused, starts,
                   done, robbed>>

\* if (stopping) return
SubmitRefuses(t) ==
    /\ pc[t] = "submit"
    /\ stopping
    /\ refused' = refused \cup {func[t]}
    /\ func' = [func EXCEPT ![t] = NoItem]
    /\ Goto(t, AfterSubmit(t))
    /\ UNCHANGED <<queueVars, task, victims, idx, next, stopping, todo, unsent, starts,
                   done, robbed>>

\* A choice without the modulo.
Mut_SubmitNoModulo(t) ==
    /\ pc[t] = "submit"
    /\ ~stopping
    /\ idx' = [idx EXCEPT ![t] = next]
    /\ next' = next + 1
    /\ Goto(t, "push")
    /\ UNCHANGED <<queueVars, task, victims, func, stopping, todo, unsent, refused, starts,
                   done, robbed>>

\* The fetch_add that chooses a queue.
SubmitChooses(t) ==
    /\ pc[t] = "submit"
    /\ ~stopping
    /\ idx' = [idx EXCEPT ![t] = next]
    /\ next' = (next + 1) % thread_count
    /\ Goto(t, "push")
    /\ UNCHANGED <<queueVars, task, victims, func, stopping, todo, unsent, refused, starts,
                   done, robbed>>

SubmitPushes(t) ==
    /\ pc[t] = "push"
    /\ PushEnqueue(t, idx[t], func[t])
    /\ func' = [func EXCEPT ![t] = NoItem]
    /\ idx' = [idx EXCEPT ![t] = 0]
    /\ Goto(t, AfterSubmit(t))
    /\ UNCHANGED <<task, victims, next, stopping, todo, unsent, refused, starts, done,
                   robbed>>

submit(t) == SubmitRefuses(t) \/ SubmitChooses(t) \/ SubmitPushes(t)

\* push() of any thread: its notify_one().
Notifies(t) ==
    /\ \E k \in Queues : NotifyOne(t, k)
    /\ UNCHANGED poolVars

-----------------------------------------------------------------------------
\* ~ThreadPool()

DtorStops ==
    /\ pc[Main] = "idle"
    /\ Free(Main)
    /\ stopping' = TRUE
    /\ Goto(Main, "dtor")
    /\ UNCHANGED <<queueVars, task, victims, func, idx, next, todo, unsent, refused, starts,
                   done, robbed>>

\* A destructor that pushes every dummy to the first queue.
Mut_DtorPushesToFirst ==
    /\ pc[Main] = "dtor"
    /\ todo < thread_count
    /\ PushEnqueue(Main, 0, Dummy)
    /\ todo' = todo + 1
    /\ UNCHANGED <<pc, task, victims, func, idx, next, stopping, unsent, refused, starts,
                   done, robbed>>

\* One dummy for each local queue, in order.
DtorPushes ==
    /\ pc[Main] = "dtor"
    /\ todo < thread_count
    /\ PushEnqueue(Main, todo, Dummy)
    /\ todo' = todo + 1
    /\ UNCHANGED <<pc, task, victims, func, idx, next, stopping, unsent, refused, starts,
                   done, robbed>>

DtorJoins ==
    /\ pc[Main] = "dtor"
    /\ todo = thread_count
    /\ Free(Main)
    /\ Goto(Main, "join")
    /\ UNCHANGED <<queueVars, task, victims, func, idx, next, stopping, todo, unsent,
                   refused, starts, done, robbed>>

\* All the join() calls have returned.
DtorReturns ==
    /\ pc[Main] = "join"
    /\ \A w \in Workers : pc[w] = "exit"
    /\ Goto(Main, "gone")
    /\ UNCHANGED <<queueVars, task, victims, func, idx, next, stopping, todo, unsent,
                   refused, starts, done, robbed>>

destructor == DtorPushes \/ DtorJoins \/ DtorReturns

-----------------------------------------------------------------------------

WakesSpuriously(t) ==
    /\ \E k \in Queues : SpuriousWake(t, k)
    /\ UNCHANGED poolVars

Next ==
    \/ \E w \in Workers : worker(w)
    \/ \E t \in Threads : submit(t) \/ Notifies(t) \/ WakesSpuriously(t)
    \/ \E t \in Threads, x \in Tasks : SubmitCalled(t, x)
    \/ DtorStops
    \/ destructor

\* Threads that can run do, and a task returns once it has made its calls
\* (one of Awaiting, once the others are done). Nothing obliges main to
\* submit anything or to destroy the pool.
Spec ==
    /\ Init /\ [][Next]_vars
    /\ \A w \in Workers : WF_vars(worker(w))
    /\ \A t \in Threads : WF_vars(submit(t) \/ Notifies(t))
    /\ WF_vars(destructor)

-----------------------------------------------------------------------------

HasDummy(w) == \E i \in DOMAIN q[w] : q[w][i] = Dummy

\* The dummy of a worker that is in pop(), or about to enter it, has not been
\* pushed yet, is still in its queue, or has been taken by a thief: while a
\* pool is destroyed, stealing is the one way to leave a worker asleep.
MissedOnlyIfRobbed ==
    \A w \in Workers :
        pc[w] \in {"own", "steal", "block"} =>
            w >= todo \/ HasDummy(w) \/ w \in robbed

\* The destructor returns, unless a worker is robbed of its dummy.
ShutdownUnlessRobbed == stopping ~> (pc[Main] = "gone" \/ robbed # {})

\* The comment of multi_queue_thread_pool.cpp:26, "Wake up all workers by
\* pushing a dummy task to each local queue", and the "Thread pool shut down
\* cleanly" of line 38: the destructor returns.
ShutdownCompletes == stopping ~> pc[Main] = "gone"

-----------------------------------------------------------------------------
\* The pool implements TaskPool.

Queued(x) == \E k \in Queues : \E i \in DOMAIN q[k] : q[k][i] = x

InHand(x) == \E w \in Workers : task[w] = x /\ pc[w] = "check"

Running(x) ==
    \E w \in Workers : task[w] = x /\ pc[w] \in {"run", "submit", "push"}

Status ==
    [x \in Tasks |->
        CASE x \in unsent \/ \E t \in Threads : func[t] = x -> "new"
          [] x \in refused -> "refused"
          [] x \in done -> "done"
          [] Running(x) -> "running"
          [] Queued(x) \/ InHand(x) -> "queued"
          [] OTHER -> "dropped"]

Pool == INSTANCE TaskPool WITH status <- Status

\* Tasks are started once, and lost or refused only by a stopping pool, with
\* thieves and owners taking from the same queues.
ImplementsTaskPool == Pool!PoolSpec

\* A task that was accepted is run by somebody, unless the pool is stopped.
AcceptedTasksRun ==
    \A x \in Tasks : Status[x] = "queued" ~> (Status[x] = "done" \/ stopping)

\* "Idle workers steal tasks from other workers' queues", the comment of
\* multi_queue_thread_pool.h:16: a task does not stay in a queue for ever
\* beside a worker that has nothing to do.
IdleWorkersSteal ==
    \A x \in Tasks :
        Queued(x) /\ (\E w \in Workers : w \in waiting[w])
            ~> (~Queued(x) \/ stopping)
=============================================================================
