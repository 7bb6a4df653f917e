--------------------------- MODULE SingleQueuePool ---------------------------
(***************************************************************************)
(* ThreadPool of single_queue_thread_pool.h and thread_pool.cpp: workers   *)
(* that pop tasks from one unbounded concurrent_queue.                     *)
(*                                                                         *)
(* The main thread submits tasks and then destroys the pool. A running     *)
(* task may submit others, so submit() can overlap the destructor.         *)
(***************************************************************************)
EXTENDS ConcurrentQueue

CONSTANTS
    Workers,    \* the threads of `threads`
    Main,       \* the thread that owns the pool
    Tasks,      \* the functions submitted
    Dummy,      \* the empty function the destructor pushes
    work_queue

ASSUME PoolAssumption ==
    /\ Threads = Workers \cup {Main}
    /\ Main \notin Workers
    /\ Queues = {work_queue}
    /\ Items = Tasks \cup {Dummy}
    /\ Dummy \notin Tasks

VARIABLES
    pc,         \* where each thread is in the pool's code
    task,       \* the local variable `task` of a worker
    func,       \* the argument of a thread's submit() in progress
    stopping,   \* the member `stopping`
    todo,       \* the dummies the destructor has still to push
    unsent,     \* the tasks not submitted yet
    refused,    \* the tasks whose submit() returned without pushing
    starts,     \* [Tasks -> Nat]: the calls of each task's function
    done        \* the tasks that have returned

poolVars == <<pc, task, func, stopping, todo, unsent, refused, starts, done>>
vars == <<queueVars, poolVars>>

WorkerPC == {"pop", "check", "run", "submit", "push", "exit"}
MainPC == {"idle", "submit", "push", "dtor", "join", "gone"}

TypeOK ==
    /\ QueueTypeOK
    /\ pc \in [Threads -> WorkerPC \cup MainPC]
    /\ \A w \in Workers : pc[w] \in WorkerPC
    /\ pc[Main] \in MainPC
    /\ task \in [Workers -> Items \cup {NoItem}]
    /\ func \in [Threads -> Tasks \cup {NoItem}]
    /\ stopping \in BOOLEAN
    /\ todo \in Nat
    /\ unsent \subseteq Tasks
    /\ refused \subseteq Tasks
    /\ starts \in [Tasks -> Nat]
    /\ done \subseteq Tasks

\* The constructor has started the threads.
Init ==
    /\ QueueInit([k \in Queues |-> 0])
    /\ pc = [t \in Threads |-> IF t = Main THEN "idle" ELSE "pop"]
    /\ task = [w \in Workers |-> NoItem]
    /\ func = [t \in Threads |-> NoItem]
    /\ stopping = FALSE
    /\ todo = 0
    /\ unsent = Tasks
    /\ refused = {}
    /\ starts = [x \in Tasks |-> 0]
    /\ done = {}

Goto(t, label) == pc' = [pc EXCEPT ![t] = label]

\* Where a thread goes on when its submit() returns.
AfterSubmit(t) == IF t = Main THEN "idle" ELSE "run"

-----------------------------------------------------------------------------
\* worker()

\* work_queue.pop(task) returns with the task in front.
WorkerPops(w) ==
    /\ pc[w] = "pop"
    /\ PopTake(w, work_queue)
    /\ task' = [task EXCEPT ![w] = Head(q[work_queue])]
    /\ Goto(w, "check")
    /\ UNCHANGED <<func, stopping, todo, unsent, refused, starts, done>>

WorkerBlocks(w) ==
    /\ pc[w] = "pop"
    /\ PopBlock(w, work_queue)
    /\ UNCHANGED poolVars

\* if(stopping) break: the task in hand is destroyed unrun.
WorkerLeaves(w) ==
    /\ pc[w] = "check"
    /\ stopping
    /\ task' = [task EXCEPT ![w] = NoItem]
    /\ Goto(w, "exit")
    /\ UNCHANGED <<queueVars, func, stopping, todo, unsent, refused, starts, done>>

\* The call of task(). It is never the dummy: `stopping` is set before those.
WorkerCalls(w) ==
    /\ pc[w] = "check"
    /\ ~stopping
    /\ Goto(w, "run")
    /\ starts' = [starts EXCEPT ![task[w]] = @ + 1]
    /\ UNCHANGED <<queueVars, task, func, stopping, todo, unsent, refused, done>>

\* A worker() without its loop.
Mut_WorkerRunsOnce(w) ==
    /\ pc[w] = "run"
    /\ Free(w)
    /\ done' = done \cup ({task[w]} \cap Tasks)
    /\ task' = [task EXCEPT ![w] = NoItem]
    /\ Goto(w, "exit")
    /\ UNCHANGED <<queueVars, func, stopping, todo, unsent, refused, starts>>

\* task() returns, and the next turn of the loop begins.
WorkerFinishes(w) ==
    /\ pc[w] = "run"
    /\ Free(w)
    /\ done' = done \cup ({task[w]} \cap Tasks)
    /\ task' = [task EXCEPT ![w] = NoItem]
    /\ Goto(w, "pop")
    /\ UNCHANGED <<queueVars, func, stopping, todo, unsent, refused, starts>>

worker(w) ==
    \/ WorkerPops(w) \/ WorkerBlocks(w) \/ WorkerLeaves(w)
    \/ WorkerCalls(w) \/ WorkerFinishes(w)

-----------------------------------------------------------------------------
\* submit()

\* A thread calls submit(x): main between two statements, a worker in a task.
SubmitCalled(t, x) ==
    /\ Free(t)
    /\ pc[t] = AfterSubmit(t)
    /\ x \in unsent
    /\ unsent' = unsent \ {x}
    /\ func' = [func EXCEPT ![t] = x]
    /\ Goto(t, "submit")
    /\ UNCHANGED <<queueVars, task, stopping, todo, refused, starts, done>>

\* submit() that refuses a task though the pool is running.
Mut_SubmitRefusesAlways(t) ==
    /\ pc[t] = "submit"
    /\ refused' = refused \cup {func[t]}
    /\ func' = [func EXCEPT ![t] = NoItem]
    /\ Goto(t, AfterSubmit(t))
    /\ UNCHANGED <<queueVars, task, stopping, todo, unsent, starts, done>>

\* if(stopping) return
SubmitRefuses(t) ==
    /\ pc[t] = "submit"
    /\ stopping
    /\ refused' = refused \cup {func[t]}
    /\ func' = [func EXCEPT ![t] = NoItem]
    /\ Goto(t, AfterSubmit(t))
    /\ UNCHANGED <<queueVars, task, stopping, todo, unsent, starts, done>>

SubmitGoesOn(t) ==
    /\ pc[t] = "submit"
    /\ ~stopping
    /\ Goto(t, "push")
    /\ UNCHANGED <<queueVars, task, func, stopping, todo, unsent, refused, starts, done>>

\* work_queue.push(std::move(func)), however much later than the check.
SubmitPushes(t) ==
    /\ pc[t] = "push"
    /\ PushEnqueue(t, work_queue, func[t])
    /\ func' = [func EXCEPT ![t] = NoItem]
    /\ Goto(t, AfterSubmit(t))
    /\ UNCHANGED <<task, stopping, todo, unsent, refused, starts, done>>

submit(t) == SubmitRefuses(t) \/ SubmitGoesOn(t) \/ SubmitPushes(t)

\* push() of any thread: its notify_one().
Notifies(t) ==
    /\ NotifyOne(t, work_queue)
    /\ UNCHANGED poolVars

-----------------------------------------------------------------------------
\* ~ThreadPool()

\* A destructor that pushes one dummy too few.
Mut_DtorOneDummyShort ==
    /\ pc[Main] = "idle"
    /\ Free(Main)
    /\ stopping' = TRUE
    /\ todo' = Cardinality(Workers) - 1
    /\ Goto(Main, "dtor")
    /\ UNCHANGED <<queueVars, task, func, unsent, refused, starts, done>>

DtorStops ==
    /\ pc[Main] = "idle"
    /\ Free(Main)
    /\ stopping' = TRUE
    /\ todo' = Cardinality(Workers)
    /\ Goto(Main, "dtor")
    /\ UNCHANGED <<queueVars, task, func, unsent, refused, starts, done>>

\* for(int i = 0; i <= thread_count; i++)
Mut_DtorPushesOneMore ==
    /\ pc[Main] = "dtor"
    /\ PushEnqueue(Main, work_queue, Dummy)
    /\ todo' = todo - 1
    /\ UNCHANGED <<pc, task, func, stopping, unsent, refused, starts, done>>

DtorPushes ==
    /\ pc[Main] = "dtor"
    /\ todo > 0
    /\ PushEnqueue(Main, work_queue, Dummy)
    /\ todo' = todo - 1
    /\ UNCHANGED <<pc, task, func, stopping, unsent, refused, starts, done>>

DtorJoins ==
    /\ pc[Main] = "dtor"
    /\ todo = 0
    /\ Free(Main)
    /\ Goto(Main, "join")
    /\ UNCHANGED <<queueVars, task, func, stopping, todo, unsent, refused, starts, done>>

\* All the join() calls have returned, and the members are destroyed.
DtorReturns ==
    /\ pc[Main] = "join"
    /\ \A w \in Workers : pc[w] = "exit"
    /\ Goto(Main, "gone")
    /\ UNCHANGED <<queueVars, task, func, stopping, todo, unsent, refused, starts, done>>

destructor == DtorPushes \/ DtorJoins \/ DtorReturns

-----------------------------------------------------------------------------

WakesSpuriously(t) ==
    /\ SpuriousWake(t, work_queue)
    /\ UNCHANGED poolVars

\* The pool is gone: the program goes on without it.
Terminated ==
    /\ pc[Main] = "gone"
    /\ UNCHANGED vars

Next ==
    \/ \E w \in Workers : worker(w)
    \/ \E t \in Threads : submit(t) \/ Notifies(t) \/ WakesSpuriously(t)
    \/ \E t \in Threads, x \in Tasks : SubmitCalled(t, x)
    \/ DtorStops
    \/ destructor
    \/ Terminated

\* Threads that can run do, and a task returns once it has made its calls.
\* Nothing obliges main to submit anything or to destroy the pool.
Spec ==
    /\ Init /\ [][Next]_vars
    /\ \A w \in Workers : WF_vars(worker(w))
    /\ \A t \in Threads : WF_vars(submit(t) \/ Notifies(t))
    /\ WF_vars(destructor)

-----------------------------------------------------------------------------

\* The workers that will call pop() (again) before they can leave.
StillToPop == {w \in Workers : pc[w] \in {"pop", "run", "submit", "push"}}

\* One dummy a worker is enough, whoever takes them: once the destructor has
\* begun, the queue and the dummies still to come cover every worker that
\* will pop again. So no worker sleeps on an empty queue while it is joined,
\* though workers take tasks submitted late as well as each other's dummies.
ShutdownCovered ==
    stopping => Cardinality(StillToPop) <= Len(q[work_queue]) + todo

\* How control and data belong together: the queue is unbounded, `stopping` is
\* the destructor's flag, a submit() in progress has its task, and who sleeps
\* is a worker in pop().
ControlConsistent ==
    /\ cap[work_queue] = 0
    /\ stopping <=> pc[Main] \in {"dtor", "join", "gone"}
    /\ pc[Main] # "dtor" => todo = 0
    /\ \A t \in Threads : pc[t] \in {"submit", "push"} => func[t] \in Tasks
    /\ \A w \in Workers : pc[w] = "check" => task[w] \in Items
    /\ \A t \in waiting[work_queue] \cup resuming[work_queue] :
         t \in Workers /\ pc[t] = "pop"

\* So no join() waits for a sleeper that nobody will wake: while a worker
\* sleeps after the last dummy has been pushed, another has been woken or a
\* notification is under way.
NobodyLeftAsleep ==
    stopping /\ todo = 0 /\ waiting[work_queue] # {} =>
        resuming[work_queue] # {} \/ notifying[work_queue] # {}

\* The destructor returns: every join() finds its worker on the way out.
ShutdownCompletes == stopping ~> pc[Main] = "gone"

-----------------------------------------------------------------------------
\* The pool implements TaskPool.

Queued(x) == \E i \in DOMAIN q[work_queue] : q[work_queue][i] = x

InHand(x) == \E w \in Workers : task[w] = x /\ pc[w] = "check"

Running(x) ==
    \E w \in Workers : task[w] = x /\ pc[w] \in {"run", "submit", "push"}

Status ==
    [x \in Tasks |->
        CASE x \in unsent \/ \E t \in Threads : func[t] = x -> "new"
          [] x \in refused -> "refused"
          [] x \in done -> "done"
          [] Running(x) -> "running"
          [] Queued(x) \/ InHand(x) -> "queued"
          [] OTHER -> "dropped"]

Pool == INSTANCE TaskPool WITH status <- Status

\* Tasks are started once, and lost or refused only by a stopping pool.
ImplementsTaskPool == Pool!PoolSpec

\* A task that was accepted is run, unless the pool is stopped before.
AcceptedTasksRun ==
    \A x \in Tasks : Status[x] = "queued" ~> (Status[x] = "done" \/ stopping)
=============================================================================
