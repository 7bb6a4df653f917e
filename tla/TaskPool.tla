------------------------------- MODULE TaskPool -------------------------------
(***************************************************************************)
(* What both thread pools promise of the tasks given to them: an accepted  *)
(* task is started at most once, by one worker; a task is refused or       *)
(* thrown away only once the pool is stopping.                             *)
(***************************************************************************)
EXTENDS Naturals

CONSTANTS Tasks

VARIABLES
    status,     \* what has become of each task
    starts,     \* how often its function has been called
    stopping    \* the destructor has begun

poolVars == <<status, starts, stopping>>

PoolInit ==
    /\ status = [x \in Tasks |-> "new"]
    /\ starts = [x \in Tasks |-> 0]
    /\ stopping = FALSE

Become(x, s) == status' = [status EXCEPT ![x] = s]

\* submit() queues the task. It may have seen `stopping` false just before.
Accept(x) ==
    /\ status[x] = "new"
    /\ Become(x, "queued")
    /\ UNCHANGED <<starts, stopping>>

\* submit() of a stopping pool returns without a word.
Refuse(x) ==
    /\ stopping
    /\ status[x] = "new"
    /\ Become(x, "refused")
    /\ UNCHANGED <<starts, stopping>>

Start(x) ==
    /\ status[x] = "queued"
    /\ Become(x, "running")
    /\ starts' = [starts EXCEPT ![x] = @ + 1]
    /\ UNCHANGED stopping

Finish(x) ==
    /\ status[x] = "running"
    /\ Become(x, "done")
    /\ UNCHANGED <<starts, stopping>>

\* A worker that is about to leave throws away the task it has just taken.
Discard(x) ==
    /\ stopping
    /\ status[x] = "queued"
    /\ Become(x, "dropped")
    /\ UNCHANGED <<starts, stopping>>

Stop ==
    /\ ~stopping
    /\ stopping' = TRUE
    /\ UNCHANGED <<status, starts>>

PoolNext ==
    \/ Stop
    \/ \E x \in Tasks :
         Accept(x) \/ Refuse(x) \/ Start(x) \/ Finish(x) \/ Discard(x)

PoolSpec == PoolInit /\ [][PoolNext]_poolVars

-----------------------------------------------------------------------------

\* No task runs twice. A consequence of the above, and so of either pool.
StartedAtMostOnce == \A x \in Tasks : starts[x] <= 1
=============================================================================
