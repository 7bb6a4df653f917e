--------------------------- MODULE ConcurrentQueue ---------------------------
(***************************************************************************)
(* concurrent_queue<T> (Data Structures/concurrent_queue.h): a queue       *)
(* guarded by one mutex, with ONE condition variable, cond_not_empty, on   *)
(* which both a pop of an empty queue and a push to a full one sleep.      *)
(*                                                                         *)
(* q, closed and the predicate of the wait are only touched under `mut`,   *)
(* so what a call does between taking the mutex and releasing it (by       *)
(* returning, by unlock() or by going to sleep in wait()) is one step.     *)
(* push() notifies after it has unlocked: that is a step of its own.       *)
(*                                                                         *)
(* The module has no behaviour of its own: the clients (QueueClients and   *)
(* the two thread pools) conjoin these steps with what they do themselves. *)
(* It describes a family of queues, since MultiQueuePool has one a worker. *)
(***************************************************************************)
EXTENDS Naturals, Sequences, FiniteSets

CONSTANTS
    Threads,    \* the threads that call the queues
    Queues,     \* the concurrent_queue objects
    Items,      \* the values that are pushed
    NoItem      \* not a value

ASSUME ThreadsAssumption == IsFiniteSet(Threads)
ASSUME NoItemAssumption == NoItem \notin Items

VARIABLES
    cap,        \* [Queues -> Nat]: the member `capacity`; 0 is "unbounded"
    q,          \* [Queues -> Seq(Items)]: the member `q`
    closed,     \* [Queues -> BOOLEAN]: the member `closed`
    waiting,    \* the threads asleep in cond_not_empty.wait()
    resuming,   \* the threads woken from it that have not retaken `mut` yet
    notifying,  \* the threads in push() between unlock() and notify_one()
    parked      \* the argument of a push() that is asleep or resuming

queueVars == <<cap, q, closed, waiting, resuming, notifying, parked>>

QueueTypeOK ==
    /\ cap \in [Queues -> Nat]
    /\ q \in [Queues -> Seq(Items)]
    /\ closed \in [Queues -> BOOLEAN]
    /\ waiting \in [Queues -> SUBSET Threads]
    /\ resuming \in [Queues -> SUBSET Threads]
    /\ notifying \in [Queues -> SUBSET Threads]
    /\ parked \in [Threads -> Items \cup {NoItem}]

\* The constructor: `capacity(cap)`, an empty queue, closed{false}.
QueueInit(c) ==
    /\ cap = c
    /\ q = [k \in Queues |-> <<>>]
    /\ closed = [k \in Queues |-> FALSE]
    /\ waiting = [k \in Queues |-> {}]
    /\ resuming = [k \in Queues |-> {}]
    /\ notifying = [k \in Queues |-> {}]
    /\ parked = [t \in Threads |-> NoItem]

-----------------------------------------------------------------------------
\* Where a thread stands.

\* The threads that are in a call of k and not running in its mutex.
Busy(k) == waiting[k] \cup resuming[k] \cup notifying[k]

\* t is in no call of any queue, so it may begin one.
Free(t) == \A k \in Queues : t \notin Busy(k)

\* t runs in pop() with the mutex: it has just entered or has just been woken.
InPop(t, k) == Free(t) \/ (t \in resuming[k] /\ parked[t] = NoItem)

\* t runs push(v) with the mutex, past the check of `closed` on entry.
InPush(t, k, v) == Free(t) \/ (t \in resuming[k] /\ parked[t] = v)

\* A bound that is off by one.
Mut_RoomOffByOne(k) == cap[k] = 0 \/ Len(q[k]) <= cap[k]

\* A queue push() does not have to wait for.
Room(k) == cap[k] = 0 \/ Len(q[k]) < cap[k]

-----------------------------------------------------------------------------
\* push()

\* A push to a closed queue throws before it does anything.
PushThrow(t, k) ==
    /\ Free(t)
    /\ closed[k]
    /\ UNCHANGED queueVars

\* The value is appended and the mutex released; notify_one() is still to come.
PushEnqueue(t, k, v) ==
    /\ InPush(t, k, v)
    /\ ~closed[k]
    /\ Room(k)
    /\ q' = [q EXCEPT ![k] = Append(@, v)]
    /\ notifying' = [notifying EXCEPT ![k] = @ \cup {t}]
    /\ resuming' = [resuming EXCEPT ![k] = @ \ {t}]
    /\ parked' = [parked EXCEPT ![t] = NoItem]
    /\ UNCHANGED <<cap, closed, waiting>>

\* The queue is full: sleep (again) on cond_not_empty.
PushBlock(t, k, v) ==
    /\ InPush(t, k, v)
    /\ ~closed[k]
    /\ ~Room(k)
    /\ waiting' = [waiting EXCEPT ![k] = @ \cup {t}]
    /\ resuming' = [resuming EXCEPT ![k] = @ \ {t}]
    /\ parked' = [parked EXCEPT ![t] = v]
    /\ UNCHANGED <<cap, q, closed, notifying>>

\* A push that slept and finds the queue closed returns without its value.
PushDrop(t, k) ==
    /\ t \in resuming[k]
    /\ parked[t] # NoItem
    /\ closed[k]
    /\ resuming' = [resuming EXCEPT ![k] = @ \ {t}]
    /\ parked' = [parked EXCEPT ![t] = NoItem]
    /\ UNCHANGED <<cap, q, closed, waiting, notifying>>

\* A push whose notification is left out.
Mut_NotifyNobody(t, k) ==
    /\ t \in notifying[k]
    /\ notifying' = [notifying EXCEPT ![k] = @ \ {t}]
    /\ UNCHANGED <<cap, q, closed, waiting, resuming, parked>>

\* notify_one(): one sleeper, no matter which, leaves the wait set; the push
\* then returns. Without a sleeper the notification is lost.
NotifyOne(t, k) ==
    /\ t \in notifying[k]
    /\ notifying' = [notifying EXCEPT ![k] = @ \ {t}]
    /\ \/ /\ waiting[k] = {}
          /\ UNCHANGED <<waiting, resuming>>
       \/ \E w \in waiting[k] :
            /\ waiting' = [waiting EXCEPT ![k] = @ \ {w}]
            /\ resuming' = [resuming EXCEPT ![k] = @ \cup {w}]
    /\ UNCHANGED <<cap, q, closed, parked>>

-----------------------------------------------------------------------------
\* pop() and try_pop(); the value they return is Head(q[k]).

\* An element handed out but left in the queue (a front() without its pop()).
Mut_PopLeavesItem(t, k) ==
    /\ InPop(t, k)
    /\ q[k] # <<>>
    /\ resuming' = [resuming EXCEPT ![k] = @ \ {t}]
    /\ UNCHANGED <<cap, q, closed, waiting, notifying, parked>>

\* Takes the element in front. No notification follows, also when the queue
\* was full.
PopTake(t, k) ==
    /\ InPop(t, k)
    /\ q[k] # <<>>
    /\ q' = [q EXCEPT ![k] = Tail(@)]
    /\ resuming' = [resuming EXCEPT ![k] = @ \ {t}]
    /\ UNCHANGED <<cap, closed, waiting, notifying, parked>>

\* A pop that goes to sleep without looking at the queue.
Mut_PopBlockUnchecked(t, k) ==
    /\ InPop(t, k)
    /\ ~closed[k]
    /\ waiting' = [waiting EXCEPT ![k] = @ \cup {t}]
    /\ resuming' = [resuming EXCEPT ![k] = @ \ {t}]
    /\ UNCHANGED <<cap, q, closed, notifying, parked>>

\* The queue is empty and open: sleep (again) on cond_not_empty.
PopBlock(t, k) ==
    /\ InPop(t, k)
    /\ q[k] = <<>>
    /\ ~closed[k]
    /\ waiting' = [waiting EXCEPT ![k] = @ \cup {t}]
    /\ resuming' = [resuming EXCEPT ![k] = @ \ {t}]
    /\ UNCHANGED <<cap, q, closed, notifying, parked>>

\* A pop of a closed queue that throws without draining it first.
Mut_PopThrowUndrained(t, k) ==
    /\ InPop(t, k)
    /\ closed[k]
    /\ resuming' = [resuming EXCEPT ![k] = @ \ {t}]
    /\ UNCHANGED <<cap, q, closed, waiting, notifying, parked>>

\* The queue is empty and closed: throw.
PopThrow(t, k) ==
    /\ InPop(t, k)
    /\ q[k] = <<>>
    /\ closed[k]
    /\ resuming' = [resuming EXCEPT ![k] = @ \ {t}]
    /\ UNCHANGED <<cap, q, closed, waiting, notifying, parked>>

\* try_pop() that finds an element; one that does not changes nothing.
TryPop(t, k) ==
    /\ Free(t)
    /\ q[k] # <<>>
    /\ q' = [q EXCEPT ![k] = Tail(@)]
    /\ UNCHANGED <<cap, closed, waiting, resuming, notifying, parked>>

TryPopFails(t, k) ==
    /\ Free(t)
    /\ q[k] = <<>>
    /\ UNCHANGED queueVars

-----------------------------------------------------------------------------

\* close() that wakes only one sleeper (notify_one() for notify_all()).
Mut_CloseNotifyOne(t, k) ==
    /\ Free(t)
    /\ closed' = [closed EXCEPT ![k] = TRUE]
    /\ \/ /\ waiting[k] = {}
          /\ UNCHANGED <<waiting, resuming>>
       \/ \E w \in waiting[k] :
            /\ waiting' = [waiting EXCEPT ![k] = @ \ {w}]
            /\ resuming' = [resuming EXCEPT ![k] = @ \cup {w}]
    /\ UNCHANGED <<cap, q, notifying, parked>>

\* close(): sets the flag and wakes every sleeper, under the mutex.
Close(t, k) ==
    /\ Free(t)
    /\ closed' = [closed EXCEPT ![k] = TRUE]
    /\ resuming' = [resuming EXCEPT ![k] = @ \cup waiting[k]]
    /\ waiting' = [waiting EXCEPT ![k] = {}]
    /\ UNCHANGED <<cap, q, notifying, parked>>

\* std::condition_variable may wake a sleeper for no reason at all.
SpuriousWake(t, k) ==
    /\ t \in waiting[k]
    /\ waiting' = [waiting EXCEPT ![k] = @ \ {t}]
    /\ resuming' = [resuming EXCEPT ![k] = @ \cup {t}]
    /\ UNCHANGED <<cap, q, closed, notifying, parked>>

-----------------------------------------------------------------------------

\* No wake-up of an unbounded queue is lost (push() notifies outside the
\* mutex, once for each value, and a notification may find nobody): as long
\* as some thread sleeps, each queued value is matched by a thread that has
\* been woken or by a push() about to notify, so that no sleeper is left
\* beside a value that nobody will come for.
NoLostWakeup ==
    \A k \in Queues :
        cap[k] = 0 /\ waiting[k] # {} =>
            Len(q[k]) <= Cardinality(resuming[k]) + Cardinality(notifying[k])

\* A thread is at one place of one call, and only a bounded queue puts a
\* push() to sleep: what NoLostWakeup rests on.
CallsConsistent ==
    /\ \A k \in Queues :
         /\ waiting[k] \cap resuming[k] = {}
         /\ waiting[k] \cap notifying[k] = {}
         /\ resuming[k] \cap notifying[k] = {}
    /\ \A j, k \in Queues : j # k => Busy(j) \cap Busy(k) = {}
    /\ \A t \in Threads : parked[t] # NoItem =>
         \E k \in Queues : cap[k] # 0 /\ t \in waiting[k] \cup resuming[k]
=============================================================================
