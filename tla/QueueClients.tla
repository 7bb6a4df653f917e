---------------------------- MODULE QueueClients ----------------------------
(***************************************************************************)
(* The clients of one concurrent_queue: the writer() and reader() of       *)
(* main.cpp's TEST_QUEUE, any number of each, and a thread that may close  *)
(* the queue. A reader may also poll with try_pop(). A call that throws    *)
(* ends its thread (std::async stores the exception in the future).        *)
(***************************************************************************)
EXTENDS ConcurrentQueue

CONSTANTS
    Writers, Readers,
    Closer,         \* the thread that calls close(), in no other role
    PushesPer,      \* values a writer pushes (15 in main.cpp)
    PopsPer,        \* values a reader pops (15 in main.cpp)
    Capacities,     \* the constructor's arguments tried (10 in main.cpp)
    conc_queue      \* the queue

ASSUME ClientsAssumption ==
    /\ Threads = Writers \cup Readers \cup {Closer}
    /\ Writers \cap Readers = {} /\ Closer \notin Writers \cup Readers
    /\ Queues = {conc_queue}
    /\ Writers # {} /\ PushesPer \in Nat \ {0}
    /\ PopsPer \in Nat /\ Capacities \subseteq Nat
    /\ Items = Writers \X (1..PushesPer)

VARIABLES
    sent,       \* [Writers -> Nat]: the pushes of a writer that took effect
    received,   \* [Readers -> Seq(Items)]: what the pops of a reader returned
    failed      \* the threads that a call threw at

vars == <<queueVars, sent, received, failed>>

TypeOK ==
    /\ QueueTypeOK
    /\ sent \in [Writers -> 0..PushesPer]
    /\ received \in [Readers -> Seq(Items)]
    /\ failed \subseteq Writers \cup Readers

Init ==
    /\ \E c \in Capacities : QueueInit([k \in Queues |-> c])
    /\ sent = [w \in Writers |-> 0]
    /\ received = [r \in Readers |-> <<>>]
    /\ failed = {}

\* The value of w's push in progress, or of its next one.
ItemOf(w) == <<w, sent[w] + 1>>

\* for (int i = 0; i <= 15; ++i)
Mut_WritingOneMore(w) == sent[w] <= PushesPer /\ w \notin failed

Writing(w) == sent[w] < PushesPer /\ w \notin failed

Reading(r) == Len(received[r]) < PopsPer /\ r \notin failed

-----------------------------------------------------------------------------
\* writer()

WriterEnqueues(w) ==
    /\ Writing(w)
    /\ PushEnqueue(w, conc_queue, ItemOf(w))
    /\ sent' = [sent EXCEPT ![w] = @ + 1]
    /\ UNCHANGED <<received, failed>>

WriterBlocks(w) ==
    /\ Writing(w)
    /\ PushBlock(w, conc_queue, ItemOf(w))
    /\ UNCHANGED <<sent, received, failed>>

WriterDropped(w) ==
    /\ PushDrop(w, conc_queue)
    /\ sent' = [sent EXCEPT ![w] = @ + 1]
    /\ UNCHANGED <<received, failed>>

WriterThrows(w) ==
    /\ Writing(w)
    /\ PushThrow(w, conc_queue)
    /\ failed' = failed \cup {w}
    /\ UNCHANGED <<sent, received>>

WriterNotifies(w) ==
    /\ NotifyOne(w, conc_queue)
    /\ UNCHANGED <<sent, received, failed>>

writer(w) ==
    \/ WriterEnqueues(w) \/ WriterBlocks(w) \/ WriterDropped(w)
    \/ WriterThrows(w) \/ WriterNotifies(w)

-----------------------------------------------------------------------------
\* reader()

Deliver(r) == received' = [received EXCEPT ![r] = Append(@, Head(q[conc_queue]))]

ReaderTakes(r) ==
    /\ Reading(r)
    /\ PopTake(r, conc_queue)
    /\ Deliver(r)
    /\ UNCHANGED <<sent, failed>>

ReaderBlocks(r) ==
    /\ Reading(r)
    /\ PopBlock(r, conc_queue)
    /\ UNCHANGED <<sent, received, failed>>

ReaderThrows(r) ==
    /\ Reading(r)
    /\ PopThrow(r, conc_queue)
    /\ failed' = failed \cup {r}
    /\ UNCHANGED <<sent, received>>

ReaderPolls(r) ==
    /\ Reading(r)
    /\ TryPop(r, conc_queue)
    /\ Deliver(r)
    /\ UNCHANGED <<sent, failed>>

reader(r) ==
    \/ ReaderTakes(r) \/ ReaderBlocks(r) \/ ReaderThrows(r)
    \/ ReaderPolls(r)

-----------------------------------------------------------------------------

Closes ==
    /\ ~closed[conc_queue]
    /\ Close(Closer, conc_queue)
    /\ UNCHANGED <<sent, received, failed>>

WakesSpuriously(t) ==
    /\ SpuriousWake(t, conc_queue)
    /\ UNCHANGED <<sent, received, failed>>

Next ==
    \/ \E w \in Writers : writer(w)
    \/ \E r \in Readers : reader(r)
    \/ Closes
    \/ \E t \in Threads : WakesSpuriously(t)

\* Every thread that can run does: the operating system schedules it and the
\* mutex is held for a bounded time. Nobody has to call close(), and nobody
\* may count on a spurious wake-up.
Spec ==
    /\ Init /\ [][Next]_vars
    /\ \A w \in Writers : WF_vars(writer(w))
    /\ \A r \in Readers : WF_vars(reader(r))

-----------------------------------------------------------------------------

\* push() waits for room and has to look again when it wakes, since another
\* push may have been faster: a bounded queue never exceeds its capacity.
CapacityRespected ==
    \A k \in Queues : cap[k] > 0 => Len(q[k]) <= cap[k]

\* close() drains, and for good: once a reader has been told (by an exception)
\* that the queue has ended, every accepted value has been delivered and none
\* follows, also not from a push() that slept on a full queue during close().
EndIsFinal ==
    failed \cap Readers # {} => closed[conc_queue] /\ q[conc_queue] = <<>>

AllDone ==
    /\ \A w \in Writers : ~Writing(w)
    /\ \A r \in Readers : ~Reading(r)
    /\ \A k \in Queues : waiting[k] = {}

\* Nobody waits for ever on an unbounded queue, nor on one that is closed:
\* every writer and reader makes all its calls or is thrown at.
Completes ==
    cap[conc_queue] = 0 \/ <>closed[conc_queue] => <>AllDone

\* The "--- Queue test completed ---" of main.cpp:86: the test, which never
\* closes its queue, lets the writer push all its values and the reader pop
\* them.
QueueTestCompletes == []~closed[conc_queue] => <>AllDone

\* The calls implement a first-in first-out buffer.
Fifo == INSTANCE FifoQueue WITH
            capacity <- cap[conc_queue],
            buf <- q[conc_queue],
            shut <- closed[conc_queue]

ImplementsFifo == Fifo!FifoSpec
=============================================================================
