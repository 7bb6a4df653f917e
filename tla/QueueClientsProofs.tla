------------------------- MODULE QueueClientsProofs -------------------------
(***************************************************************************)
(* Theorems about QueueClients, for any number of writers and readers and  *)
(* any capacity.                                                           *)
(*                                                                         *)
(* The inductive invariant ClientsInv joins the queue's own invariant,     *)
(* which holds by the lemmas of ConcurrentQueueProofs, with two properties *)
(* of the clients that are inductive beside it, and with ParkedWriting:    *)
(* a push() that sleeps on a full queue is a writer's call in progress.    *)
(***************************************************************************)
EXTENDS QueueClients, ConcurrentQueueProofs

ParkedWriting == \A w \in Writers : parked[w] # NoItem => Writing(w)

ClientsInv ==
    /\ TypeOK /\ CallsConsistent /\ NoLostWakeup
    /\ ParkedWriting /\ CapacityRespected /\ EndIsFinal

-----------------------------------------------------------------------------
\* The queue.

\* What the clients do with the queue are steps of the queue.
LEMMA ClientStepsAreQueueSteps ==
    ASSUME ClientsInv, Next
    PROVE  \/ \E t \in Threads, k \in Queues, v \in Items : QueueStep(t, k, v)
           \/ UNCHANGED queueVars
<1> USE ClientsAssumption DEF ClientsInv, TypeOK
<1> PICK any \in Items : TRUE
  <2>1. PICK w \in Writers : TRUE
    OBVIOUS
  <2>2. <<w, 1>> \in Items
    OBVIOUS
  <2> QED
    BY <2>2
<1>0. Writers \subseteq Threads /\ Readers \subseteq Threads /\ Closer \in Threads
      /\ conc_queue \in Queues
  OBVIOUS
<1>1. ASSUME NEW w \in Writers, writer(w)
      PROVE  \/ \E v \in Items : QueueStep(w, conc_queue, v)
             \/ UNCHANGED queueVars
  <2>1. CASE WriterEnqueues(w) \/ WriterBlocks(w)
    <3>1. ItemOf(w) \in Items
      BY <2>1 DEF WriterEnqueues, WriterBlocks, Writing, ItemOf
    <3>2. QueueStep(w, conc_queue, ItemOf(w))
      BY <2>1 DEF WriterEnqueues, WriterBlocks, QueueStep
    <3> QED
      BY <3>1, <3>2
  <2>2. CASE WriterDropped(w) \/ WriterNotifies(w)
    BY <2>2 DEF WriterDropped, WriterNotifies, QueueStep
  <2>3. CASE WriterThrows(w)
    BY <2>3 DEF WriterThrows, PushThrow
  <2> QED
    BY <1>1, <2>1, <2>2, <2>3 DEF writer
<1>2. ASSUME NEW r \in Readers, reader(r)
      PROVE  QueueStep(r, conc_queue, any)
  BY <1>2 DEF reader, ReaderTakes, ReaderBlocks, ReaderThrows, ReaderPolls, QueueStep
<1>3. ASSUME Closes
      PROVE  QueueStep(Closer, conc_queue, any)
  BY <1>3 DEF Closes, QueueStep
<1>4. ASSUME NEW t \in Threads, WakesSpuriously(t)
      PROVE  QueueStep(t, conc_queue, any)
  BY <1>4 DEF WakesSpuriously, QueueStep
<1> QED
  BY <1>0, <1>1, <1>2, <1>3, <1>4 DEF Next

LEMMA ClientStepQueueInv ==
    ASSUME ClientsInv, [Next]_vars
    PROVE  QueueTypeOK' /\ CallsConsistent' /\ NoLostWakeup'
<1>1. QueueInv
  BY DEF ClientsInv, TypeOK, QueueInv
<1>2. CASE UNCHANGED queueVars
  BY <1>1, <1>2, QueueUnchanged DEF QueueInv
<1>3. ASSUME NEW t \in Threads, NEW k \in Queues, NEW v \in Items, QueueStep(t, k, v)
      PROVE  QueueInv'
  BY <1>1, <1>3, QueueStepInv
<1>4. CASE UNCHANGED vars
  BY <1>2, <1>4 DEF vars
<1> QED
  BY <1>2, <1>3, <1>4, ClientStepsAreQueueSteps DEF QueueInv

\* A thread that is in no call has no push() that sleeps.
LEMMA FreeHasNothingParked ==
    ASSUME CallsConsistent, NEW t \in Threads, Free(t)
    PROVE  parked[t] = NoItem
BY DEF CallsConsistent, Free, Busy

-----------------------------------------------------------------------------
\* The clients.

LEMMA ClientStepType ==
    ASSUME ClientsInv, [Next]_vars
    PROVE  TypeOK'
<1>0. QueueTypeOK'
  BY ClientStepQueueInv
<1> USE ClientsAssumption DEF ClientsInv, TypeOK
<1>1. ASSUME NEW w \in Writers, writer(w)
      PROVE  TypeOK'
  <2>1. CASE WriterEnqueues(w)
    BY <1>0, <2>1 DEF WriterEnqueues, Writing
  <2>2. CASE WriterDropped(w)
    <3>1. sent[w] < PushesPer
      BY <2>2 DEF WriterDropped, PushDrop, ParkedWriting, Writing
    <3> QED
      BY <1>0, <2>2, <3>1 DEF WriterDropped
  <2>3. CASE WriterBlocks(w) \/ WriterThrows(w) \/ WriterNotifies(w)
    BY <1>0, <2>3 DEF WriterBlocks, WriterThrows, WriterNotifies
  <2> QED
    BY <1>1, <2>1, <2>2, <2>3 DEF writer
<1>2. ASSUME NEW r \in Readers, reader(r)
      PROVE  TypeOK'
  <2>1. CASE ReaderTakes(r) \/ ReaderPolls(r)
    <3>1. Head(q[conc_queue]) \in Items
      BY <2>1 DEF ReaderTakes, ReaderPolls, PopTake, TryPop, QueueTypeOK
    <3>2. Append(received[r], Head(q[conc_queue])) \in Seq(Items)
      BY <3>1
    <3> QED
      BY <1>0, <2>1, <3>2 DEF ReaderTakes, ReaderPolls, Deliver
  <2>2. CASE ReaderBlocks(r) \/ ReaderThrows(r)
    BY <1>0, <2>2 DEF ReaderBlocks, ReaderThrows
  <2> QED
    BY <1>2, <2>1, <2>2 DEF reader
<1>3. ASSUME Closes \/ \E t \in Threads : WakesSpuriously(t)
      PROVE  TypeOK'
  BY <1>0, <1>3 DEF Closes, WakesSpuriously
<1>4. CASE UNCHANGED vars
  BY <1>0, <1>4 DEF vars
<1> QED
  BY <1>1, <1>2, <1>3, <1>4 DEF Next

LEMMA ClientStepParked ==
    ASSUME ClientsInv, [Next]_vars
    PROVE  ParkedWriting'
<1> USE ClientsAssumption DEF ClientsInv, TypeOK, QueueTypeOK, ParkedWriting, Writing
<1>1. ASSUME NEW w \in Writers, writer(w)
      PROVE  ParkedWriting'
  <2>1. CASE WriterEnqueues(w) \/ WriterDropped(w)
    <3>1. parked' = [parked EXCEPT ![w] = NoItem]
      BY <2>1 DEF WriterEnqueues, WriterDropped, PushEnqueue, PushDrop
    <3>2. sent' = [sent EXCEPT ![w] = @ + 1] /\ failed' = failed
      BY <2>1 DEF WriterEnqueues, WriterDropped
    <3> QED
      BY <3>1, <3>2
  <2>2. CASE WriterBlocks(w)
    BY <2>2 DEF WriterBlocks, PushBlock
  <2>3. CASE WriterThrows(w)
    <3>1. parked[w] = NoItem
      BY <2>3, FreeHasNothingParked DEF WriterThrows, PushThrow
    <3> QED
      BY <2>3, <3>1 DEF WriterThrows, PushThrow, queueVars
  <2>4. CASE WriterNotifies(w)
    BY <2>4 DEF WriterNotifies, NotifyOne
  <2> QED
    BY <1>1, <2>1, <2>2, <2>3, <2>4 DEF writer
<1>2. ASSUME NEW r \in Readers, reader(r)
      PROVE  ParkedWriting'
  BY <1>2 DEF reader, ReaderTakes, ReaderBlocks, ReaderThrows, ReaderPolls, PopTake,
              PopBlock, PopThrow, TryPop
<1>3. ASSUME Closes \/ \E t \in Threads : WakesSpuriously(t)
      PROVE  ParkedWriting'
  BY <1>3 DEF Closes, WakesSpuriously, Close, SpuriousWake
<1>4. CASE UNCHANGED vars
  BY <1>4 DEF vars, queueVars
<1> QED
  BY <1>1, <1>2, <1>3, <1>4 DEF Next

\* A step leaves the queue as it is, takes from its front, or adds a value
\* when it is open and has room; its capacity never changes and close() is
\* for good.
LEMMA ClientStepBuffer ==
    ASSUME ClientsInv, [Next]_vars
    PROVE  /\ cap' = cap
           /\ closed[conc_queue] => closed'[conc_queue]
           /\ \/ q'[conc_queue] = q[conc_queue]
              \/ q[conc_queue] # <<>> /\ q'[conc_queue] = Tail(q[conc_queue])
              \/ /\ Room(conc_queue) /\ ~closed[conc_queue]
                 /\ \E v \in Items : q'[conc_queue] = Append(q[conc_queue], v)
<1> USE ClientsAssumption DEF ClientsInv, TypeOK, QueueTypeOK
<1>1. ASSUME NEW t \in Threads, NEW k \in Queues, NEW v \in Items, QueueStep(t, k, v)
      PROVE  /\ cap' = cap
             /\ closed[conc_queue] => closed'[conc_queue]
             /\ \/ q'[conc_queue] = q[conc_queue]
                \/ q[conc_queue] # <<>> /\ q'[conc_queue] = Tail(q[conc_queue])
                \/ /\ Room(conc_queue) /\ ~closed[conc_queue]
                   /\ q'[conc_queue] = Append(q[conc_queue], v)
  <2>1. k = conc_queue
    OBVIOUS
  <2> QED
    BY <1>1, <2>1 DEF QueueStep, PushEnqueue, PushBlock, PushDrop, NotifyOne, PopTake,
                      PopBlock, PopThrow, TryPop, Close, SpuriousWake
<1>2. CASE UNCHANGED queueVars
  BY <1>2 DEF queueVars
<1>3. CASE UNCHANGED vars
  BY <1>2, <1>3 DEF vars
<1> QED
  BY <1>1, <1>2, <1>3, ClientStepsAreQueueSteps

LEMMA ClientStepCapacity ==
    ASSUME ClientsInv, [Next]_vars
    PROVE  CapacityRespected'
<1> USE ClientsAssumption DEF ClientsInv, TypeOK, QueueTypeOK
<1>1. SUFFICES ASSUME cap[conc_queue] > 0
               PROVE  Len(q'[conc_queue]) <= cap[conc_queue]
  BY ClientStepBuffer DEF CapacityRespected
<1>2. Len(q[conc_queue]) <= cap[conc_queue]
  BY <1>1 DEF CapacityRespected
<1>3. CASE q'[conc_queue] = q[conc_queue]
  BY <1>2, <1>3
<1>4. CASE q[conc_queue] # <<>> /\ q'[conc_queue] = Tail(q[conc_queue])
  BY <1>2, <1>4
<1>5. CASE Room(conc_queue) /\ \E v \in Items : q'[conc_queue] = Append(q[conc_queue], v)
  BY <1>1, <1>5 DEF Room
<1> QED
  BY <1>3, <1>4, <1>5, ClientStepBuffer

LEMMA ClientStepEnd ==
    ASSUME ClientsInv, [Next]_vars
    PROVE  EndIsFinal'
<1> USE ClientsAssumption DEF ClientsInv, TypeOK, QueueTypeOK
<1> SUFFICES ASSUME NEW r \in Readers, r \in failed'
             PROVE  closed'[conc_queue] /\ q'[conc_queue] = <<>>
  BY DEF EndIsFinal
<1>1. closed[conc_queue] /\ q[conc_queue] = <<>>
  <2>1. CASE r \in failed
    BY <2>1 DEF EndIsFinal
  <2>2. CASE r \notin failed
    <3>1. ReaderThrows(r)
      BY <2>2 DEF Next, vars, writer, WriterEnqueues, WriterBlocks, WriterDropped,
                  WriterThrows, WriterNotifies, reader, ReaderTakes, ReaderBlocks,
                  ReaderThrows, ReaderPolls, Closes, WakesSpuriously
    <3> QED
      BY <3>1 DEF ReaderThrows, PopThrow
  <2> QED
    BY <2>1, <2>2
<1> QED
  BY <1>1, ClientStepBuffer

-----------------------------------------------------------------------------
\* The theorems.

\* ClientsInv is an invariant: it holds initially and every step preserves it.
THEOREM ClientsInvariant == Spec => []ClientsInv
<1>1. Init => ClientsInv
  <2> SUFFICES ASSUME Init PROVE ClientsInv
    OBVIOUS
  <2>1. PICK c \in Capacities : QueueInit([k \in Queues |-> c])
    BY DEF Init
  <2>2. QueueInv
    <3>1. [k \in Queues |-> c] \in [Queues -> Nat]
      BY ClientsAssumption
    <3> QED
      BY <2>1, <3>1, QueueInitInv
  <2>3. TypeOK
    BY <2>2, ClientsAssumption DEF Init, TypeOK, QueueInv
  <2>4. ParkedWriting /\ CapacityRespected /\ EndIsFinal
    BY <2>1, ClientsAssumption
       DEF Init, QueueInit, ParkedWriting, CapacityRespected, EndIsFinal
  <2> QED
    BY <2>2, <2>3, <2>4 DEF ClientsInv, QueueInv
<1>2. ClientsInv /\ [Next]_vars => ClientsInv'
  BY ClientStepQueueInv, ClientStepType, ClientStepParked, ClientStepCapacity,
     ClientStepEnd DEF ClientsInv
<1> QED
  BY <1>1, <1>2, PTL DEF Spec

\* The variables of the queue and of its clients keep their types.
THEOREM ClientsTypeCorrect == Spec => []TypeOK
<1>1. ClientsInv => TypeOK
  BY DEF ClientsInv
<1> QED
  BY <1>1, ClientsInvariant, PTL

\* No wake-up of an unbounded queue is lost.
THEOREM WakeupsSuffice == Spec => []NoLostWakeup
<1>1. ClientsInv => NoLostWakeup
  BY DEF ClientsInv
<1> QED
  BY <1>1, ClientsInvariant, PTL

\* A bounded queue never exceeds its capacity.
THEOREM NeverOverfull == Spec => []CapacityRespected
<1>1. ClientsInv => CapacityRespected
  BY DEF ClientsInv
<1> QED
  BY <1>1, ClientsInvariant, PTL

\* What close() says to a reader is final.
THEOREM ClosedAndDrained == Spec => []EndIsFinal
<1>1. ClientsInv => EndIsFinal
  BY DEF ClientsInv
<1> QED
  BY <1>1, ClientsInvariant, PTL

-----------------------------------------------------------------------------
\* Refinement.

\* What each step of a client is in FifoQueue. The notifications, the sleepers and the
\* exceptions are invisible there.
LEMMA ClientStepIsFifoStep ==
    ASSUME ClientsInv, [Next]_vars
    PROVE  [Fifo!FifoNext]_(Fifo!fifoVars)
<1> USE ClientsAssumption DEF ClientsInv, TypeOK, QueueTypeOK
<1>0. conc_queue \in Queues
  OBVIOUS
<1>1. ASSUME NEW w \in Writers, writer(w)
      PROVE  Fifo!Put(w) \/ Fifo!Discard(w) \/ UNCHANGED Fifo!fifoVars
  <2>1. CASE WriterEnqueues(w)
    <3>1. Fifo!Put(w)
      BY <1>0, <2>1 DEF WriterEnqueues, PushEnqueue, Room, ItemOf, Fifo!Put
    <3> QED
      BY <3>1
  <2>2. CASE WriterDropped(w)
    <3>1. cap[conc_queue] # 0
      BY <2>2 DEF WriterDropped, PushDrop, CallsConsistent
    <3>2. Fifo!Discard(w)
      BY <2>2, <3>1 DEF WriterDropped, PushDrop, Fifo!Discard
    <3> QED
      BY <3>2
  <2>3. CASE WriterBlocks(w) \/ WriterThrows(w) \/ WriterNotifies(w)
    BY <2>3 DEF WriterBlocks, WriterThrows, WriterNotifies, PushBlock, PushThrow, NotifyOne,
                queueVars, Fifo!fifoVars
  <2> QED
    BY <1>1, <2>1, <2>2, <2>3 DEF writer
<1>2. ASSUME NEW r \in Readers, reader(r)
      PROVE  Fifo!Take(r) \/ UNCHANGED Fifo!fifoVars
  <2>1. CASE ReaderTakes(r) \/ ReaderPolls(r)
    <3>1. /\ q[conc_queue] # <<>> /\ q' = [q EXCEPT ![conc_queue] = Tail(@)]
          /\ Deliver(r) /\ UNCHANGED <<cap, closed, sent>>
      BY <2>1 DEF ReaderTakes, ReaderPolls, PopTake, TryPop
    <3> QED
      BY <1>0, <3>1 DEF Deliver, Fifo!Take
  <2>2. CASE ReaderBlocks(r) \/ ReaderThrows(r)
    BY <2>2 DEF ReaderBlocks, ReaderThrows, PopBlock, PopThrow, Fifo!fifoVars
  <2> QED
    BY <1>2, <2>1, <2>2 DEF reader
<1>3. ASSUME Closes PROVE Fifo!Shut
  BY <1>0, <1>3 DEF Closes, Close, Fifo!Shut
<1>4. ASSUME NEW t \in Threads, WakesSpuriously(t) PROVE UNCHANGED Fifo!fifoVars
  BY <1>4 DEF WakesSpuriously, SpuriousWake, Fifo!fifoVars
<1>5. CASE UNCHANGED vars
  BY <1>5 DEF vars, queueVars, Fifo!fifoVars
<1> QED
  BY <1>1, <1>2, <1>3, <1>4, <1>5 DEF Next, Fifo!FifoNext

\* push(), pop(), try_pop() and close() take effect at one instant on a first-in first-out
\* buffer, however the calls of the clients overlap (concurrent_queue.h).
THEOREM ClientsImplementFifo == Spec => ImplementsFifo
<1>1. Init => Fifo!FifoInit
  BY ClientsAssumption DEF Init, QueueInit, Fifo!FifoInit
<1>2. ClientsInv /\ [Next]_vars => [Fifo!FifoNext]_(Fifo!fifoVars)
  BY ClientStepIsFifoStep
<1> QED
  BY <1>1, <1>2, ClientsInvariant, PTL DEF Spec, ImplementsFifo, Fifo!FifoSpec
=============================================================================
