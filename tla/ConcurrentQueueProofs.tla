------------------------ MODULE ConcurrentQueueProofs ------------------------
(***************************************************************************)
(* What every step of a concurrent_queue preserves, whoever takes it: the  *)
(* clients' theorems (SingleQueuePoolProofs, QueueClientsProofs) rest on   *)
(* these lemmas.                                                           *)
(***************************************************************************)
EXTENDS ConcurrentQueue, FiniteSetTheorems, TLAPS

\* A step of thread t in queue k; v is what a push() of t carries.
QueueStep(t, k, v) ==
    \/ PushEnqueue(t, k, v) \/ PushBlock(t, k, v) \/ PushDrop(t, k)
    \/ NotifyOne(t, k) \/ PopTake(t, k) \/ PopBlock(t, k) \/ PopThrow(t, k)
    \/ TryPop(t, k) \/ Close(t, k) \/ SpuriousWake(t, k)

QueueInv == QueueTypeOK /\ CallsConsistent /\ NoLostWakeup

\* A set of threads is finite.
LEMMA ThreadsFinite == \A S : S \subseteq Threads => IsFiniteSet(S)
BY ThreadsAssumption, FS_Subset

\* How many elements a finite set has with one more and with one less.
LEMMA CountAdd ==
    \A S, t : IsFiniteSet(S) /\ t \notin S => Cardinality(S \cup {t}) = Cardinality(S) + 1
BY FS_AddElement

LEMMA CountRemove ==
    \A S, t : IsFiniteSet(S) /\ t \in S => Cardinality(S \ {t}) = Cardinality(S) - 1
BY FS_RemoveElement

\* A new queue satisfies the invariant, whatever its capacity.
LEMMA QueueInitInv ==
    ASSUME NEW c \in [Queues -> Nat], QueueInit(c)
    PROVE  QueueInv
BY DEF QueueInit, QueueInv, QueueTypeOK, CallsConsistent, NoLostWakeup, Busy

\* The variables keep their types.
LEMMA QueueStepType ==
    ASSUME QueueTypeOK, NEW t \in Threads, NEW k \in Queues, NEW v \in Items,
           QueueStep(t, k, v)
    PROVE  QueueTypeOK'
<1> USE DEF QueueTypeOK
<1>1. CASE PushEnqueue(t, k, v)
  BY <1>1 DEF PushEnqueue
<1>2. CASE PushBlock(t, k, v)
  BY <1>2 DEF PushBlock
<1>3. CASE PushDrop(t, k)
  BY <1>3 DEF PushDrop
<1>4. CASE NotifyOne(t, k)
  <2>1. CASE waiting[k] = {} /\ UNCHANGED <<waiting, resuming>>
    BY <1>4, <2>1 DEF NotifyOne
  <2>2. ASSUME NEW w \in waiting[k],
               waiting' = [waiting EXCEPT ![k] = @ \ {w}],
               resuming' = [resuming EXCEPT ![k] = @ \cup {w}]
        PROVE  QueueTypeOK'
    BY <1>4, <2>2 DEF NotifyOne
  <2> QED
    BY <1>4, <2>1, <2>2 DEF NotifyOne
<1>5. CASE PopTake(t, k)
  <2>1. Tail(q[k]) \in Seq(Items)
    BY <1>5 DEF PopTake
  <2> QED
    BY <1>5, <2>1 DEF PopTake
<1>6. CASE PopBlock(t, k)
  BY <1>6 DEF PopBlock
<1>7. CASE PopThrow(t, k)
  BY <1>7 DEF PopThrow
<1>8. CASE TryPop(t, k)
  <2>1. Tail(q[k]) \in Seq(Items)
    BY <1>8 DEF TryPop
  <2> QED
    BY <1>8, <2>1 DEF TryPop
<1>9. CASE Close(t, k)
  BY <1>9 DEF Close
<1>10. CASE SpuriousWake(t, k)
  BY <1>10 DEF SpuriousWake
<1> QED
  BY <1>1, <1>2, <1>3, <1>4, <1>5, <1>6, <1>7, <1>8, <1>9, <1>10 DEF QueueStep

\* A thread stays at one place of one call.
LEMMA QueueStepCalls ==
    ASSUME QueueTypeOK, CallsConsistent, NEW t \in Threads, NEW k \in Queues,
           NEW v \in Items, QueueStep(t, k, v)
    PROVE  CallsConsistent'
<1> USE NoItemAssumption DEF QueueTypeOK, CallsConsistent, Busy
<1>1. CASE PushEnqueue(t, k, v)
  BY <1>1 DEF PushEnqueue, InPush, Free, Room
<1>2. CASE PushBlock(t, k, v)
  BY <1>2 DEF PushBlock, InPush, Free, Room
<1>3. CASE PushDrop(t, k)
  BY <1>3 DEF PushDrop
<1>4. CASE NotifyOne(t, k)
  <2>1. CASE waiting[k] = {} /\ UNCHANGED <<waiting, resuming>>
    BY <1>4, <2>1 DEF NotifyOne
  <2>2. ASSUME NEW w \in waiting[k],
               waiting' = [waiting EXCEPT ![k] = @ \ {w}],
               resuming' = [resuming EXCEPT ![k] = @ \cup {w}]
        PROVE  CallsConsistent'
    BY <1>4, <2>2 DEF NotifyOne
  <2> QED
    BY <1>4, <2>1, <2>2 DEF NotifyOne
<1>5. CASE PopTake(t, k)
  BY <1>5 DEF PopTake, InPop, Free
<1>6. CASE PopBlock(t, k)
  BY <1>6 DEF PopBlock, InPop, Free
<1>7. CASE PopThrow(t, k)
  BY <1>7 DEF PopThrow, InPop, Free
<1>8. CASE TryPop(t, k)
  BY <1>8 DEF TryPop, Free
<1>9. CASE Close(t, k)
  BY <1>9 DEF Close, Free
<1>10. CASE SpuriousWake(t, k)
  BY <1>10 DEF SpuriousWake
<1> QED
  BY <1>1, <1>2, <1>3, <1>4, <1>5, <1>6, <1>7, <1>8, <1>9, <1>10 DEF QueueStep

\* No step loses a wake-up of an unbounded queue: a push adds a value and a
\* notifier, a notification turns a notifier into a woken sleeper, a pop that
\* was woken takes a value with it, and a pop sleeps only on an empty queue.
LEMMA QueueStepWakeup ==
    ASSUME QueueInv, NEW t \in Threads, NEW k \in Queues, NEW v \in Items,
           QueueStep(t, k, v)
    PROVE  NoLostWakeup'
<1> USE DEF QueueInv, QueueTypeOK
<1> SUFFICES ASSUME NEW j \in Queues, cap'[j] = 0, waiting'[j] # {}
             PROVE  Len(q'[j]) <= Cardinality(resuming'[j]) + Cardinality(notifying'[j])
  BY DEF NoLostWakeup
<1>1. cap[j] = 0
  BY DEF QueueStep, PushEnqueue, PushBlock, PushDrop, NotifyOne, PopTake, PopBlock,
         PopThrow, TryPop, Close, SpuriousWake
<1>2. CASE j # k
  <2>1. /\ waiting'[j] = waiting[j] /\ q'[j] = q[j]
        /\ resuming'[j] = resuming[j] /\ notifying'[j] = notifying[j]
    BY <1>2 DEF QueueStep, PushEnqueue, PushBlock, PushDrop, NotifyOne, PopTake, PopBlock,
                PopThrow, TryPop, Close, SpuriousWake
  <2> QED
    BY <1>1, <2>1 DEF NoLostWakeup
<1>3. CASE j = k
  <2> DEFINE R == Cardinality(resuming[k])
             N == Cardinality(notifying[k])
  <2>0. IsFiniteSet(resuming[k]) /\ IsFiniteSet(notifying[k])
    <3>1. resuming[k] \subseteq Threads /\ notifying[k] \subseteq Threads
      OBVIOUS
    <3> QED
      BY <3>1, ThreadsFinite
  <2>1. R \in Nat /\ N \in Nat /\ Len(q[k]) \in Nat
    <3>1. R \in Nat
      BY <2>0, FS_CardinalityType
    <3>2. N \in Nat
      BY <2>0, FS_CardinalityType
    <3>3. Len(q[k]) \in Nat
      OBVIOUS
    <3> QED
      BY <3>1, <3>2, <3>3
  <2>2. waiting[k] # {} => Len(q[k]) <= R + N
    BY <1>1, <1>3 DEF NoLostWakeup
  <2>3. \A s \in resuming[k] : parked[s] = NoItem
    BY <1>1, <1>3 DEF CallsConsistent, Busy
  <2>4. CASE PushEnqueue(t, k, v)
    <3>1. Free(t)
      BY <2>3, <2>4, NoItemAssumption DEF PushEnqueue, InPush
    <3>2. /\ resuming'[k] = resuming[k] \ {t} /\ t \notin resuming[k]
          /\ notifying'[k] = notifying[k] \cup {t} /\ t \notin notifying[k]
          /\ waiting'[k] = waiting[k]
          /\ q'[k] = Append(q[k], v)
      BY <2>4, <3>1 DEF PushEnqueue, Free, Busy
    <3>3. Len(q'[k]) = Len(q[k]) + 1
      BY <3>2
    <3>4. Cardinality(notifying'[k]) = N + 1
      BY <2>0, <3>2, CountAdd
    <3>5. Cardinality(resuming'[k]) = R
      <4>1. resuming'[k] = resuming[k]
        BY <3>2
      <4> QED
        BY <4>1
    <3> QED
      BY <1>3, <2>1, <2>2, <3>2, <3>3, <3>4, <3>5
  <2>5. CASE PushBlock(t, k, v)
    BY <1>1, <1>3, <2>5 DEF PushBlock, Room
  <2>6. CASE PushDrop(t, k)
    BY <2>3, <2>6 DEF PushDrop
  <2>7. CASE NotifyOne(t, k)
    <3>1. PICK w \in waiting[k] :
            /\ waiting' = [waiting EXCEPT ![k] = @ \ {w}]
            /\ resuming' = [resuming EXCEPT ![k] = @ \cup {w}]
      BY <1>3, <2>7 DEF NotifyOne
    <3>2. /\ notifying'[k] = notifying[k] \ {t} /\ t \in notifying[k]
          /\ resuming'[k] = resuming[k] \cup {w} /\ w \notin resuming[k]
          /\ q'[k] = q[k]
      BY <2>7, <3>1 DEF NotifyOne, CallsConsistent
    <3>3. Cardinality(notifying'[k]) = N - 1
      BY <2>0, <3>2, CountRemove
    <3>4. Cardinality(resuming'[k]) = R + 1
      BY <2>0, <3>2, CountAdd
    <3> QED
      BY <1>3, <2>1, <2>2, <3>1, <3>2, <3>3, <3>4
  <2>8. CASE PopTake(t, k)
    <3>1. /\ resuming'[k] = resuming[k] \ {t}
          /\ notifying'[k] = notifying[k]
          /\ waiting'[k] = waiting[k]
          /\ q[k] # <<>> /\ q'[k] = Tail(q[k])
      BY <2>8 DEF PopTake
    <3>2. Len(q'[k]) = Len(q[k]) - 1
      BY <3>1
    <3>3. CASE t \in resuming[k]
      <4>1. Cardinality(resuming'[k]) = R - 1
        BY <2>0, <3>1, <3>3, CountRemove
      <4> QED
        BY <1>3, <2>1, <2>2, <3>1, <3>2, <4>1
    <3>4. CASE t \notin resuming[k]
      <4>1. resuming'[k] = resuming[k]
        BY <3>1, <3>4
      <4>2. Cardinality(resuming'[k]) = R
        BY <4>1
      <4> QED
        BY <1>3, <2>1, <2>2, <3>1, <3>2, <4>2
    <3> QED
      BY <3>3, <3>4
  <2>9. CASE PopBlock(t, k)
    <3>1. Len(q'[k]) = 0
      BY <2>9 DEF PopBlock
    <3>2. resuming'[k] \subseteq Threads /\ notifying'[k] \subseteq Threads
      BY <2>9 DEF PopBlock
    <3>3. Cardinality(resuming'[k]) \in Nat /\ Cardinality(notifying'[k]) \in Nat
      BY <3>2, ThreadsFinite, FS_CardinalityType
    <3> QED
      BY <1>3, <3>1, <3>3
  <2>10. CASE PopThrow(t, k)
    <3>1. Len(q'[k]) = 0
      BY <2>10 DEF PopThrow
    <3>2. resuming'[k] \subseteq Threads /\ notifying'[k] \subseteq Threads
      BY <2>10 DEF PopThrow
    <3>3. Cardinality(resuming'[k]) \in Nat /\ Cardinality(notifying'[k]) \in Nat
      BY <3>2, ThreadsFinite, FS_CardinalityType
    <3> QED
      BY <1>3, <3>1, <3>3
  <2>11. CASE TryPop(t, k)
    <3>1. /\ resuming' = resuming /\ notifying' = notifying /\ waiting' = waiting
          /\ q[k] # <<>> /\ q'[k] = Tail(q[k])
      BY <2>11 DEF TryPop
    <3>2. Len(q'[k]) = Len(q[k]) - 1
      BY <3>1
    <3> QED
      BY <1>3, <2>1, <2>2, <3>1, <3>2
  <2>12. CASE Close(t, k)
    BY <1>3, <2>12 DEF Close
  <2>13. CASE SpuriousWake(t, k)
    <3>1. /\ t \in waiting[k] /\ t \notin resuming[k]
          /\ resuming'[k] = resuming[k] \cup {t}
          /\ notifying' = notifying /\ q' = q
      BY <2>13 DEF SpuriousWake, CallsConsistent
    <3>2. Cardinality(resuming'[k]) = R + 1
      BY <2>0, <3>1, CountAdd
    <3> QED
      BY <1>3, <2>1, <2>2, <3>1, <3>2
  <2> QED
    BY <2>4, <2>5, <2>6, <2>7, <2>8, <2>9, <2>10, <2>11, <2>12, <2>13 DEF QueueStep
<1> QED
  BY <1>2, <1>3

\* Every step of a queue preserves the queue's invariant.
LEMMA QueueStepInv ==
    ASSUME QueueInv, NEW t \in Threads, NEW k \in Queues, NEW v \in Items,
           QueueStep(t, k, v)
    PROVE  QueueInv'
BY QueueStepType, QueueStepCalls, QueueStepWakeup DEF QueueInv

\* So does a step that leaves the queues alone.
LEMMA QueueUnchanged ==
    ASSUME QueueInv, UNCHANGED queueVars
    PROVE  QueueInv'
BY DEF QueueInv, QueueTypeOK, CallsConsistent, NoLostWakeup, Busy, queueVars
=============================================================================
