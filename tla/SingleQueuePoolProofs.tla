------------------------ MODULE SingleQueuePoolProofs ------------------------
(***************************************************************************)
(* Theorems about SingleQueuePool, for any number of workers and tasks.    *)
(*                                                                         *)
(* The inductive invariant PoolInv joins the queue's own invariant (types, *)
(* one place of one call a thread, no lost wake-up), which holds by the    *)
(* lemmas of ConcurrentQueueProofs, with ControlConsistent and             *)
(* ShutdownCovered. NobodyLeftAsleep follows from it. RefinementInv adds   *)
(* that a task is in one place at a time, so that its status changes only  *)
(* where the code moves it: the pool implements TaskPool.                  *)
(***************************************************************************)
EXTENDS SingleQueuePool, ConcurrentQueueProofs

PoolInv == TypeOK /\ CallsConsistent /\ NoLostWakeup /\ ControlConsistent /\ ShutdownCovered

-----------------------------------------------------------------------------
\* The queue.

\* What the pool's threads do with the queue are steps of the queue.
LEMMA PoolStepsAreQueueSteps ==
    ASSUME PoolInv, Next
    PROVE  \/ \E t \in Threads, k \in Queues, v \in Items : QueueStep(t, k, v)
           \/ UNCHANGED queueVars
<1> USE PoolAssumption DEF PoolInv
<1>0. Dummy \in Items /\ work_queue \in Queues /\ Workers \subseteq Threads /\ Main \in Threads
  OBVIOUS
<1>1. ASSUME NEW w \in Workers, worker(w)
      PROVE  \/ QueueStep(w, work_queue, Dummy)
             \/ UNCHANGED queueVars
  BY <1>1 DEF worker, WorkerPops, WorkerBlocks, WorkerLeaves, WorkerCalls,
              WorkerFinishes, QueueStep
<1>2. ASSUME NEW t \in Threads, submit(t)
      PROVE  \/ \E v \in Items : QueueStep(t, work_queue, v)
             \/ UNCHANGED queueVars
  <2>1. CASE SubmitPushes(t)
    <3>1. func[t] \in Items
      BY <2>1 DEF SubmitPushes, ControlConsistent
    <3>2. QueueStep(t, work_queue, func[t])
      BY <2>1 DEF SubmitPushes, QueueStep
    <3> QED
      BY <3>1, <3>2
  <2> QED
    BY <1>2, <2>1 DEF submit, SubmitRefuses, SubmitGoesOn
<1>3. ASSUME NEW t \in Threads, Notifies(t) \/ WakesSpuriously(t)
      PROVE  QueueStep(t, work_queue, Dummy)
  BY <1>3 DEF Notifies, WakesSpuriously, QueueStep
<1>4. ASSUME NEW t \in Threads, NEW x \in Tasks, SubmitCalled(t, x)
      PROVE  UNCHANGED queueVars
  BY <1>4 DEF SubmitCalled
<1>5. ASSUME DtorStops \/ destructor \/ Terminated
      PROVE  \/ QueueStep(Main, work_queue, Dummy)
             \/ UNCHANGED queueVars
  BY <1>5 DEF DtorStops, destructor, DtorPushes, DtorJoins, DtorReturns, Terminated, vars,
              QueueStep
<1> QED
  BY <1>0, <1>1, <1>2, <1>3, <1>4, <1>5 DEF Next

LEMMA PoolStepQueueInv ==
    ASSUME PoolInv, [Next]_vars
    PROVE  QueueTypeOK' /\ CallsConsistent' /\ NoLostWakeup'
<1>1. QueueInv
  BY DEF PoolInv, TypeOK, QueueInv
<1>2. CASE UNCHANGED queueVars
  BY <1>1, <1>2, QueueUnchanged DEF QueueInv
<1>3. ASSUME NEW t \in Threads, NEW k \in Queues, NEW v \in Items, QueueStep(t, k, v)
      PROVE  QueueInv'
  BY <1>1, <1>3, QueueStepInv
<1>4. CASE UNCHANGED vars
  BY <1>2, <1>4 DEF vars
<1> QED
  BY <1>2, <1>3, <1>4, PoolStepsAreQueueSteps DEF QueueInv

-----------------------------------------------------------------------------
\* Types.

LEMMA PoolStepType ==
    ASSUME PoolInv, [Next]_vars
    PROVE  TypeOK'
<1>0. QueueTypeOK'
  BY PoolStepQueueInv
<1> USE PoolAssumption DEF PoolInv, TypeOK, WorkerPC, MainPC, Goto, AfterSubmit
<1>1. ASSUME NEW w \in Workers, worker(w)
      PROVE  TypeOK'
  <2>1. CASE WorkerPops(w)
    <3>1. Head(q[work_queue]) \in Items
      BY <2>1 DEF WorkerPops, PopTake, QueueTypeOK
    <3> QED
      BY <1>0, <2>1, <3>1 DEF WorkerPops
  <2>2. CASE WorkerBlocks(w)
    BY <1>0, <2>2 DEF WorkerBlocks, poolVars
  <2>3. CASE WorkerLeaves(w)
    BY <1>0, <2>3 DEF WorkerLeaves
  <2>4. CASE WorkerCalls(w)
    <3>1. starts' \in [Tasks -> Nat]
      <4>1. \A x \in Tasks : starts[x] + 1 \in Nat
        OBVIOUS
      <4> QED
        BY <2>4, <4>1 DEF WorkerCalls
    <3> QED
      BY <1>0, <2>4, <3>1 DEF WorkerCalls
  <2>5. CASE WorkerFinishes(w)
    BY <1>0, <2>5 DEF WorkerFinishes
  <2> QED
    BY <1>1, <2>1, <2>2, <2>3, <2>4, <2>5 DEF worker
<1>2. ASSUME NEW t \in Threads, submit(t)
      PROVE  TypeOK'
  <2>1. CASE SubmitRefuses(t)
    BY <1>0, <2>1 DEF SubmitRefuses, ControlConsistent
  <2>2. CASE SubmitGoesOn(t)
    BY <1>0, <2>2 DEF SubmitGoesOn
  <2>3. CASE SubmitPushes(t)
    BY <1>0, <2>3 DEF SubmitPushes
  <2> QED
    BY <1>2, <2>1, <2>2, <2>3 DEF submit
<1>3. ASSUME NEW t \in Threads, Notifies(t) \/ WakesSpuriously(t)
      PROVE  TypeOK'
  BY <1>0, <1>3 DEF Notifies, WakesSpuriously, poolVars
<1>4. ASSUME NEW t \in Threads, NEW x \in Tasks, SubmitCalled(t, x)
      PROVE  TypeOK'
  BY <1>0, <1>4 DEF SubmitCalled
<1>5. ASSUME DtorStops
      PROVE  TypeOK'
  <2>1. Cardinality(Workers) \in Nat
    BY ThreadsFinite, FS_CardinalityType
  <2> QED
    BY <1>0, <1>5, <2>1 DEF DtorStops
<1>6. ASSUME destructor
      PROVE  TypeOK'
  BY <1>0, <1>6 DEF destructor, DtorPushes, DtorJoins, DtorReturns
<1>7. ASSUME UNCHANGED vars
      PROVE  TypeOK'
  BY <1>0, <1>7 DEF vars, poolVars
<1> QED
  BY <1>1, <1>2, <1>3, <1>4, <1>5, <1>6, <1>7 DEF Next, Terminated

-----------------------------------------------------------------------------
\* Control.

LEMMA PoolStepControl ==
    ASSUME PoolInv, [Next]_vars
    PROVE  ControlConsistent'
<1> USE PoolAssumption
    DEF PoolInv, TypeOK, QueueTypeOK, ControlConsistent, WorkerPC, MainPC, Goto, AfterSubmit
<1>1. ASSUME NEW w \in Workers, worker(w)
      PROVE  ControlConsistent'
  <2>1. CASE WorkerPops(w)
    <3>1. Head(q[work_queue]) \in Items
      BY <2>1 DEF WorkerPops, PopTake
    <3>2. w \notin waiting'[work_queue] \cup resuming'[work_queue]
      BY <2>1 DEF WorkerPops, PopTake, InPop, Free, Busy, CallsConsistent
    <3> QED
      BY <2>1, <3>1, <3>2 DEF WorkerPops, PopTake
  <2>2. CASE WorkerBlocks(w)
    BY <2>2 DEF WorkerBlocks, PopBlock, poolVars
  <2>3. CASE WorkerLeaves(w)
    BY <2>3 DEF WorkerLeaves, queueVars
  <2>4. CASE WorkerCalls(w)
    BY <2>4 DEF WorkerCalls, queueVars
  <2>5. CASE WorkerFinishes(w)
    BY <2>5 DEF WorkerFinishes, queueVars
  <2> QED
    BY <1>1, <2>1, <2>2, <2>3, <2>4, <2>5 DEF worker
<1>2. ASSUME NEW t \in Threads, submit(t)
      PROVE  ControlConsistent'
  <2>1. CASE SubmitRefuses(t)
    BY <2>1 DEF SubmitRefuses, queueVars
  <2>2. CASE SubmitGoesOn(t)
    BY <2>2 DEF SubmitGoesOn, queueVars
  <2>3. CASE SubmitPushes(t)
    BY <2>3 DEF SubmitPushes, PushEnqueue
  <2> QED
    BY <1>2, <2>1, <2>2, <2>3 DEF submit
<1>3. ASSUME NEW t \in Threads, Notifies(t)
      PROVE  ControlConsistent'
  BY <1>3 DEF Notifies, NotifyOne, poolVars
<1>4. ASSUME NEW t \in Threads, WakesSpuriously(t)
      PROVE  ControlConsistent'
  BY <1>4 DEF WakesSpuriously, SpuriousWake, poolVars
<1>5. ASSUME NEW t \in Threads, NEW x \in Tasks, SubmitCalled(t, x)
      PROVE  ControlConsistent'
  BY <1>5 DEF SubmitCalled, queueVars
<1>6. ASSUME DtorStops
      PROVE  ControlConsistent'
  BY <1>6 DEF DtorStops, queueVars
<1>7. ASSUME destructor
      PROVE  ControlConsistent'
  <2>1. CASE DtorPushes
    BY <2>1 DEF DtorPushes, PushEnqueue
  <2>2. CASE DtorJoins \/ DtorReturns
    BY <2>2 DEF DtorJoins, DtorReturns, queueVars
  <2> QED
    BY <1>7, <2>1, <2>2 DEF destructor
<1>8. ASSUME UNCHANGED vars
      PROVE  ControlConsistent'
  BY <1>8 DEF vars, queueVars, poolVars
<1> QED
  BY <1>1, <1>2, <1>3, <1>4, <1>5, <1>6, <1>7, <1>8 DEF Next, Terminated

-----------------------------------------------------------------------------
\* The dummies.

\* A step that leaves the set of workers still to pop, the queue's length and
\* the dummies to come as they are (or adds to the queue what it takes off the
\* dummies) keeps the workers covered.
LEMMA CoverKept ==
    ASSUME ShutdownCovered, stopping, StillToPop' = StillToPop,
           Len(q'[work_queue]) + todo' = Len(q[work_queue]) + todo
    PROVE  ShutdownCovered'
BY DEF ShutdownCovered

LEMMA PoolStepCovered ==
    ASSUME PoolInv, [Next]_vars
    PROVE  ShutdownCovered'
<1> USE PoolAssumption
    DEF PoolInv, TypeOK, QueueTypeOK, WorkerPC, MainPC, Goto, AfterSubmit
<1> SUFFICES ASSUME stopping' PROVE ShutdownCovered'
  BY DEF ShutdownCovered
<1> DEFINE L == Len(q[work_queue])
<1>a. L \in Nat
  OBVIOUS
<1>b. IsFiniteSet(Workers) /\ IsFiniteSet(StillToPop)
  <2>1. Workers \subseteq Threads /\ StillToPop \subseteq Threads
    BY DEF StillToPop
  <2> QED
    BY <2>1, ThreadsFinite
<1>c. Cardinality(Workers) \in Nat /\ Cardinality(StillToPop) \in Nat
  BY <1>b, FS_CardinalityType
<1>1. ASSUME NEW w \in Workers, worker(w)
      PROVE  ShutdownCovered'
  <2>0. stopping
    BY <1>1 DEF worker, WorkerPops, WorkerBlocks, WorkerLeaves, WorkerCalls,
                WorkerFinishes, poolVars
  <2>1. CASE WorkerPops(w)
    <3>1. w \in StillToPop /\ StillToPop' = StillToPop \ {w}
      BY <2>1 DEF WorkerPops, StillToPop
    <3>2. Cardinality(StillToPop') = Cardinality(StillToPop) - 1
      BY <1>b, <3>1, CountRemove
    <3>3. Len(q'[work_queue]) = L - 1 /\ todo' = todo
      BY <2>1 DEF WorkerPops, PopTake
    <3> QED
      BY <1>a, <1>c, <2>0, <3>2, <3>3 DEF ShutdownCovered
  <2>2. CASE WorkerBlocks(w)
    <3>1. StillToPop' = StillToPop /\ q' = q /\ todo' = todo
      BY <2>2 DEF WorkerBlocks, PopBlock, poolVars, StillToPop
    <3> QED
      BY <2>0, <3>1, CoverKept
  <2>3. CASE WorkerLeaves(w)
    <3>1. StillToPop' = StillToPop /\ q' = q /\ todo' = todo
      BY <2>3 DEF WorkerLeaves, queueVars, StillToPop
    <3> QED
      BY <2>0, <3>1, CoverKept
  <2>4. CASE WorkerCalls(w)
    BY <2>0, <2>4 DEF WorkerCalls
  <2>5. CASE WorkerFinishes(w)
    <3>1. StillToPop' = StillToPop /\ q' = q /\ todo' = todo
      BY <2>5 DEF WorkerFinishes, queueVars, StillToPop
    <3> QED
      BY <2>0, <3>1, CoverKept
  <2> QED
    BY <1>1, <2>1, <2>2, <2>3, <2>4, <2>5 DEF worker
<1>2. ASSUME NEW t \in Threads, submit(t)
      PROVE  ShutdownCovered'
  <2>0. stopping
    BY <1>2 DEF submit, SubmitRefuses, SubmitGoesOn, SubmitPushes
  <2>1. CASE SubmitRefuses(t)
    <3>1. StillToPop' = StillToPop /\ q' = q /\ todo' = todo
      BY <2>1 DEF SubmitRefuses, queueVars, StillToPop
    <3> QED
      BY <2>0, <3>1, CoverKept
  <2>2. CASE SubmitGoesOn(t)
    BY <2>0, <2>2 DEF SubmitGoesOn
  <2>3. CASE SubmitPushes(t)
    <3>1. StillToPop' = StillToPop
      BY <2>3 DEF SubmitPushes, StillToPop
    <3>2. Len(q'[work_queue]) = L + 1 /\ todo' = todo
      <4>1. func[t] \in Items
        BY <2>3 DEF SubmitPushes, ControlConsistent
      <4> QED
        BY <2>3, <4>1 DEF SubmitPushes, PushEnqueue
    <3> QED
      BY <1>a, <1>c, <2>0, <3>1, <3>2 DEF ShutdownCovered
  <2> QED
    BY <1>2, <2>1, <2>2, <2>3 DEF submit
<1>3. ASSUME NEW t \in Threads, Notifies(t) \/ WakesSpuriously(t)
      PROVE  ShutdownCovered'
  <2>1. StillToPop' = StillToPop /\ q' = q /\ todo' = todo /\ stopping
    BY <1>3 DEF Notifies, NotifyOne, WakesSpuriously, SpuriousWake, poolVars, StillToPop
  <2> QED
    BY <2>1, CoverKept
<1>4. ASSUME NEW t \in Threads, NEW x \in Tasks, SubmitCalled(t, x)
      PROVE  ShutdownCovered'
  <2>1. StillToPop' = StillToPop /\ q' = q /\ todo' = todo /\ stopping
    BY <1>4 DEF SubmitCalled, queueVars, StillToPop
  <2> QED
    BY <2>1, CoverKept
<1>5. ASSUME DtorStops
      PROVE  ShutdownCovered'
  <2>1. StillToPop' \subseteq Workers
    BY DEF StillToPop
  <2>2. Cardinality(StillToPop') <= Cardinality(Workers) /\ Cardinality(StillToPop') \in Nat
    BY <1>b, <2>1, FS_Subset, FS_CardinalityType
  <2>3. todo' = Cardinality(Workers) /\ q' = q
    BY <1>5 DEF DtorStops, queueVars
  <2> QED
    BY <1>a, <1>c, <2>2, <2>3 DEF ShutdownCovered
<1>6. ASSUME destructor
      PROVE  ShutdownCovered'
  <2>0. stopping
    BY <1>6 DEF destructor, DtorPushes, DtorJoins, DtorReturns
  <2>1. CASE DtorPushes
    <3>1. StillToPop' = StillToPop
      BY <2>1 DEF DtorPushes, StillToPop
    <3>2. Len(q'[work_queue]) = L + 1 /\ todo' = todo - 1
      BY <2>1 DEF DtorPushes, PushEnqueue
    <3> QED
      BY <1>a, <2>0, <3>1, <3>2, CoverKept
  <2>2. CASE DtorJoins \/ DtorReturns
    <3>1. StillToPop' = StillToPop /\ q' = q /\ todo' = todo
      BY <2>2 DEF DtorJoins, DtorReturns, queueVars, StillToPop
    <3> QED
      BY <2>0, <3>1, CoverKept
  <2> QED
    BY <1>6, <2>1, <2>2 DEF destructor
<1>7. ASSUME UNCHANGED vars
      PROVE  ShutdownCovered'
  <2>1. StillToPop' = StillToPop /\ q' = q /\ todo' = todo /\ stopping
    BY <1>7 DEF vars, queueVars, poolVars, StillToPop
  <2> QED
    BY <2>1, CoverKept
<1> QED
  BY <1>1, <1>2, <1>3, <1>4, <1>5, <1>6, <1>7 DEF Next, Terminated

-----------------------------------------------------------------------------
\* The theorems.

\* PoolInv is an invariant: it holds initially and every step preserves it.
THEOREM PoolInvariant == Spec => []PoolInv
<1>1. Init => PoolInv
  <2> SUFFICES ASSUME Init PROVE PoolInv
    OBVIOUS
  <2>1. QueueInv
    <3>1. [k \in Queues |-> 0] \in [Queues -> Nat]
      OBVIOUS
    <3> QED
      BY <3>1, QueueInitInv DEF Init
  <2>2. TypeOK
    BY <2>1, PoolAssumption DEF Init, QueueInv, TypeOK, WorkerPC, MainPC
  <2>3. ControlConsistent
    BY PoolAssumption DEF Init, QueueInit, ControlConsistent
  <2>4. ShutdownCovered
    BY DEF Init, ShutdownCovered
  <2> QED
    BY <2>1, <2>2, <2>3, <2>4 DEF PoolInv, QueueInv
<1>2. PoolInv /\ [Next]_vars => PoolInv'
  BY PoolStepQueueInv, PoolStepType, PoolStepControl, PoolStepCovered DEF PoolInv
<1> QED
  BY <1>1, <1>2, PTL DEF Spec

\* The variables of the pool keep their types.
THEOREM PoolTypeCorrect == Spec => []TypeOK
<1>1. PoolInv => TypeOK
  BY DEF PoolInv
<1> QED
  BY <1>1, PoolInvariant, PTL

\* thread_count dummies are enough, for every number of workers and tasks and
\* whatever is submitted while the destructor runs.
THEOREM DummiesSuffice == Spec => []ShutdownCovered
<1>1. PoolInv => ShutdownCovered
  BY DEF PoolInv
<1> QED
  BY <1>1, PoolInvariant, PTL

\* No worker sleeps for good while the destructor joins the workers.
THEOREM NoSleeperAtJoin == Spec => []NobodyLeftAsleep
<1>1. PoolInv => NobodyLeftAsleep
  <2> SUFFICES ASSUME PoolInv, stopping, todo = 0, NEW w \in waiting[work_queue],
                      resuming[work_queue] = {}, notifying[work_queue] = {}
               PROVE  FALSE
    BY DEF NobodyLeftAsleep
  <2>1. w \in StillToPop
    BY DEF PoolInv, ControlConsistent, StillToPop
  <2>2. IsFiniteSet(StillToPop)
    <3>1. StillToPop \subseteq Threads
      BY PoolAssumption DEF StillToPop
    <3> QED
      BY <3>1, ThreadsFinite
  <2>3. Cardinality(StillToPop) \in Nat /\ Cardinality(StillToPop) # 0
    BY <2>1, <2>2, FS_CardinalityType, FS_EmptySet
  <2>4. Len(q[work_queue]) <= 0
    <3>1. Cardinality(resuming[work_queue]) = 0 /\ Cardinality(notifying[work_queue]) = 0
      BY FS_EmptySet
    <3>2. cap[work_queue] = 0
      BY DEF PoolInv, ControlConsistent
    <3>3. work_queue \in Queues
      BY PoolAssumption
    <3>4. Len(q[work_queue]) <= Cardinality(resuming[work_queue])
                                  + Cardinality(notifying[work_queue])
      BY <3>2, <3>3 DEF PoolInv, NoLostWakeup
    <3>5. Cardinality(resuming[work_queue]) + Cardinality(notifying[work_queue]) = 0
      BY <3>1
    <3> QED
      BY <3>4, <3>5
  <2> QED
    BY <2>3, <2>4, PoolAssumption DEF PoolInv, ShutdownCovered, TypeOK, QueueTypeOK
<1> QED
  BY <1>1, PoolInvariant, PTL

-----------------------------------------------------------------------------
\* A task is in one place at a time.

Submitting(x) == \E t \in Threads : func[t] = x
Held(x) == \E w \in Workers : task[w] = x

\* A task is at one position of the queue.
QueuedOnce ==
    \A x \in Tasks : \A a, b \in DOMAIN q[work_queue] :
        q[work_queue][a] = x /\ q[work_queue][b] = x => a = b

\* Two threads do not submit, and two workers do not hold, the same task, and only
\* who is in the code between getting it and giving it away.
HeldOnce ==
    /\ \A t \in Threads : func[t] # NoItem => pc[t] \in {"submit", "push"}
    /\ \A w \in Workers : task[w] # NoItem => pc[w] \in {"check", "run", "submit", "push"}
    /\ \A t, u \in Threads : func[t] # NoItem /\ func[t] = func[u] => t = u
    /\ \A v, w \in Workers : task[v] \in Tasks /\ task[v] = task[w] => v = w

\* The places exclude one another.
Apart ==
    \A x \in Tasks :
        /\ x \in unsent => ~Submitting(x) /\ ~Queued(x) /\ ~Held(x) /\ x \notin refused \cup done
        /\ Submitting(x) => ~Queued(x) /\ ~Held(x) /\ x \notin refused \cup done
        /\ Queued(x) => ~Held(x) /\ x \notin refused \cup done
        /\ Held(x) => x \notin refused \cup done
        /\ x \notin refused \cap done

OnePlace == QueuedOnce /\ HeldOnce /\ Apart

RefinementInv == PoolInv /\ OnePlace

-----------------------------------------------------------------------------
\* The queue.

LEMMA QueuedAfterPush ==
    ASSUME QueueTypeOK, QueuedOnce, NEW t \in Threads, NEW v \in Items,
           PushEnqueue(t, work_queue, v), v \in Tasks => ~Queued(v)
    PROVE  /\ \A x \in Tasks : Queued(x)' <=> Queued(x) \/ x = v
           /\ QueuedOnce'
<1> USE PoolAssumption DEF QueueTypeOK
<1>1. q' = [q EXCEPT ![work_queue] = Append(@, v)]
  BY DEF PushEnqueue
<1> DEFINE old == q[work_queue]
           new == q'[work_queue]
<1>2. /\ DOMAIN new = DOMAIN old \cup {Len(old) + 1} /\ Len(old) + 1 \notin DOMAIN old
      /\ new[Len(old) + 1] = v
      /\ \A i \in DOMAIN old : new[i] = old[i]
  BY <1>1
<1>3. \A x \in Tasks : /\ Queued(x) <=> \E i \in DOMAIN old : old[i] = x
                       /\ Queued(x)' <=> \E i \in DOMAIN new : new[i] = x
                       /\ v \in Tasks => \A i \in DOMAIN old : old[i] # v
  BY DEF Queued
<1>4. \A x \in Tasks : \A a, b \in DOMAIN old : old[a] = x /\ old[b] = x => a = b
  BY DEF QueuedOnce
<1>5. QueuedOnce' <=>
        \A x \in Tasks : \A a, b \in DOMAIN new : new[a] = x /\ new[b] = x => a = b
  BY DEF QueuedOnce
<1> HIDE DEF old, new
<1> QED
  BY <1>2, <1>3, <1>4, <1>5

LEMMA QueuedAfterTake ==
    ASSUME QueueTypeOK, QueuedOnce, q[work_queue] # <<>>,
           q' = [q EXCEPT ![work_queue] = Tail(@)]
    PROVE  /\ \A x \in Tasks : Queued(x)' <=> Queued(x) /\ x # Head(q[work_queue])
           /\ QueuedOnce'
           /\ Head(q[work_queue]) \in Items
           /\ Queued(Head(q[work_queue]))
<1> USE PoolAssumption DEF QueueTypeOK
<1> DEFINE old == q[work_queue]
           new == q'[work_queue]
<1>1. /\ 1 \in DOMAIN old /\ old[1] = Head(old) /\ Head(old) \in Items
      /\ \A i \in DOMAIN new : i \in Int /\ i + 1 \in DOMAIN old /\ i + 1 # 1 /\ new[i] = old[i + 1]
      /\ \A i \in DOMAIN old : i # 1 => i - 1 \in DOMAIN new /\ new[i - 1] = old[i]
  OBVIOUS
<1>2. \A x \in Tasks : \A a, b \in DOMAIN old : old[a] = x /\ old[b] = x => a = b
  BY DEF QueuedOnce
<1>3. QueuedOnce'
  <2> SUFFICES ASSUME NEW x \in Tasks, NEW a \in DOMAIN new, NEW b \in DOMAIN new,
                      new[a] = x, new[b] = x
               PROVE  a = b
    BY DEF QueuedOnce
  <2> HIDE DEF old, new
  <2>1. a + 1 = b + 1
    BY <1>1, <1>2
  <2> QED
    BY <1>1, <2>1
<1>4. ASSUME NEW x \in Tasks
      PROVE  Queued(x)' <=> Queued(x) /\ x # old[1]
  <2>0. /\ Queued(x) <=> \E i \in DOMAIN old : old[i] = x
        /\ Queued(x)' <=> \E i \in DOMAIN new : new[i] = x
    BY DEF Queued
  <2> HIDE DEF old, new
  <2>1. ASSUME NEW i \in DOMAIN new, new[i] = x
        PROVE  Queued(x) /\ x # old[1]
    <3>1. i + 1 \in DOMAIN old /\ i + 1 # 1 /\ old[i + 1] = x
      BY <1>1, <2>1
    <3> QED
      BY <1>1, <1>2, <2>0, <3>1
  <2>2. ASSUME NEW i \in DOMAIN old, old[i] = x, x # old[1]
        PROVE  Queued(x)'
    <3>1. i - 1 \in DOMAIN new /\ new[i - 1] = x
      BY <1>1, <2>2
    <3> QED
      BY <2>0, <3>1
  <2> QED
    BY <2>0, <2>1, <2>2
<1>5. Queued(Head(old))
  BY <1>1 DEF Queued
<1>6. Head(old) = old[1] /\ Head(old) \in Items
  BY <1>1
<1> QED
  BY <1>3, <1>4, <1>5, <1>6
-----------------------------------------------------------------------------
\* The status of a task.

\* It depends on where the task is and not on which thread has it.
LEMMA StatusKept ==
    ASSUME NEW x \in Tasks,
           (x \in unsent \/ Submitting(x)) <=> (x \in unsent' \/ Submitting(x)'),
           x \in refused <=> x \in refused', x \in done <=> x \in done',
           Running(x) <=> Running(x)',
           (Queued(x) \/ InHand(x)) <=> (Queued(x)' \/ InHand(x)')
    PROVE  Status'[x] = Status[x]
BY DEF Status, Submitting

\* Where nothing is moved.
LEMMA QuietStep ==
    ASSUME RefinementInv, UNCHANGED <<func, task, unsent, refused, done>>,
           \A x \in Tasks : Queued(x)' <=> Queued(x),
           QueuedOnce',
           \A t \in Threads : func[t] # NoItem => pc'[t] \in {"submit", "push"},
           \A w \in Workers : task[w] # NoItem =>
               /\ pc'[w] \in {"check", "run", "submit", "push"}
               /\ pc'[w] = "check" <=> pc[w] = "check"
    PROVE  OnePlace' /\ Status' = Status
<1> USE PoolAssumption, NoItemAssumption DEF RefinementInv, OnePlace
<1>1. HeldOnce'
  BY DEF HeldOnce
<1>2. \A x \in Tasks : (Submitting(x)' <=> Submitting(x)) /\ (Held(x)' <=> Held(x))
  BY DEF Submitting, Held
<1>3. Apart'
  BY <1>2 DEF Apart
<1>4. ASSUME NEW x \in Tasks
      PROVE  Status'[x] = Status[x]
  <2>1. InHand(x)' <=> InHand(x)
    BY DEF InHand
  <2>2. Running(x)' <=> Running(x)
    BY DEF Running, HeldOnce
  <2> QED
    BY <1>2, <2>1, <2>2, StatusKept
<1>5. Status' = Status
  BY <1>4 DEF Status
<1> QED
  BY <1>1, <1>3, <1>5

LEMMA SameQueues ==
    ASSUME OnePlace, q' = q
    PROVE  QueuedOnce' /\ \A x \in Tasks : Queued(x)' <=> Queued(x)
BY DEF OnePlace, QueuedOnce, Queued

\* What becomes of one task, all others staying where they are.
LEMMA StatusMoves ==
    ASSUME NEW x \in Tasks, NEW s, Status'[x] = s,
           \A y \in Tasks : y # x => Status'[y] = Status[y]
    PROVE  Status' = [Status EXCEPT ![x] = s]
<1>1. Status = [y \in Tasks |-> Status[y]] /\ Status' = [y \in Tasks |-> Status'[y]]
  BY DEF Status
<1>2. \A y \in Tasks : Status'[y] = [Status EXCEPT ![x] = s][y]
  BY <1>1
<1>3. [Status EXCEPT ![x] = s] = [y \in Tasks |-> [Status EXCEPT ![x] = s][y]]
  BY <1>1
<1> QED
  BY <1>1, <1>2, <1>3
-----------------------------------------------------------------------------
\* The steps of a worker.

PoolStep == Pool!PoolNext \/ UNCHANGED Pool!poolVars

LEMMA QuietRefines ==
    ASSUME Status' = Status, UNCHANGED <<starts, stopping>>
    PROVE  PoolStep
BY DEF PoolStep, Pool!poolVars

\* A worker takes a task out of the queue and looks at `stopping` next.
LEMMA PopRefines ==
    ASSUME RefinementInv, NEW w \in Workers, WorkerPops(w)
    PROVE  OnePlace' /\ PoolStep
<1> USE PoolAssumption, NoItemAssumption DEF RefinementInv, OnePlace, WorkerPops
<1>0. PICK x : x = Head(q[work_queue])
  OBVIOUS
<1>1. /\ \A y \in Tasks : Queued(y)' <=> Queued(y) /\ y # x
      /\ QueuedOnce' /\ x \in Items /\ Queued(x)
  BY <1>0, QueuedAfterTake DEF PopTake, PoolInv, TypeOK
<1>2. /\ task[w] = NoItem /\ func[w] = NoItem
      /\ task' = [task EXCEPT ![w] = x] /\ pc' = [pc EXCEPT ![w] = "check"]
  <2>1. task[w] \in Items \cup {NoItem} /\ func[w] \in Tasks \cup {NoItem}
    BY DEF PoolInv, TypeOK
  <2> QED
    BY <1>0, <2>1 DEF HeldOnce, Goto
<1>3. /\ task'[w] = x /\ pc'[w] = "check"
      /\ \A u \in Workers : u # w => task'[u] = task[u]
      /\ \A t \in Threads : t # w => pc'[t] = pc[t]
  BY <1>2 DEF PoolInv, TypeOK
<1>4. x \in Tasks => ~Held(x) /\ ~Submitting(x) /\ x \notin unsent \cup refused \cup done
  BY <1>1 DEF Apart
<1>5. HeldOnce'
  BY <1>1, <1>2, <1>3, <1>4 DEF HeldOnce, Held
<1>6. \A y \in Tasks : (Held(y)' <=> Held(y) \/ y = x) /\ (Submitting(y)' <=> Submitting(y))
  BY <1>2, <1>3 DEF Held, Submitting
<1>7. Apart'
  BY <1>1, <1>4, <1>6 DEF Apart
<1>8. ASSUME NEW y \in Tasks
      PROVE  Status'[y] = Status[y]
  <2>1. InHand(y)' <=> InHand(y) \/ y = x
    BY <1>2, <1>3 DEF InHand
  <2>2. Running(y)' <=> Running(y)
    BY <1>2, <1>3 DEF Running
  <2>3. (Queued(y)' \/ InHand(y)') <=> (Queued(y) \/ InHand(y))
    BY <1>1, <2>1
  <2> QED
    BY <1>6, <2>2, <2>3, StatusKept
<1>9. Status' = Status
  BY <1>8 DEF Status
<1> QED
  BY <1>1, <1>5, <1>7, <1>9, QuietRefines

\* A worker calls what it has popped.
LEMMA CallRefines ==
    ASSUME RefinementInv, NEW w \in Workers, WorkerCalls(w)
    PROVE  OnePlace' /\ PoolStep
<1> USE PoolAssumption, NoItemAssumption DEF RefinementInv, OnePlace, WorkerCalls
<1>0. PICK x \in Items : x = task[w]
  BY DEF PoolInv, ControlConsistent
<1>1. QueuedOnce' /\ \A y \in Tasks : Queued(y)' <=> Queued(y)
  BY SameQueues DEF queueVars
<1>2. /\ task' = task /\ func[w] = NoItem /\ pc'[w] = "run"
      /\ \A t \in Threads : t # w => pc'[t] = pc[t]
  BY DEF PoolInv, TypeOK, HeldOnce, Goto
<1>3. HeldOnce'
  BY <1>2 DEF HeldOnce
<1>4. \A y \in Tasks : (Held(y)' <=> Held(y)) /\ (Submitting(y)' <=> Submitting(y))
  BY <1>2 DEF Held, Submitting
<1>5. Apart'
  BY <1>1, <1>4 DEF Apart
<1>6. ASSUME NEW y \in Tasks, y # x
      PROVE  Status'[y] = Status[y]
  <2>1. (InHand(y)' <=> InHand(y)) /\ (Running(y)' <=> Running(y))
    BY <1>0, <1>2, <1>6 DEF InHand, Running
  <2> QED
    BY <1>1, <1>4, <2>1, StatusKept
<1>7. PoolStep
  <2>1. CASE x \in Tasks
    <3>1. Held(x) /\ InHand(x) /\ ~Running(x)
      BY <1>0, <2>1 DEF Held, InHand, Running, HeldOnce
    <3>2. Running(x)' /\ ~InHand(x)'
      BY <1>0, <1>2, <2>1 DEF Running, InHand, HeldOnce
    <3>3. /\ ~Submitting(x) /\ x \notin unsent /\ x \notin refused /\ x \notin done
          /\ ~Queued(x)
      BY <2>1, <3>1 DEF Apart
    <3>4. Status[x] = "queued"
      BY <2>1, <3>1, <3>3 DEF Status, Submitting
    <3>5. Status'[x] = "running"
      BY <1>1, <1>4, <2>1, <3>2, <3>3 DEF Status, Submitting
    <3>6. Status' = [Status EXCEPT ![x] = "running"]
      BY <1>6, <2>1, <3>5, StatusMoves
    <3>7. starts' = [starts EXCEPT ![x] = @ + 1]
      BY <1>0, <2>1 DEF PoolInv, TypeOK
    <3>8. Pool!Start(x)
      BY <3>4, <3>6, <3>7 DEF Pool!Start, Pool!Become
    <3> QED
      BY <2>1, <3>8 DEF PoolStep, Pool!PoolNext
  <2>2. CASE x \notin Tasks
    <3>1. Status' = Status
      <4>1. \A y \in Tasks : Status'[y] = Status[y]
        BY <1>6, <2>2
      <4> QED
        BY <4>1 DEF Status
    <3>2. starts' = starts
      BY <1>0, <2>2 DEF PoolInv, TypeOK
    <3> QED
      BY <3>1, <3>2, QuietRefines
  <2> QED
    BY <2>1, <2>2
<1> QED
  BY <1>1, <1>3, <1>5, <1>7

\* A worker gets rid of x, which may be done with that.
LetsGo(w, x) ==
    /\ x = task[w] /\ task' = [task EXCEPT ![w] = NoItem]
    /\ pc[w] \in {"check", "run"} /\ pc'[w] \in {"pop", "exit"}
    /\ \A t \in Threads : t # w => pc'[t] = pc[t]
    /\ \A y \in Tasks : y # x => (y \in done' <=> y \in done)
    /\ UNCHANGED <<q, func, unsent, refused>>

LEMMA LetGo ==
    ASSUME RefinementInv, NEW w \in Workers, NEW x, LetsGo(w, x)
    PROVE  /\ OnePlace'
           /\ \A y \in Tasks : y # x => Status'[y] = Status[y]
           /\ x \in Tasks =>
                /\ pc[w] = "run" => Status[x] = "running"
                /\ pc[w] = "check" => Status[x] = "queued"
                /\ x \in done' => Status'[x] = "done"
                /\ x \notin done' => Status'[x] = "dropped"
<1> USE PoolAssumption, NoItemAssumption DEF RefinementInv, OnePlace, LetsGo
<1>1. QueuedOnce' /\ \A y \in Tasks : Queued(y)' <=> Queued(y)
  BY SameQueues
<1>2. /\ func[w] = NoItem /\ task'[w] = NoItem
      /\ \A u \in Workers : u # w => task'[u] = task[u]
  BY DEF PoolInv, TypeOK, HeldOnce
<1>3. HeldOnce'
  BY <1>2 DEF HeldOnce
<1>4. \A y \in Tasks : (Held(y)' <=> Held(y) /\ y # x) /\ (Submitting(y)' <=> Submitting(y))
  BY <1>2 DEF Held, Submitting, HeldOnce
<1>h. x \in Tasks => Held(x)
  BY DEF Held
<1>5. Apart'
  BY <1>1, <1>4, <1>h DEF Apart
<1>6. ASSUME NEW y \in Tasks, y # x
      PROVE  Status'[y] = Status[y]
  <2>1. (InHand(y)' <=> InHand(y)) /\ (Running(y)' <=> Running(y))
    BY <1>2, <1>6 DEF InHand, Running
  <2>2. y \in done' <=> y \in done
    BY <1>6
  <2> QED
    BY <1>1, <1>4, <2>1, <2>2, StatusKept
<1>7. ASSUME x \in Tasks
      PROVE  /\ pc[w] = "run" => Status[x] = "running"
             /\ pc[w] = "check" => Status[x] = "queued"
             /\ x \in done' => Status'[x] = "done"
             /\ x \notin done' => Status'[x] = "dropped"
  <2>1. /\ ~Submitting(x) /\ x \notin unsent /\ x \notin refused /\ x \notin done
        /\ ~Queued(x)
    BY <1>7, <1>h DEF Apart
  <2>2. ~Running(x)' /\ ~InHand(x)'
    <3>1. ~Held(x)'
      BY <1>4, <1>7
    <3> QED
      BY <3>1 DEF Held, Running, InHand
  <2>3. /\ pc[w] = "run" => Running(x) /\ ~InHand(x)
        /\ pc[w] = "check" => InHand(x) /\ ~Running(x)
    BY <1>7 DEF Running, InHand, HeldOnce
  <2>4. (pc[w] = "run" => Status[x] = "running") /\ (pc[w] = "check" => Status[x] = "queued")
    BY <1>7, <2>1, <2>3 DEF Status, Submitting
  <2>5. (x \in done' => Status'[x] = "done") /\ (x \notin done' => Status'[x] = "dropped")
    BY <1>1, <1>4, <1>7, <2>1, <2>2 DEF Status, Submitting
  <2> QED
    BY <2>4, <2>5
<1> QED
  BY <1>1, <1>3, <1>5, <1>6, <1>7

LEMMA LeaveRefines ==
    ASSUME RefinementInv, NEW w \in Workers, WorkerLeaves(w)
    PROVE  OnePlace' /\ PoolStep
<1> USE PoolAssumption
<1>0. PICK x : x = task[w]
  OBVIOUS
<1>1. /\ pc[w] = "check" /\ LetsGo(w, x)
      /\ UNCHANGED <<starts, stopping, done>> /\ stopping
  BY <1>0 DEF RefinementInv, PoolInv, TypeOK, WorkerLeaves, Goto, queueVars, LetsGo
<1>2. OnePlace' /\ \A y \in Tasks : y # x => Status'[y] = Status[y]
  BY <1>1, LetGo
<1>3. x \in Tasks => x \notin done'
  BY <1>0, <1>1 DEF RefinementInv, OnePlace, Apart, Held
<1>4. x \in Tasks => Status[x] = "queued" /\ Status'[x] = "dropped"
  BY <1>1, <1>3, LetGo
<1>5. CASE x \in Tasks
  <2>1. Status' = [Status EXCEPT ![x] = "dropped"]
    BY <1>2, <1>4, <1>5, StatusMoves
  <2>2. Pool!Discard(x)
    BY <1>1, <1>4, <1>5, <2>1 DEF Pool!Discard, Pool!Become
  <2> QED
    BY <1>2, <1>5, <2>2 DEF PoolStep, Pool!PoolNext
<1>6. CASE x \notin Tasks
  <2>1. Status' = Status
    <3>1. \A y \in Tasks : Status'[y] = Status[y]
      BY <1>2, <1>6
    <3> QED
      BY <3>1 DEF Status
  <2> QED
    BY <1>1, <1>2, <2>1, QuietRefines
<1> QED
  BY <1>5, <1>6

LEMMA FinishRefines ==
    ASSUME RefinementInv, NEW w \in Workers, WorkerFinishes(w)
    PROVE  OnePlace' /\ PoolStep
<1> USE PoolAssumption
<1>0. PICK x : x = task[w]
  OBVIOUS
<1>1. /\ pc[w] = "run" /\ LetsGo(w, x)
      /\ UNCHANGED <<starts, stopping>>
  BY <1>0 DEF RefinementInv, PoolInv, TypeOK, WorkerFinishes, Goto, queueVars, LetsGo
<1>2. OnePlace' /\ \A y \in Tasks : y # x => Status'[y] = Status[y]
  BY <1>1, LetGo
<1>3. x \in Tasks => x \in done'
  BY <1>0 DEF WorkerFinishes
<1>4. x \in Tasks => Status[x] = "running" /\ Status'[x] = "done"
  BY <1>1, <1>3, LetGo
<1>5. CASE x \in Tasks
  <2>1. Status' = [Status EXCEPT ![x] = "done"]
    BY <1>2, <1>4, <1>5, StatusMoves
  <2>2. Pool!Finish(x)
    BY <1>1, <1>4, <1>5, <2>1 DEF Pool!Finish, Pool!Become
  <2> QED
    BY <1>2, <1>5, <2>2 DEF PoolStep, Pool!PoolNext
<1>6. CASE x \notin Tasks
  <2>1. Status' = Status
    <3>1. \A y \in Tasks : Status'[y] = Status[y]
      BY <1>2, <1>6
    <3> QED
      BY <3>1 DEF Status
  <2> QED
    BY <1>1, <1>2, <2>1, QuietRefines
<1> QED
  BY <1>5, <1>6

LEMMA WorkerRefines ==
    ASSUME RefinementInv, NEW w \in Workers, worker(w)
    PROVE  OnePlace' /\ PoolStep
<1>1. CASE WorkerBlocks(w)
  <2>1. q' = q /\ UNCHANGED <<func, task, unsent, refused, done, starts, stopping, pc>>
    BY <1>1 DEF WorkerBlocks, PopBlock, poolVars
  <2>2. QueuedOnce' /\ \A x \in Tasks : Queued(x)' <=> Queued(x)
    BY <2>1, SameQueues DEF RefinementInv
  <2>3. OnePlace' /\ Status' = Status
    BY <2>1, <2>2, QuietStep DEF RefinementInv, OnePlace, HeldOnce
  <2> QED
    BY <2>1, <2>3, QuietRefines
<1> QED
  BY <1>1, PopRefines, CallRefines, LeaveRefines, FinishRefines DEF worker

-----------------------------------------------------------------------------
\* submit()

LEMMA SubmitCalledRefines ==
    ASSUME RefinementInv, NEW t \in Threads, NEW x \in Tasks, SubmitCalled(t, x)
    PROVE  OnePlace' /\ PoolStep
<1> USE PoolAssumption, NoItemAssumption DEF RefinementInv, OnePlace
<1>1. /\ q' = q /\ UNCHANGED <<task, refused, done, starts, stopping>>
      /\ x \in unsent /\ unsent' = unsent \ {x}
  BY DEF SubmitCalled, queueVars
<1>2. /\ pc[t] \in {"idle", "run"} /\ (t \in Workers => pc[t] = "run") /\ pc'[t] = "submit"
      /\ \A u \in Threads : u # t => pc'[u] = pc[u]
  BY DEF SubmitCalled, AfterSubmit, Goto, PoolInv, TypeOK
<1>3. /\ func[t] = NoItem /\ func'[t] = x
      /\ \A u \in Threads : u # t => func'[u] = func[u]
  BY <1>2 DEF SubmitCalled, HeldOnce, PoolInv, TypeOK
<1>4. QueuedOnce' /\ \A y \in Tasks : Queued(y)' <=> Queued(y)
  BY <1>1, SameQueues
<1>5. /\ ~Submitting(x) /\ ~Queued(x) /\ ~Held(x) /\ x \notin refused \cup done
  BY <1>1 DEF Apart
<1>6. \A y \in Tasks : (Held(y)' <=> Held(y)) /\ (Submitting(y)' <=> Submitting(y) \/ y = x)
  BY <1>1, <1>3 DEF Held, Submitting
<1>7. HeldOnce'
  BY <1>1, <1>2, <1>3, <1>5 DEF HeldOnce, Submitting
<1>8. Apart'
  BY <1>1, <1>4, <1>5, <1>6 DEF Apart
<1>9. ASSUME NEW y \in Tasks
      PROVE  Status'[y] = Status[y]
  <2>1. (InHand(y)' <=> InHand(y)) /\ (Running(y)' <=> Running(y))
    BY <1>1, <1>2 DEF InHand, Running
  <2>2. (y \in unsent' \/ Submitting(y)') <=> (y \in unsent \/ Submitting(y))
    BY <1>1, <1>6
  <2> QED
    BY <1>1, <1>4, <2>1, <2>2, StatusKept
<1>10. Status' = Status
  BY <1>9 DEF Status
<1> QED
  BY <1>1, <1>4, <1>7, <1>8, <1>10, QuietRefines

\* submit() of x returns: it has pushed x, or refused it.
LEMMA SubmitRefines ==
    ASSUME RefinementInv, NEW t \in Threads, submit(t)
    PROVE  OnePlace' /\ PoolStep
<1> USE PoolAssumption, NoItemAssumption DEF RefinementInv, OnePlace
<1>1. CASE SubmitGoesOn(t)
  <2>1. q' = q /\ UNCHANGED <<func, task, unsent, refused, done, starts, stopping>>
    BY <1>1 DEF SubmitGoesOn, queueVars
  <2>2. /\ pc[t] = "submit" /\ pc'[t] = "push"
        /\ \A u \in Threads : u # t => pc'[u] = pc[u]
    BY <1>1 DEF SubmitGoesOn, Goto, PoolInv, TypeOK
  <2>3. /\ \A u \in Threads : func[u] # NoItem => pc'[u] \in {"submit", "push"}
        /\ \A u \in Workers : task[u] # NoItem =>
              /\ pc'[u] \in {"check", "run", "submit", "push"}
              /\ pc'[u] = "check" <=> pc[u] = "check"
    BY <2>2 DEF HeldOnce
  <2>4. QueuedOnce' /\ \A x \in Tasks : Queued(x)' <=> Queued(x)
    BY <2>1, SameQueues
  <2>5. OnePlace' /\ Status' = Status
    <3> HIDE DEF OnePlace
    <3> QED
      BY <2>1, <2>3, <2>4, QuietStep
  <2> QED
    BY <2>1, <2>5, QuietRefines
<1>2. CASE SubmitRefuses(t) \/ SubmitPushes(t)
  <2>0. PICK x \in Tasks : x = func[t]
    BY <1>2 DEF SubmitRefuses, SubmitPushes, PoolInv, ControlConsistent
  <2>1. /\ UNCHANGED <<task, unsent, done, starts, stopping>>
        /\ func' = [func EXCEPT ![t] = NoItem]
    BY <1>2 DEF SubmitRefuses, SubmitPushes, queueVars
  <2>2. /\ pc[t] \in {"submit", "push"} /\ pc'[t] = AfterSubmit(t)
        /\ \A u \in Threads : u # t => pc'[u] = pc[u]
    BY <1>2 DEF SubmitRefuses, SubmitPushes, Goto, PoolInv, TypeOK
  <2>3. /\ ~Queued(x) /\ ~Held(x) /\ x \notin refused /\ x \notin done
        /\ Submitting(x) /\ x \notin unsent
    BY <2>0 DEF Apart, Submitting
  <2>4. func'[t] = NoItem /\ \A u \in Threads : u # t => func'[u] = func[u]
    BY <2>1 DEF PoolInv, TypeOK
  <2>5. \A y \in Tasks : (Held(y)' <=> Held(y)) /\ (Submitting(y)' <=> Submitting(y) /\ y # x)
    BY <2>0, <2>1, <2>4 DEF Held, Submitting, HeldOnce
  <2>6. HeldOnce'
    BY <2>1, <2>2, <2>4 DEF HeldOnce, AfterSubmit
  <2>7. \A y \in Tasks : (InHand(y)' <=> InHand(y)) /\ (Running(y)' <=> Running(y))
    BY <2>1, <2>2 DEF InHand, Running, AfterSubmit
  <2>8. Status[x] = "new"
    <3>1. ~InHand(x) /\ ~Running(x)
      BY <2>3 DEF Held, InHand, Running
    <3> QED
      BY <2>3, <3>1 DEF Status, Submitting
  <2>9. ~InHand(x)' /\ ~Running(x)'
    BY <2>3, <2>7 DEF Held, InHand, Running
  <2>10. CASE SubmitRefuses(t)
    <3>1. q' = q /\ refused' = refused \cup {x} /\ stopping
      BY <2>0, <2>10 DEF SubmitRefuses, queueVars
    <3>2. QueuedOnce' /\ \A y \in Tasks : Queued(y)' <=> Queued(y)
      BY <3>1, SameQueues
    <3>3. Apart'
      BY <2>1, <2>3, <2>5, <3>1, <3>2 DEF Apart
    <3>4. \A y \in Tasks : y # x => Status'[y] = Status[y]
      BY <2>1, <2>5, <2>7, <3>1, <3>2, StatusKept
    <3>5. Status'[x] = "refused"
      BY <2>1, <2>3, <2>5, <2>9, <3>1, <3>2 DEF Status, Submitting
    <3>6. Pool!Refuse(x)
      BY <2>1, <2>8, <3>1, <3>4, <3>5, StatusMoves DEF Pool!Refuse, Pool!Become
    <3> QED
      BY <2>6, <3>2, <3>3, <3>6 DEF PoolStep, Pool!PoolNext
  <2>11. CASE SubmitPushes(t)
    <3>1. refused' = refused /\ x \in Items /\ PushEnqueue(t, work_queue, x)
      BY <2>0, <2>11 DEF SubmitPushes, PoolInv, TypeOK
    <3>2. QueuedOnce' /\ \A y \in Tasks : Queued(y)' <=> Queued(y) \/ y = x
      BY <2>3, <3>1, QueuedAfterPush DEF PoolInv, TypeOK
    <3>3. Apart'
      BY <2>1, <2>3, <2>5, <3>1, <3>2 DEF Apart
    <3>4. \A y \in Tasks : y # x => Status'[y] = Status[y]
      BY <2>1, <2>5, <2>7, <3>1, <3>2, StatusKept
    <3>5. Status'[x] = "queued"
      BY <2>1, <2>3, <2>5, <2>9, <3>1, <3>2 DEF Status, Submitting
    <3>6. Pool!Accept(x)
      BY <2>1, <2>8, <3>4, <3>5, StatusMoves DEF Pool!Accept, Pool!Become
    <3> QED
      BY <2>6, <3>2, <3>3, <3>6 DEF PoolStep, Pool!PoolNext
  <2> QED
    BY <1>2, <2>10, <2>11
<1> QED
  BY <1>1, <1>2 DEF submit

-----------------------------------------------------------------------------
\* The notifications, the destructor, and the theorems.

LEMMA OtherStepsRefine ==
    ASSUME RefinementInv,
           \/ \E t \in Threads : Notifies(t) \/ WakesSpuriously(t)
           \/ DtorStops \/ destructor \/ Terminated \/ UNCHANGED vars
    PROVE  OnePlace' /\ PoolStep
<1> USE PoolAssumption, NoItemAssumption
<1>1. UNCHANGED <<func, task, unsent, refused, done, starts>>
  BY DEF Notifies, WakesSpuriously, DtorStops, destructor, DtorPushes, DtorJoins,
         DtorReturns, Terminated, vars, poolVars
<1>2. QueuedOnce' /\ \A x \in Tasks : Queued(x)' <=> Queued(x)
  <2>1. CASE DtorPushes
    <3>1. Main \in Threads /\ Dummy \in Items /\ Dummy \notin Tasks
      BY <2>1 DEF DtorPushes, RefinementInv, PoolInv, TypeOK
    <3>2. PushEnqueue(Main, work_queue, Dummy)
      BY <2>1 DEF DtorPushes
    <3>3. QueueTypeOK /\ QueuedOnce
      BY DEF RefinementInv, PoolInv, TypeOK, OnePlace
    <3> QED
      BY <3>1, <3>2, <3>3, QueuedAfterPush
  <2>2. CASE ~DtorPushes
    <3>1. q' = q
      BY <2>2 DEF Notifies, NotifyOne, WakesSpuriously, SpuriousWake, DtorStops, destructor,
                  DtorJoins, DtorReturns, Terminated, vars, queueVars
    <3> QED
      BY <3>1, SameQueues DEF RefinementInv
  <2> QED
    BY <2>1, <2>2
<1>3. \/ UNCHANGED pc
      \/ pc[Main] \notin {"submit", "push"} /\ \A t \in Threads : t # Main => pc'[t] = pc[t]
  BY DEF Notifies, WakesSpuriously, DtorStops, destructor, DtorPushes, DtorJoins,
         DtorReturns, Terminated, vars, poolVars, Goto, RefinementInv, PoolInv, TypeOK
<1>4. /\ \A t \in Threads : func[t] # NoItem => pc'[t] \in {"submit", "push"}
      /\ \A w \in Workers : task[w] # NoItem =>
            /\ pc'[w] \in {"check", "run", "submit", "push"}
            /\ pc'[w] = "check" <=> pc[w] = "check"
  BY <1>3 DEF RefinementInv, OnePlace, HeldOnce
<1>5. OnePlace' /\ Status' = Status
  BY <1>1, <1>2, <1>4, QuietStep
<1>6. UNCHANGED stopping \/ (~stopping /\ stopping')
  BY DEF Notifies, WakesSpuriously, DtorStops, destructor, DtorPushes, DtorJoins,
         DtorReturns, Terminated, vars, poolVars, RefinementInv, PoolInv, ControlConsistent
<1>7. CASE UNCHANGED stopping
  BY <1>1, <1>5, <1>7, QuietRefines
<1>8. CASE ~stopping /\ stopping'
  <2>1. stopping' = TRUE
    BY <1>8 DEF Notifies, WakesSpuriously, DtorStops, destructor, DtorPushes, DtorJoins,
                DtorReturns, Terminated, vars, poolVars
  <2>2. Pool!Stop
    BY <1>1, <1>5, <1>8, <2>1 DEF Pool!Stop
  <2> QED
    BY <1>5, <2>2 DEF PoolStep, Pool!PoolNext
<1> QED
  BY <1>6, <1>7, <1>8

\* A task is in one place, always.
THEOREM RefinementInvariant == Spec => []RefinementInv
<1>1. Init => OnePlace
  <2> SUFFICES ASSUME Init PROVE OnePlace
    OBVIOUS
  <2>1. /\ \A k \in Queues : DOMAIN q[k] = {}
        /\ \A t \in Threads : func[t] = NoItem
        /\ \A w \in Workers : task[w] = NoItem
        /\ refused = {} /\ done = {}
    BY PoolAssumption DEF Init, QueueInit
  <2> QED
    BY <2>1, PoolAssumption, NoItemAssumption
    DEF OnePlace, QueuedOnce, HeldOnce, Apart, Queued, Submitting, Held
<1>2. RefinementInv /\ [Next]_vars => OnePlace'
  BY WorkerRefines, SubmitRefines, SubmitCalledRefines, OtherStepsRefine DEF Next
<1> QED
  BY <1>1, <1>2, PoolInvariant, PTL DEF Spec, RefinementInv

\* The pool does with every task what TaskPool allows: it is
\* accepted or refused, started once, finished, or thrown away by a stopping pool.
THEOREM PoolRefinesTaskPool == Spec => ImplementsTaskPool
<1>1. Init => Pool!PoolInit
  <2> SUFFICES ASSUME Init PROVE Pool!PoolInit
    OBVIOUS
  <2>1. Status = [x \in Tasks |-> "new"]
    <3>1. \A x \in Tasks : x \in unsent
      BY DEF Init
    <3>2. \A x \in Tasks : /\ ~Queued(x) /\ ~Running(x) /\ ~InHand(x)
                           /\ x \notin refused /\ x \notin done
      BY PoolAssumption, NoItemAssumption DEF Init, QueueInit, Queued, Running, InHand
    <3> QED
      BY <3>1, <3>2 DEF Status
  <2> QED
    BY <2>1 DEF Init, Pool!PoolInit
<1>2. RefinementInv /\ [Next]_vars => [Pool!PoolNext]_(Pool!poolVars)
  BY WorkerRefines, SubmitRefines, SubmitCalledRefines, OtherStepsRefine DEF Next, PoolStep
<1> QED
  BY <1>1, <1>2, RefinementInvariant, PTL DEF Spec, ImplementsTaskPool, Pool!PoolSpec

-----------------------------------------------------------------------------

\* A task has been called when, and only when, its status says so.
CalledOnce ==
    /\ Status \in [Tasks -> {"new", "queued", "running", "done", "refused", "dropped"}]
    /\ starts = [x \in Tasks |-> IF Status[x] \in {"running", "done"} THEN 1 ELSE 0]

\* What TaskPool allows keeps it so.
LEMMA CalledOnceKept == CalledOnce /\ [Pool!PoolNext]_(Pool!poolVars) => CalledOnce'
<1> SUFFICES ASSUME CalledOnce, [Pool!PoolNext]_(Pool!poolVars) PROVE CalledOnce'
  OBVIOUS
<1>1. CASE Pool!Stop \/ UNCHANGED Pool!poolVars
  BY <1>1 DEF Pool!Stop, Pool!poolVars, CalledOnce
<1>2. ASSUME NEW x \in Tasks, Pool!Accept(x) \/ Pool!Refuse(x) \/ Pool!Discard(x)
      PROVE CalledOnce'
  BY <1>2 DEF Pool!Accept, Pool!Refuse, Pool!Discard, Pool!Become, CalledOnce
<1>3. ASSUME NEW x \in Tasks, Pool!Start(x) PROVE CalledOnce'
  BY <1>3 DEF Pool!Start, Pool!Become, CalledOnce
<1>4. ASSUME NEW x \in Tasks, Pool!Finish(x) PROVE CalledOnce'
  BY <1>4 DEF Pool!Finish, Pool!Become, CalledOnce
<1> QED
  BY <1>1, <1>2, <1>3, <1>4 DEF Pool!PoolNext

\* All workers take from one queue, and no task is called twice.
THEOREM NoTaskRunsTwice == Spec => []Pool!StartedAtMostOnce
<1>1. Pool!PoolInit => CalledOnce
  BY DEF Pool!PoolInit, CalledOnce
<1>2. CalledOnce => Pool!StartedAtMostOnce
  <2> SUFFICES ASSUME CalledOnce, NEW x \in Tasks PROVE starts[x] <= 1
    BY DEF Pool!StartedAtMostOnce
  <2>1. starts[x] = 0 \/ starts[x] = 1
    BY DEF CalledOnce
  <2> QED
    BY <2>1
<1> QED
  BY <1>1, <1>2, CalledOnceKept, PoolRefinesTaskPool, PTL DEF ImplementsTaskPool, Pool!PoolSpec
=============================================================================
