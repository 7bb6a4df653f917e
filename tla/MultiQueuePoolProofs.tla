------------------------- MODULE MultiQueuePoolProofs -------------------------
(***************************************************************************)
(* Theorems about MultiQueuePool, for any number of workers and tasks.     *)
(*                                                                         *)
(* The inductive invariant PoolInv joins the invariant of the queues, by   *)
(* the lemmas of ConcurrentQueueProofs, with ControlConsistent and         *)
(* MissedOnlyIfRobbed. RefinementInv adds that a task is in one place at a *)
(* time: not submitted, an argument of submit(), at one position of one    *)
(* queue, in the hands of one worker, refused or done. The status of a     *)
(* task then changes only where the code moves it, as TaskPool allows.     *)
(***************************************************************************)
EXTENDS MultiQueuePool, ConcurrentQueueProofs

\* The queues are unbounded and never closed; a worker sleeps on its own only,
\* and the owner of the pool on none; who submits has a task to submit and who
\* has popped holds something; `stopping` is set in the destructor, and dummies
\* are pushed there only.
ControlConsistent ==
    /\ \A k \in Queues : cap[k] = 0 /\ ~closed[k]
    /\ \A k \in Queues : \A t \in waiting[k] \cup resuming[k] :
          t = k /\ pc[t] = "block"
    /\ \A t \in Threads : pc[t] \in {"submit", "push"} => func[t] \in Tasks
    /\ \A w \in Workers : pc[w] = "check" => task[w] \in Items
    /\ stopping <=> pc[Main] \in {"dtor", "join", "gone"}
    /\ ~stopping => todo = 0

PoolInv == TypeOK /\ CallsConsistent /\ NoLostWakeup /\ ControlConsistent /\ MissedOnlyIfRobbed

-----------------------------------------------------------------------------
\* Arithmetic of the indices.

LEMMA IndexInRange ==
    ASSUME NEW n \in Int
    PROVE  n % thread_count \in Workers
BY PoolAssumption DEF Workers

\* The victims of a worker are workers.
LEMMA VictimsAreWorkers ==
    ASSUME NEW w \in Workers, NEW start \in Workers
    PROVE  VictimsFrom(w, start) \in Seq(Workers)
<1>1. thread_count - 1 \in Nat /\ w \in Int /\ start \in Int
  BY PoolAssumption DEF Workers
<1> DEFINE offset(i) == IF i <= (w - start) % thread_count THEN i - 1 ELSE i
<1>2. ASSUME NEW i \in 1..thread_count - 1
      PROVE  (start + offset(i)) % thread_count \in Workers
  <2>1. start + offset(i) \in Int
    BY <1>1
  <2> QED
    BY <2>1, IndexInRange
<1>3. VictimsFrom(w, start) \in [1..thread_count - 1 -> Workers]
  BY <1>2 DEF VictimsFrom
<1> QED
  BY <1>1, <1>3

-----------------------------------------------------------------------------
\* The queues.

\* What the pool's threads do with the queues are steps of the queues.
LEMMA PoolStepsAreQueueSteps ==
    ASSUME PoolInv, Next
    PROVE  \/ \E t \in Threads, k \in Queues, v \in Items : QueueStep(t, k, v)
           \/ UNCHANGED queueVars
<1> USE PoolAssumption DEF PoolInv
<1>0. Dummy \in Items /\ Workers \subseteq Threads /\ Main \in Threads
  OBVIOUS
<1>1. ASSUME NEW w \in Workers, worker(w)
      PROVE  \/ \E k \in Queues : QueueStep(w, k, Dummy)
             \/ UNCHANGED queueVars
  <2>1. CASE WorkerSteals(w)
    <3>1. Head(victims[w]) \in Queues
      BY <2>1 DEF WorkerSteals, TypeOK
    <3>2. QueueStep(w, Head(victims[w]), Dummy)
      BY <2>1 DEF WorkerSteals, QueueStep
    <3> QED
      BY <3>1, <3>2
  <2>2. CASE WorkerTakesOwn(w) \/ WorkerBlocks(w) \/ WorkerPops(w)
    BY <2>2 DEF WorkerTakesOwn, WorkerBlocks, WorkerPops, QueueStep
  <2> QED
    BY <1>1, <2>1, <2>2 DEF worker, WorkerLoops, WorkerFindsOwnEmpty, WorkerGivesUp,
       WorkerFindsVictimEmpty, WorkerLeaves, WorkerCalls, WorkerFinishes, TryPopFails
<1>2. ASSUME NEW t \in Threads, submit(t)
      PROVE  \/ \E k \in Queues, v \in Items : QueueStep(t, k, v)
             \/ UNCHANGED queueVars
  <2>1. CASE SubmitPushes(t)
    <3>1. func[t] \in Items /\ idx[t] \in Queues
      BY <2>1 DEF SubmitPushes, ControlConsistent, TypeOK
    <3>2. QueueStep(t, idx[t], func[t])
      BY <2>1 DEF SubmitPushes, QueueStep
    <3> QED
      BY <3>1, <3>2
  <2> QED
    BY <1>2, <2>1 DEF submit, SubmitRefuses, SubmitChooses
<1>3. ASSUME NEW t \in Threads, Notifies(t) \/ WakesSpuriously(t)
      PROVE  \E k \in Queues : QueueStep(t, k, Dummy)
  BY <1>3 DEF Notifies, WakesSpuriously, QueueStep
<1>4. ASSUME NEW t \in Threads, NEW x \in Tasks, SubmitCalled(t, x)
      PROVE  UNCHANGED queueVars
  BY <1>4 DEF SubmitCalled
<1>5. ASSUME DtorStops \/ destructor
      PROVE  \/ \E k \in Queues : QueueStep(Main, k, Dummy)
             \/ UNCHANGED queueVars
  <2>1. CASE DtorPushes
    <3>1. todo \in Queues
      BY <2>1 DEF DtorPushes, TypeOK, Workers
    <3> QED
      BY <2>1, <3>1 DEF DtorPushes, QueueStep
  <2> QED
    BY <1>5, <2>1 DEF DtorStops, destructor, DtorJoins, DtorReturns
<1> QED
  BY <1>0, <1>1, <1>2, <1>3, <1>4, <1>5 DEF Next

LEMMA PoolStepQueueInv ==
    ASSUME PoolInv, [Next]_vars
    PROVE  QueueTypeOK' /\ CallsConsistent' /\ NoLostWakeup'
<1>1. QueueInv
  BY DEF PoolInv, TypeOK, QueueInv
<1>2. CASE UNCHANGED queueVars
  BY <1>1, <1>2, QueueUnchanged DEF QueueInv
<1>3. ASSUME NEW t \in Threads, NEW k \in Queues, NEW v \in Items, QueueStep(t, k, v)
      PROVE  QueueInv'
  BY <1>1, <1>3, QueueStepInv
<1>4. CASE UNCHANGED vars
  BY <1>2, <1>4 DEF vars
<1> QED
  BY <1>2, <1>3, <1>4, PoolStepsAreQueueSteps DEF QueueInv

-----------------------------------------------------------------------------
\* Types.

\* A worker's call of what it has got keeps the types.
LEMMA CallsType ==
    ASSUME TypeOK, NEW w \in Workers, NEW x \in Items, Calls(w, x)
    PROVE  /\ task' \in [Workers -> Items \cup {NoItem}]
           /\ starts' \in [Tasks -> Nat]
           /\ pc' \in [Threads -> WorkerPC \cup MainPC]
           /\ \A u \in Workers : pc'[u] \in WorkerPC
           /\ pc'[Main] \in MainPC
<1> USE PoolAssumption DEF TypeOK, Calls, Goto, WorkerPC, MainPC
<1>1. \A y \in Tasks : starts[y] + 1 \in Nat
  OBVIOUS
<1> QED
  BY <1>1

LEMMA PoolStepType ==
    ASSUME PoolInv, [Next]_vars
    PROVE  TypeOK'
<1>0. QueueTypeOK'
  BY PoolStepQueueInv
<1>h. \A k \in Queues : q[k] # <<>> => Head(q[k]) \in Items
  BY DEF PoolInv, TypeOK, QueueTypeOK
<1> USE PoolAssumption DEF PoolInv, TypeOK, WorkerPC, MainPC, Goto, AfterSubmit
<1>1. ASSUME NEW w \in Workers, worker(w)
      PROVE  TypeOK'
  <2>1. CASE WorkerLoops(w)
    BY <1>0, <2>1 DEF WorkerLoops
  <2>2. CASE WorkerTakesOwn(w)
    <3>1. Head(q[w]) \in Items
      BY <1>h, <2>2 DEF WorkerTakesOwn, TryPop
    <3>2. Calls(w, Head(q[w]))
      BY <2>2 DEF WorkerTakesOwn
    <3>3. TypeOK
      OBVIOUS
    <3> QED
      BY <1>0, <2>2, <3>1, <3>2, <3>3, CallsType DEF WorkerTakesOwn
  <2>3. CASE WorkerFindsOwnEmpty(w)
    <3>1. PICK start \in Workers : victims' = [victims EXCEPT ![w] = VictimsFrom(w, start)]
      BY <2>3 DEF WorkerFindsOwnEmpty
    <3>2. victims' \in [Workers -> Seq(Workers)]
      BY <3>1, VictimsAreWorkers
    <3> QED
      BY <1>0, <2>3, <3>2 DEF WorkerFindsOwnEmpty
  <2>4. CASE WorkerSteals(w)
    <3> DEFINE v == Head(victims[w])
    <3>1. v \in Workers
      BY <2>4 DEF WorkerSteals
    <3>2. Head(q[v]) \in Items
      BY <1>h, <2>4, <3>1 DEF WorkerSteals, TryPop
    <3>3. Calls(w, Head(q[v])) /\ robbed' \subseteq Workers
      BY <2>4, <3>1 DEF WorkerSteals
    <3>4. victims' \in [Workers -> Seq(Workers)]
      BY <2>4 DEF WorkerSteals
    <3>5. TypeOK
      OBVIOUS
    <3> QED
      BY <1>0, <2>4, <3>2, <3>3, <3>4, <3>5, CallsType DEF WorkerSteals
  <2>5. CASE WorkerFindsVictimEmpty(w)
    <3>1. Tail(victims[w]) \in Seq(Workers)
      BY <2>5 DEF WorkerFindsVictimEmpty
    <3> QED
      BY <1>0, <2>5, <3>1 DEF WorkerFindsVictimEmpty
  <2>6. CASE WorkerGivesUp(w)
    BY <1>0, <2>6 DEF WorkerGivesUp
  <2>7. CASE WorkerBlocks(w)
    BY <1>0, <2>7 DEF WorkerBlocks, poolVars
  <2>8. CASE WorkerPops(w)
    <3>1. Head(q[w]) \in Items
      BY <1>h, <2>8 DEF WorkerPops, PopTake
    <3> QED
      BY <1>0, <2>8, <3>1 DEF WorkerPops
  <2>9. CASE WorkerLeaves(w)
    BY <1>0, <2>9 DEF WorkerLeaves
  <2>10. CASE WorkerCalls(w)
    <3>1. task[w] \in Items /\ Calls(w, task[w])
      BY <2>10 DEF WorkerCalls, ControlConsistent
    <3>2. TypeOK
      OBVIOUS
    <3> QED
      BY <1>0, <2>10, <3>1, <3>2, CallsType DEF WorkerCalls
  <2>11. CASE WorkerFinishes(w)
    BY <1>0, <2>11 DEF WorkerFinishes
  <2> QED
    BY <1>1, <2>1, <2>2, <2>3, <2>4, <2>5, <2>6, <2>7, <2>8, <2>9, <2>10, <2>11 DEF worker
<1>2. ASSUME NEW t \in Threads, submit(t)
      PROVE  TypeOK'
  <2>1. CASE SubmitRefuses(t)
    BY <1>0, <2>1 DEF SubmitRefuses, ControlConsistent
  <2>2. CASE SubmitChooses(t)
    <3>1. (next + 1) % thread_count \in Workers
      <4>1. next + 1 \in Int
        BY DEF Workers
      <4> QED
        BY <4>1, IndexInRange
    <3> QED
      BY <1>0, <2>2, <3>1 DEF SubmitChooses
  <2>3. CASE SubmitPushes(t)
    <3>1. 0 \in Workers
      BY DEF Workers
    <3> QED
      BY <1>0, <2>3, <3>1 DEF SubmitPushes
  <2> QED
    BY <1>2, <2>1, <2>2, <2>3 DEF submit
<1>3. ASSUME NEW t \in Threads, Notifies(t) \/ WakesSpuriously(t)
      PROVE  TypeOK'
  BY <1>0, <1>3 DEF Notifies, WakesSpuriously, poolVars
<1>4. ASSUME NEW t \in Threads, NEW x \in Tasks, SubmitCalled(t, x)
      PROVE  TypeOK'
  BY <1>0, <1>4 DEF SubmitCalled
<1>5. ASSUME DtorStops
      PROVE  TypeOK'
  BY <1>0, <1>5 DEF DtorStops
<1>6. ASSUME destructor
      PROVE  TypeOK'
  <2>1. CASE DtorPushes
    <3>1. todo + 1 \in 0..thread_count
      BY <2>1 DEF DtorPushes
    <3> QED
      BY <1>0, <2>1, <3>1 DEF DtorPushes
  <2>2. CASE DtorJoins \/ DtorReturns
    BY <1>0, <2>2 DEF DtorJoins, DtorReturns
  <2> QED
    BY <1>6, <2>1, <2>2 DEF destructor
<1>7. ASSUME UNCHANGED vars
      PROVE  TypeOK'
  BY <1>0, <1>7 DEF vars, poolVars
<1> QED
  BY <1>1, <1>2, <1>3, <1>4, <1>5, <1>6, <1>7 DEF Next

-----------------------------------------------------------------------------
\* Control.

LEMMA PoolStepControl ==
    ASSUME PoolInv, [Next]_vars
    PROVE  ControlConsistent'
<1>h. \A k \in Queues : q[k] # <<>> => Head(q[k]) \in Items
  BY DEF PoolInv, TypeOK, QueueTypeOK
<1> USE PoolAssumption
    DEF PoolInv, TypeOK, QueueTypeOK, ControlConsistent, WorkerPC, MainPC, Goto, AfterSubmit
<1>1. ASSUME NEW w \in Workers, worker(w)
      PROVE  ControlConsistent'
  <2>1. CASE WorkerLoops(w)
    BY <2>1 DEF WorkerLoops, queueVars
  <2>2. CASE WorkerTakesOwn(w)
    BY <2>2 DEF WorkerTakesOwn, TryPop, Calls
  <2>3. CASE WorkerFindsOwnEmpty(w)
    BY <2>3 DEF WorkerFindsOwnEmpty, TryPopFails, queueVars
  <2>4. CASE WorkerSteals(w)
    BY <2>4 DEF WorkerSteals, TryPop, Calls
  <2>5. CASE WorkerFindsVictimEmpty(w)
    BY <2>5 DEF WorkerFindsVictimEmpty, TryPopFails, queueVars
  <2>6. CASE WorkerGivesUp(w)
    BY <2>6 DEF WorkerGivesUp, queueVars
  <2>7. CASE WorkerBlocks(w)
    BY <2>7 DEF WorkerBlocks, PopBlock, poolVars
  <2>8. CASE WorkerPops(w)
    <3>1. Head(q[w]) \in Items
      BY <1>h, <2>8 DEF WorkerPops, PopTake
    <3>2. \A k \in Queues : w \notin waiting'[k] \cup resuming'[k]
      BY <2>8 DEF WorkerPops, PopTake, InPop, Free, Busy, CallsConsistent
    <3> QED
      BY <2>8, <3>1, <3>2 DEF WorkerPops, PopTake
  <2>9. CASE WorkerLeaves(w)
    BY <2>9 DEF WorkerLeaves, queueVars
  <2>10. CASE WorkerCalls(w)
    BY <2>10 DEF WorkerCalls, Calls, queueVars
  <2>11. CASE WorkerFinishes(w)
    BY <2>11 DEF WorkerFinishes, queueVars
  <2> QED
    BY <1>1, <2>1, <2>2, <2>3, <2>4, <2>5, <2>6, <2>7, <2>8, <2>9, <2>10, <2>11 DEF worker
<1>2. ASSUME NEW t \in Threads, submit(t)
      PROVE  ControlConsistent'
  <2>1. CASE SubmitRefuses(t)
    BY <2>1 DEF SubmitRefuses, queueVars
  <2>2. CASE SubmitChooses(t)
    BY <2>2 DEF SubmitChooses, queueVars
  <2>3. CASE SubmitPushes(t)
    BY <2>3 DEF SubmitPushes, PushEnqueue
  <2> QED
    BY <1>2, <2>1, <2>2, <2>3 DEF submit
<1>3. ASSUME NEW t \in Threads, Notifies(t)
      PROVE  ControlConsistent'
  <2>1. PICK k \in Queues : NotifyOne(t, k)
    BY <1>3 DEF Notifies
  <2>2. CASE UNCHANGED <<waiting, resuming>>
    BY <1>3, <2>1, <2>2 DEF Notifies, NotifyOne, poolVars
  <2>3. ASSUME NEW w \in waiting[k],
               waiting' = [waiting EXCEPT ![k] = @ \ {w}],
               resuming' = [resuming EXCEPT ![k] = @ \cup {w}]
        PROVE  ControlConsistent'
    BY <1>3, <2>1, <2>3 DEF Notifies, NotifyOne, poolVars
  <2> QED
    BY <2>1, <2>2, <2>3 DEF NotifyOne
<1>4. ASSUME NEW t \in Threads, WakesSpuriously(t)
      PROVE  ControlConsistent'
  BY <1>4 DEF WakesSpuriously, SpuriousWake, poolVars
<1>5. ASSUME NEW t \in Threads, NEW x \in Tasks, SubmitCalled(t, x)
      PROVE  ControlConsistent'
  BY <1>5 DEF SubmitCalled, queueVars
<1>6. ASSUME DtorStops
      PROVE  ControlConsistent'
  BY <1>6 DEF DtorStops, queueVars
<1>7. ASSUME destructor
      PROVE  ControlConsistent'
  <2>1. CASE DtorPushes
    BY <2>1 DEF DtorPushes, PushEnqueue
  <2>2. CASE DtorJoins \/ DtorReturns
    BY <2>2 DEF DtorJoins, DtorReturns, queueVars
  <2> QED
    BY <1>7, <2>1, <2>2 DEF destructor
<1>8. ASSUME UNCHANGED vars
      PROVE  ControlConsistent'
  BY <1>8 DEF vars, queueVars, poolVars
<1> QED
  BY <1>1, <1>2, <1>3, <1>4, <1>5, <1>6, <1>7, <1>8 DEF Next

-----------------------------------------------------------------------------
\* The dummies.

\* Whoever appends to a queue leaves the dummy where it is.
LEMMA AppendKeepsDummy ==
    ASSUME NEW w \in Workers, NEW t \in Threads, NEW k \in Queues, NEW v \in Items,
           QueueTypeOK, Workers = Queues, PushEnqueue(t, k, v), HasDummy(w) \/ (k = w /\ v = Dummy)
    PROVE  HasDummy(w)'
<1> USE DEF QueueTypeOK, HasDummy, PushEnqueue
<1>1. CASE k # w
  BY <1>1
<1>2. CASE k = w
  <2>1. q'[w] = Append(q[w], v)
    BY <1>2
  <2>2. Len(q[w]) + 1 \in DOMAIN q'[w] /\ q'[w][Len(q[w]) + 1] = v
    BY <2>1
  <2>3. \A i \in DOMAIN q[w] : i \in DOMAIN q'[w] /\ q'[w][i] = q[w][i]
    BY <2>1
  <2> QED
    BY <1>2, <2>2, <2>3
<1> QED
  BY <1>1, <1>2

\* Whoever takes something else than the dummy leaves the dummy where it is.
LEMMA TailKeepsDummy ==
    ASSUME NEW s \in Seq(Items), s # <<>>, Head(s) # Dummy,
           NEW i \in DOMAIN s, s[i] = Dummy
    PROVE  \E j \in DOMAIN Tail(s) : Tail(s)[j] = Dummy
<1>1. i - 1 \in DOMAIN Tail(s) /\ Tail(s)[i - 1] = s[i]
  OBVIOUS
<1> QED
  BY <1>1

LEMMA PoolStepMissed ==
    ASSUME PoolInv, [Next]_vars
    PROVE  MissedOnlyIfRobbed'
<1> USE PoolAssumption
    DEF PoolInv, TypeOK, QueueTypeOK, WorkerPC, MainPC, Goto, AfterSubmit
<1> SUFFICES ASSUME NEW w \in Workers, pc'[w] \in {"own", "steal", "block"}, ~(w >= todo')
             PROVE  HasDummy(w)' \/ w \in robbed'
  BY DEF MissedOnlyIfRobbed
<1>n. w \in Int /\ w >= 0 /\ thread_count \in Int
  BY DEF Workers
\* A step that leaves the queue of w, the dummies pushed and the robbed ones alone.
<1>s. ASSUME q' = q, todo' = todo, robbed' = robbed, pc[w] \in {"own", "steal", "block"}
      PROVE  HasDummy(w)' \/ w \in robbed'
  BY <1>s DEF HasDummy, MissedOnlyIfRobbed
<1>1. ASSUME NEW u \in Workers, worker(u)
      PROVE  HasDummy(w)' \/ w \in robbed'
  <2>1. CASE WorkerLoops(u)
    <3>1. u = w => ~stopping
      BY <2>1 DEF WorkerLoops
    <3>2. ~stopping => todo' = 0
      BY <2>1 DEF WorkerLoops, ControlConsistent
    <3>3. u # w
      BY <1>n, <3>1, <3>2
    <3> QED
      BY <1>s, <2>1, <3>3 DEF WorkerLoops, queueVars
  <2>2. CASE WorkerTakesOwn(u)
    <3>1. u # w
      BY <2>2 DEF WorkerTakesOwn, Calls
    <3>2. q'[w] = q[w] /\ robbed' = robbed /\ todo' = todo /\ pc'[w] = pc[w]
      BY <2>2, <3>1 DEF WorkerTakesOwn, Calls, TryPop
    <3> QED
      BY <3>2 DEF HasDummy, MissedOnlyIfRobbed
  <2>3. CASE WorkerFindsOwnEmpty(u)
    BY <1>s, <2>3 DEF WorkerFindsOwnEmpty, TryPopFails, queueVars
  <2>4. CASE WorkerSteals(u)
    <3> DEFINE v == Head(victims[u])
    <3>1. u # w
      BY <2>4 DEF WorkerSteals, Calls
    <3>2. v \in Workers /\ pc'[w] = pc[w] /\ todo' = todo /\ robbed \subseteq robbed'
      BY <2>4, <3>1 DEF WorkerSteals, Calls
    <3>3. CASE v # w
      <4>1. q'[w] = q[w]
        BY <2>4, <3>2, <3>3 DEF WorkerSteals, TryPop
      <4> QED
        BY <3>2, <4>1 DEF HasDummy, MissedOnlyIfRobbed
    <3>4. CASE v = w /\ Head(q[w]) = Dummy
      BY <2>4, <3>4 DEF WorkerSteals
    <3>5. CASE v = w /\ Head(q[w]) # Dummy
      <4>1. q[w] # <<>> /\ q'[w] = Tail(q[w])
        BY <2>4, <3>5 DEF WorkerSteals, TryPop
      <4>2. q[w] \in Seq(Items)
        OBVIOUS
      <4>3. ASSUME NEW i \in DOMAIN q[w], q[w][i] = Dummy
            PROVE  \E j \in DOMAIN q'[w] : q'[w][j] = Dummy
        <5>1. Head(q[w]) # Dummy
          BY <3>5
        <5>2. \E j \in DOMAIN Tail(q[w]) : Tail(q[w])[j] = Dummy
          BY <4>1, <4>2, <4>3, <5>1, TailKeepsDummy
        <5> QED
          BY <4>1, <5>2
      <4>4. HasDummy(w) => HasDummy(w)'
        BY <4>3 DEF HasDummy
      <4> QED
        BY <3>2, <4>4 DEF MissedOnlyIfRobbed
    <3> QED
      BY <3>3, <3>4, <3>5
  <2>5. CASE WorkerFindsVictimEmpty(u)
    BY <1>s, <2>5 DEF WorkerFindsVictimEmpty, TryPopFails, queueVars
  <2>6. CASE WorkerGivesUp(u)
    BY <1>s, <2>6 DEF WorkerGivesUp, queueVars
  <2>7. CASE WorkerBlocks(u)
    BY <1>s, <2>7 DEF WorkerBlocks, PopBlock, poolVars
  <2>8. CASE WorkerPops(u)
    <3>1. u # w
      BY <2>8 DEF WorkerPops
    <3>2. q'[w] = q[w] /\ robbed' = robbed /\ todo' = todo /\ pc'[w] = pc[w]
      BY <2>8, <3>1 DEF WorkerPops, PopTake
    <3> QED
      BY <3>2 DEF HasDummy, MissedOnlyIfRobbed
  <2>9. CASE WorkerLeaves(u)
    BY <1>s, <2>9 DEF WorkerLeaves, queueVars
  <2>10. CASE WorkerCalls(u)
    BY <1>s, <2>10 DEF WorkerCalls, Calls, queueVars
  <2>11. CASE WorkerFinishes(u)
    BY <1>s, <2>11 DEF WorkerFinishes, queueVars
  <2> QED
    BY <1>1, <2>1, <2>2, <2>3, <2>4, <2>5, <2>6, <2>7, <2>8, <2>9, <2>10, <2>11 DEF worker
<1>2. ASSUME NEW t \in Threads, submit(t)
      PROVE  HasDummy(w)' \/ w \in robbed'
  <2>1. CASE SubmitRefuses(t)
    BY <1>s, <2>1 DEF SubmitRefuses, queueVars
  <2>2. CASE SubmitChooses(t)
    BY <1>s, <2>2 DEF SubmitChooses, queueVars
  <2>3. CASE SubmitPushes(t)
    <3>1. func[t] \in Items /\ idx[t] \in Queues
      BY <2>3 DEF SubmitPushes, ControlConsistent
    <3>2. PushEnqueue(t, idx[t], func[t])
      BY <2>3 DEF SubmitPushes
    <3>3. HasDummy(w) => HasDummy(w)'
      BY <3>1, <3>2, AppendKeepsDummy
    <3>4. pc[w] \in {"own", "steal", "block"} /\ todo' = todo /\ robbed' = robbed
      BY <2>3 DEF SubmitPushes
    <3> QED
      BY <3>3, <3>4 DEF MissedOnlyIfRobbed
  <2> QED
    BY <1>2, <2>1, <2>2, <2>3 DEF submit
<1>3. ASSUME NEW t \in Threads, Notifies(t) \/ WakesSpuriously(t)
      PROVE  HasDummy(w)' \/ w \in robbed'
  BY <1>s, <1>3 DEF Notifies, NotifyOne, WakesSpuriously, SpuriousWake, poolVars
<1>4. ASSUME NEW t \in Threads, NEW x \in Tasks, SubmitCalled(t, x)
      PROVE  HasDummy(w)' \/ w \in robbed'
  BY <1>s, <1>4 DEF SubmitCalled, queueVars
<1>5. ASSUME DtorStops
      PROVE  HasDummy(w)' \/ w \in robbed'
  BY <1>s, <1>5 DEF DtorStops, queueVars
<1>6. ASSUME destructor
      PROVE  HasDummy(w)' \/ w \in robbed'
  <2>1. CASE DtorPushes
    <3>1. Dummy \in Items /\ todo \in Queues /\ Main \in Threads
      BY <2>1 DEF DtorPushes, Workers
    <3>2. PushEnqueue(Main, todo, Dummy)
      BY <2>1 DEF DtorPushes
    <3>3. w >= todo => todo = w
      BY <1>n, <2>1 DEF DtorPushes
    <3>4. HasDummy(w) \/ todo = w => HasDummy(w)'
      BY <3>1, <3>2, AppendKeepsDummy
    <3>5. pc[w] \in {"own", "steal", "block"} /\ robbed' = robbed
      BY <2>1 DEF DtorPushes
    <3> QED
      BY <3>3, <3>4, <3>5 DEF MissedOnlyIfRobbed
  <2>2. CASE DtorJoins \/ DtorReturns
    BY <1>s, <2>2 DEF DtorJoins, DtorReturns, queueVars
  <2> QED
    BY <1>6, <2>1, <2>2 DEF destructor
<1>7. ASSUME UNCHANGED vars
      PROVE  HasDummy(w)' \/ w \in robbed'
  BY <1>s, <1>7 DEF vars, queueVars, poolVars
<1> QED
  BY <1>1, <1>2, <1>3, <1>4, <1>5, <1>6, <1>7 DEF Next

-----------------------------------------------------------------------------
\* The theorems.

\* PoolInv is an invariant: it holds initially and every step preserves it.
THEOREM PoolInvariant == Spec => []PoolInv
<1>1. Init => PoolInv
  <2> SUFFICES ASSUME Init PROVE PoolInv
    OBVIOUS
  <2>1. QueueInv
    <3>1. [k \in Queues |-> 0] \in [Queues -> Nat]
      OBVIOUS
    <3> QED
      BY <3>1, QueueInitInv DEF Init
  <2>2. TypeOK
    <3>1. 0 \in Workers /\ 0 \in 0..thread_count
      BY PoolAssumption DEF Workers
    <3>2. [w \in Workers |-> <<>>] \in [Workers -> Seq(Workers)]
      OBVIOUS
    <3> QED
      BY <2>1, <3>1, <3>2, PoolAssumption DEF Init, QueueInv, TypeOK, WorkerPC, MainPC
  <2>3. ControlConsistent
    BY PoolAssumption DEF Init, QueueInit, ControlConsistent
  <2>4. MissedOnlyIfRobbed
    BY PoolAssumption DEF Init, MissedOnlyIfRobbed, Workers
  <2> QED
    BY <2>1, <2>2, <2>3, <2>4 DEF PoolInv, QueueInv
<1>2. PoolInv /\ [Next]_vars => PoolInv'
  BY PoolStepQueueInv, PoolStepType, PoolStepControl, PoolStepMissed DEF PoolInv
<1> QED
  BY <1>1, <1>2, PTL DEF Spec

\* The variables of the pool keep their types; in particular `next` stays an index
\* of a queue, and a thief only looks at queues that there are.
THEOREM PoolTypeCorrect == Spec => []TypeOK
<1>1. PoolInv => TypeOK
  BY DEF PoolInv
<1> QED
  BY <1>1, PoolInvariant, PTL

\* For every number of workers and tasks, a worker that is in pop() while the pool is
\* destroyed, or about to enter it, lacks its dummy only if a thief has taken that.
THEOREM ThievesOnlyCause == Spec => []MissedOnlyIfRobbed
<1>1. PoolInv => MissedOnlyIfRobbed
  BY DEF PoolInv
<1> QED
  BY <1>1, PoolInvariant, PTL

-----------------------------------------------------------------------------
\* A task is in one place at a time.

Submitting(x) == \E t \in Threads : func[t] = x
Held(x) == \E w \in Workers : task[w] = x

\* A task is at one position of one queue.
QueuedOnce ==
    \A x \in Tasks : \A j, k \in Queues : \A a \in DOMAIN q[j], b \in DOMAIN q[k] :
        q[j][a] = x /\ q[k][b] = x => j = k /\ a = b

\* Two threads do not submit, and two workers do not hold, the same task, and only
\* who is in the code between getting it and giving it away.
HeldOnce ==
    /\ \A t \in Threads : func[t] # NoItem => pc[t] \in {"submit", "push"}
    /\ \A w \in Workers : task[w] # NoItem => pc[w] \in {"check", "run", "submit", "push"}
    /\ \A t, u \in Threads : func[t] # NoItem /\ func[t] = func[u] => t = u
    /\ \A v, w \in Workers : task[v] \in Tasks /\ task[v] = task[w] => v = w

\* The places exclude one another.
Apart ==
    \A x \in Tasks :
        /\ x \in unsent => ~Submitting(x) /\ ~Queued(x) /\ ~Held(x) /\ x \notin refused \cup done
        /\ Submitting(x) => ~Queued(x) /\ ~Held(x) /\ x \notin refused \cup done
        /\ Queued(x) => ~Held(x) /\ x \notin refused \cup done
        /\ Held(x) => x \notin refused \cup done
        /\ x \notin refused \cap done

OnePlace == QueuedOnce /\ HeldOnce /\ Apart

RefinementInv == PoolInv /\ OnePlace

-----------------------------------------------------------------------------
\* The queues.

LEMMA QueuedAfterPush ==
    ASSUME QueueTypeOK, QueuedOnce, NEW t \in Threads, NEW k \in Queues, NEW v \in Items,
           PushEnqueue(t, k, v), v \in Tasks => ~Queued(v)
    PROVE  /\ \A x \in Tasks : Queued(x)' <=> Queued(x) \/ x = v
           /\ QueuedOnce'
<1> USE DEF QueueTypeOK
<1>1. q' = [q EXCEPT ![k] = Append(@, v)]
  BY DEF PushEnqueue
<1>2. \A j \in Queues : j # k => q'[j] = q[j]
  BY <1>1
<1>3. /\ DOMAIN q'[k] = DOMAIN q[k] \cup {Len(q[k]) + 1}
      /\ q'[k][Len(q[k]) + 1] = v
      /\ \A i \in DOMAIN q[k] : q'[k][i] = q[k][i]
      /\ Len(q[k]) + 1 \notin DOMAIN q[k]
  BY <1>1
<1>n. \A x \in Tasks, j \in Queues : \A i \in DOMAIN q'[j] :
         q'[j][i] = x => (i \in DOMAIN q[j] /\ q[j][i] = x)
                           \/ (x = v /\ j = k /\ i = Len(q[k]) + 1)
  BY <1>2, <1>3
<1>o. \A x \in Tasks, j \in Queues : \A i \in DOMAIN q[j] :
         q[j][i] = x => i \in DOMAIN q'[j] /\ q'[j][i] = x
  <2> SUFFICES ASSUME NEW j \in Queues, NEW i \in DOMAIN q[j]
               PROVE  i \in DOMAIN q'[j] /\ q'[j][i] = q[j][i]
    OBVIOUS
  <2> QED
    BY <1>2, <1>3
<1>4. \A x \in Tasks : Queued(x)' <=> Queued(x) \/ x = v
  <2>1. \A x \in Tasks : Queued(x)' => Queued(x) \/ x = v
    BY <1>n DEF Queued
  <2>2. \A x \in Tasks : Queued(x) => Queued(x)'
    BY <1>o DEF Queued
  <2>3. Queued(v)'
    BY <1>3 DEF Queued
  <2> QED
    BY <2>1, <2>2, <2>3
<1>5. ASSUME NEW x \in Tasks, NEW i \in Queues, NEW j \in Queues,
             NEW a \in DOMAIN q'[i], NEW b \in DOMAIN q'[j], q'[i][a] = x, q'[j][b] = x
      PROVE  i = j /\ a = b
  <2>1. CASE x = v
    <3>1. ~Queued(x)
      BY <2>1
    <3>2. \A m \in Queues : \A c \in DOMAIN q[m] : q[m][c] # x
      BY <3>1 DEF Queued
    <3> QED
      BY <1>n, <1>5, <3>2
  <2>2. CASE x # v
    <3>1. a \in DOMAIN q[i] /\ q[i][a] = x
      BY <1>n, <1>5, <2>2
    <3>2. b \in DOMAIN q[j] /\ q[j][b] = x
      BY <1>n, <1>5, <2>2
    <3> QED
      BY <3>1, <3>2 DEF QueuedOnce
  <2> QED
    BY <2>1, <2>2
<1> QED
  BY <1>4, <1>5 DEF QueuedOnce

LEMMA QueuedAfterTake ==
    ASSUME QueueTypeOK, QueuedOnce, NEW k \in Queues, q[k] # <<>>,
           q' = [q EXCEPT ![k] = Tail(@)]
    PROVE  /\ \A x \in Tasks : Queued(x)' <=> Queued(x) /\ x # Head(q[k])
           /\ QueuedOnce'
           /\ Head(q[k]) \in Items
           /\ Queued(Head(q[k]))
<1> USE DEF QueueTypeOK
<1>1. \A j \in Queues : j # k => q'[j] = q[j]
  OBVIOUS
<1>2. /\ 1 \in DOMAIN q[k] /\ q[k][1] = Head(q[k])
      /\ \A i \in DOMAIN q'[k] : i + 1 \in DOMAIN q[k] /\ i + 1 # 1 /\ q'[k][i] = q[k][i + 1]
      /\ \A i \in DOMAIN q[k] : i # 1 => i - 1 \in DOMAIN q'[k] /\ q'[k][i - 1] = q[k][i]
      /\ Head(q[k]) \in Items
  OBVIOUS
<1>3. Queued(Head(q[k]))
  BY <1>2 DEF Queued
<1>4. ASSUME NEW x \in Tasks, Queued(x)'
      PROVE  Queued(x) /\ x # Head(q[k])
  <2>1. PICK j \in Queues : \E i \in DOMAIN q'[j] : q'[j][i] = x
    BY <1>4 DEF Queued
  <2>2. PICK i \in DOMAIN q'[j] : q'[j][i] = x
    BY <2>1
  <2>3. CASE j # k
    <3>1. i \in DOMAIN q[j] /\ q[j][i] = x
      BY <1>1, <2>2, <2>3
    <3> QED
      BY <1>2, <2>3, <3>1 DEF Queued, QueuedOnce
  <2>4. CASE j = k
    <3>1. i + 1 \in DOMAIN q[k] /\ i + 1 # 1 /\ q[k][i + 1] = x
      BY <1>2, <2>2, <2>4
    <3> QED
      BY <1>2, <3>1 DEF Queued, QueuedOnce
  <2> QED
    BY <2>3, <2>4
<1>5. ASSUME NEW x \in Tasks, Queued(x), x # Head(q[k])
      PROVE  Queued(x)'
  <2>1. PICK j \in Queues : \E i \in DOMAIN q[j] : q[j][i] = x
    BY <1>5 DEF Queued
  <2>2. PICK i \in DOMAIN q[j] : q[j][i] = x
    BY <2>1
  <2>3. CASE j # k
    BY <1>1, <2>2, <2>3 DEF Queued
  <2>4. CASE j = k
    BY <1>2, <1>5, <2>2, <2>4 DEF Queued
  <2> QED
    BY <2>3, <2>4
<1>6. ASSUME NEW x \in Tasks, NEW i \in Queues, NEW j \in Queues,
             NEW a \in DOMAIN q'[i], NEW b \in DOMAIN q'[j], q'[i][a] = x, q'[j][b] = x
      PROVE  i = j /\ a = b
  <2> DEFINE old(m, c) == IF m = k THEN c + 1 ELSE c
  <2>1. old(i, a) \in DOMAIN q[i] /\ q[i][old(i, a)] = x
    BY <1>1, <1>2, <1>6
  <2>2. old(j, b) \in DOMAIN q[j] /\ q[j][old(j, b)] = x
    BY <1>1, <1>2, <1>6
  <2>3. i = j /\ old(i, a) = old(j, b)
    <3> HIDE DEF old
    <3> QED
      BY <2>1, <2>2 DEF QueuedOnce
  <2>4. a \in Int /\ b \in Int
    OBVIOUS
  <2> QED
    BY <2>3, <2>4
<1> QED
  BY <1>2, <1>3, <1>4, <1>5, <1>6 DEF QueuedOnce
-----------------------------------------------------------------------------
\* The status of a task.

\* It depends on where the task is and not on which thread has it.
LEMMA StatusKept ==
    ASSUME NEW x \in Tasks,
           (x \in unsent \/ Submitting(x)) <=> (x \in unsent' \/ Submitting(x)'),
           x \in refused <=> x \in refused', x \in done <=> x \in done',
           Running(x) <=> Running(x)',
           (Queued(x) \/ InHand(x)) <=> (Queued(x)' \/ InHand(x)')
    PROVE  Status'[x] = Status[x]
BY DEF Status, Submitting

\* Where nothing is moved.
LEMMA QuietStep ==
    ASSUME RefinementInv, UNCHANGED <<func, task, unsent, refused, done>>,
           \A x \in Tasks : Queued(x)' <=> Queued(x),
           QueuedOnce',
           \A t \in Threads : func[t] # NoItem => pc'[t] \in {"submit", "push"},
           \A w \in Workers : task[w] # NoItem =>
               /\ pc'[w] \in {"check", "run", "submit", "push"}
               /\ pc'[w] = "check" <=> pc[w] = "check"
    PROVE  OnePlace' /\ Status' = Status
<1> USE PoolAssumption, NoItemAssumption DEF RefinementInv, OnePlace
<1>1. HeldOnce'
  BY DEF HeldOnce
<1>2. \A x \in Tasks : (Submitting(x)' <=> Submitting(x)) /\ (Held(x)' <=> Held(x))
  BY DEF Submitting, Held
<1>3. Apart'
  BY <1>2 DEF Apart
<1>4. ASSUME NEW x \in Tasks
      PROVE  Status'[x] = Status[x]
  <2>1. InHand(x)' <=> InHand(x)
    BY DEF InHand
  <2>2. Running(x)' <=> Running(x)
    BY DEF Running, HeldOnce
  <2> QED
    BY <1>2, <2>1, <2>2, StatusKept
<1>5. Status' = Status
  BY <1>4 DEF Status
<1> QED
  BY <1>1, <1>3, <1>5

LEMMA SameQueues ==
    ASSUME OnePlace, q' = q
    PROVE  QueuedOnce' /\ \A x \in Tasks : Queued(x)' <=> Queued(x)
BY DEF OnePlace, QueuedOnce, Queued

\* What becomes of one task, all others staying where they are.
LEMMA StatusMoves ==
    ASSUME NEW x \in Tasks, NEW s, Status'[x] = s,
           \A y \in Tasks : y # x => Status'[y] = Status[y]
    PROVE  Status' = [Status EXCEPT ![x] = s]
<1>1. Status = [y \in Tasks |-> Status[y]] /\ Status' = [y \in Tasks |-> Status'[y]]
  BY DEF Status
<1>2. \A y \in Tasks : Status'[y] = [Status EXCEPT ![x] = s][y]
  BY <1>1
<1>3. [Status EXCEPT ![x] = s] = [y \in Tasks |-> [Status EXCEPT ![x] = s][y]]
  BY <1>1
<1> QED
  BY <1>1, <1>2, <1>3
-----------------------------------------------------------------------------
\* The steps of a worker.

PoolStep == Pool!PoolNext \/ UNCHANGED Pool!poolVars

LEMMA QuietRefines ==
    ASSUME Status' = Status, UNCHANGED <<starts, stopping>>
    PROVE  PoolStep
BY DEF PoolStep, Pool!poolVars

\* A worker without a task begins to run x, which it has taken from queue k.
LEMMA TakesAndCalls ==
    ASSUME RefinementInv, NEW w \in Workers, NEW k \in Queues, NEW x, x = Head(q[k]),
           pc[w] \in {"own", "steal"}, TryPop(w, k), Calls(w, x),
           UNCHANGED <<func, unsent, refused, done, stopping>>
    PROVE  OnePlace' /\ PoolStep
<1> USE PoolAssumption, NoItemAssumption DEF RefinementInv, OnePlace
<1>1. /\ \A y \in Tasks : Queued(y)' <=> Queued(y) /\ y # x
      /\ QueuedOnce' /\ x \in Items /\ Queued(x)
  BY QueuedAfterTake DEF TryPop, PoolInv, TypeOK
<1>2. /\ task[w] = NoItem /\ func[w] = NoItem
      /\ task' = [task EXCEPT ![w] = x] /\ pc' = [pc EXCEPT ![w] = "run"]
  <2>1. task[w] \in Items \cup {NoItem} /\ func[w] \in Tasks \cup {NoItem}
    BY DEF PoolInv, TypeOK
  <2> QED
    BY <2>1 DEF HeldOnce, Calls, Goto
<1>3. /\ task'[w] = x /\ pc'[w] = "run"
      /\ \A u \in Workers : u # w => task'[u] = task[u]
      /\ \A t \in Threads : t # w => pc'[t] = pc[t]
  BY <1>2 DEF PoolInv, TypeOK
<1>4. x \in Tasks => ~Held(x) /\ ~Submitting(x) /\ x \notin unsent \cup refused \cup done
  BY <1>1 DEF Apart
<1>5. HeldOnce'
  BY <1>1, <1>2, <1>3, <1>4 DEF HeldOnce, Held
<1>6. \A y \in Tasks : (Held(y)' <=> Held(y) \/ y = x) /\ (Submitting(y)' <=> Submitting(y))
  BY <1>2, <1>3 DEF Held, Submitting
<1>7. Apart'
  BY <1>1, <1>4, <1>6 DEF Apart
<1>8. ASSUME NEW y \in Tasks, y # x
      PROVE  Status'[y] = Status[y]
  <2>1. InHand(y)' <=> InHand(y)
    BY <1>2, <1>3, <1>8 DEF InHand
  <2>2. Running(y)' <=> Running(y)
    BY <1>2, <1>3, <1>8 DEF Running
  <2> QED
    BY <1>1, <1>6, <1>8, <2>1, <2>2, StatusKept
<1>9. PoolStep
  <2>1. CASE x \in Tasks
    <3>1. Status[x] = "queued"
      <4>1. ~Running(x)
        BY <1>4, <2>1 DEF Running, Held
      <4> QED
        BY <1>1, <1>4, <2>1, <4>1 DEF Status, Submitting
    <3>2. Status'[x] = "running"
      <4>1. Running(x)'
        BY <1>3 DEF Running
      <4>2. ~Submitting(x)' /\ x \notin unsent' /\ x \notin refused' /\ x \notin done'
        BY <1>4, <1>6, <2>1
      <4>3. ~Queued(x)' /\ ~InHand(x)'
        BY <1>1, <1>3, <1>4, <2>1 DEF InHand, Held
      <4> QED
        BY <2>1, <4>1, <4>2, <4>3 DEF Status, Submitting
    <3>3. Status' = [Status EXCEPT ![x] = "running"]
      BY <1>8, <2>1, <3>2, StatusMoves
    <3>4. starts' = [starts EXCEPT ![x] = @ + 1]
      BY <2>1 DEF Calls, PoolInv, TypeOK
    <3>5. Pool!Start(x)
      BY <3>1, <3>3, <3>4 DEF Pool!Start, Pool!Become
    <3> QED
      BY <2>1, <3>5 DEF PoolStep, Pool!PoolNext
  <2>2. CASE x \notin Tasks
    <3>1. Status' = Status
      <4>1. \A y \in Tasks : Status'[y] = Status[y]
        BY <1>8, <2>2
      <4> QED
        BY <4>1 DEF Status
    <3>2. starts' = starts
      BY <2>2 DEF Calls, PoolInv, TypeOK
    <3> QED
      BY <3>1, <3>2, QuietRefines
  <2> QED
    BY <2>1, <2>2
<1> QED
  BY <1>1, <1>5, <1>7, <1>9

\* A worker takes a task out of its own queue and looks at `stopping` next.
LEMMA PopRefines ==
    ASSUME RefinementInv, NEW w \in Workers, WorkerPops(w)
    PROVE  OnePlace' /\ PoolStep
<1> USE PoolAssumption, NoItemAssumption DEF RefinementInv, OnePlace, WorkerPops
<1>0. PICK x : x = Head(q[w])
  OBVIOUS
<1>1. /\ \A y \in Tasks : Queued(y)' <=> Queued(y) /\ y # x
      /\ QueuedOnce' /\ x \in Items /\ Queued(x)
  BY <1>0, QueuedAfterTake DEF PopTake, PoolInv, TypeOK
<1>2. /\ task[w] = NoItem /\ func[w] = NoItem
      /\ task' = [task EXCEPT ![w] = x] /\ pc' = [pc EXCEPT ![w] = "check"]
  <2>1. task[w] \in Items \cup {NoItem} /\ func[w] \in Tasks \cup {NoItem}
    BY DEF PoolInv, TypeOK
  <2> QED
    BY <1>0, <2>1 DEF HeldOnce, Goto
<1>3. /\ task'[w] = x /\ pc'[w] = "check"
      /\ \A u \in Workers : u # w => task'[u] = task[u]
      /\ \A t \in Threads : t # w => pc'[t] = pc[t]
  BY <1>2 DEF PoolInv, TypeOK
<1>4. x \in Tasks => ~Held(x) /\ ~Submitting(x) /\ x \notin unsent \cup refused \cup done
  BY <1>1 DEF Apart
<1>5. HeldOnce'
  BY <1>1, <1>2, <1>3, <1>4 DEF HeldOnce, Held
<1>6. \A y \in Tasks : (Held(y)' <=> Held(y) \/ y = x) /\ (Submitting(y)' <=> Submitting(y))
  BY <1>2, <1>3 DEF Held, Submitting
<1>7. Apart'
  BY <1>1, <1>4, <1>6 DEF Apart
<1>8. ASSUME NEW y \in Tasks
      PROVE  Status'[y] = Status[y]
  <2>1. InHand(y)' <=> InHand(y) \/ y = x
    BY <1>2, <1>3 DEF InHand
  <2>2. Running(y)' <=> Running(y)
    BY <1>2, <1>3 DEF Running
  <2>3. (Queued(y)' \/ InHand(y)') <=> (Queued(y) \/ InHand(y))
    BY <1>1, <2>1
  <2> QED
    BY <1>6, <2>2, <2>3, StatusKept
<1>9. Status' = Status
  BY <1>8 DEF Status
<1> QED
  BY <1>1, <1>5, <1>7, <1>9, QuietRefines

\* A worker calls what it has popped.
LEMMA CallRefines ==
    ASSUME RefinementInv, NEW w \in Workers, WorkerCalls(w)
    PROVE  OnePlace' /\ PoolStep
<1> USE PoolAssumption, NoItemAssumption DEF RefinementInv, OnePlace, WorkerCalls
<1>0. PICK x \in Items : x = task[w]
  BY DEF PoolInv, ControlConsistent
<1>1. QueuedOnce' /\ \A y \in Tasks : Queued(y)' <=> Queued(y)
  BY SameQueues DEF queueVars
<1>2. /\ task' = task /\ func[w] = NoItem /\ pc'[w] = "run"
      /\ \A t \in Threads : t # w => pc'[t] = pc[t]
  BY DEF PoolInv, TypeOK, HeldOnce, Calls, Goto
<1>3. HeldOnce'
  BY <1>2 DEF HeldOnce
<1>4. \A y \in Tasks : (Held(y)' <=> Held(y)) /\ (Submitting(y)' <=> Submitting(y))
  BY <1>2 DEF Held, Submitting
<1>5. Apart'
  BY <1>1, <1>4 DEF Apart
<1>6. ASSUME NEW y \in Tasks, y # x
      PROVE  Status'[y] = Status[y]
  <2>1. (InHand(y)' <=> InHand(y)) /\ (Running(y)' <=> Running(y))
    BY <1>0, <1>2, <1>6 DEF InHand, Running
  <2> QED
    BY <1>1, <1>4, <2>1, StatusKept
<1>7. PoolStep
  <2>1. CASE x \in Tasks
    <3>1. Held(x) /\ InHand(x) /\ ~Running(x)
      BY <1>0, <2>1 DEF Held, InHand, Running, HeldOnce
    <3>2. Running(x)' /\ ~InHand(x)'
      BY <1>0, <1>2, <2>1 DEF Running, InHand, HeldOnce
    <3>3. /\ ~Submitting(x) /\ x \notin unsent /\ x \notin refused /\ x \notin done
          /\ ~Queued(x)
      BY <2>1, <3>1 DEF Apart
    <3>4. Status[x] = "queued"
      BY <2>1, <3>1, <3>3 DEF Status, Submitting
    <3>5. Status'[x] = "running"
      BY <1>1, <1>4, <2>1, <3>2, <3>3 DEF Status, Submitting
    <3>6. Status' = [Status EXCEPT ![x] = "running"]
      BY <1>6, <2>1, <3>5, StatusMoves
    <3>7. starts' = [starts EXCEPT ![x] = @ + 1]
      BY <1>0, <2>1 DEF Calls, PoolInv, TypeOK
    <3>8. Pool!Start(x)
      BY <3>4, <3>6, <3>7 DEF Pool!Start, Pool!Become
    <3> QED
      BY <2>1, <3>8 DEF PoolStep, Pool!PoolNext
  <2>2. CASE x \notin Tasks
    <3>1. Status' = Status
      <4>1. \A y \in Tasks : Status'[y] = Status[y]
        BY <1>6, <2>2
      <4> QED
        BY <4>1 DEF Status
    <3>2. starts' = starts
      BY <1>0, <2>2 DEF Calls, PoolInv, TypeOK
    <3> QED
      BY <3>1, <3>2, QuietRefines
  <2> QED
    BY <2>1, <2>2
<1> QED
  BY <1>1, <1>3, <1>5, <1>7

\* A worker gets rid of x, which may be done with that.
LetsGo(w, x) ==
    /\ x = task[w] /\ task' = [task EXCEPT ![w] = NoItem]
    /\ pc[w] \in {"check", "run"} /\ pc'[w] \in {"loop", "exit"}
    /\ \A t \in Threads : t # w => pc'[t] = pc[t]
    /\ \A y \in Tasks : y # x => (y \in done' <=> y \in done)
    /\ UNCHANGED <<q, func, unsent, refused>>

LEMMA LetGo ==
    ASSUME RefinementInv, NEW w \in Workers, NEW x, LetsGo(w, x)
    PROVE  /\ OnePlace'
           /\ \A y \in Tasks : y # x => Status'[y] = Status[y]
           /\ x \in Tasks =>
                /\ pc[w] = "run" => Status[x] = "running"
                /\ pc[w] = "check" => Status[x] = "queued"
                /\ x \in done' => Status'[x] = "done"
                /\ x \notin done' => Status'[x] = "dropped"
<1> USE PoolAssumption, NoItemAssumption DEF RefinementInv, OnePlace, LetsGo
<1>1. QueuedOnce' /\ \A y \in Tasks : Queued(y)' <=> Queued(y)
  BY SameQueues
<1>2. /\ func[w] = NoItem /\ task'[w] = NoItem
      /\ \A u \in Workers : u # w => task'[u] = task[u]
  BY DEF PoolInv, TypeOK, HeldOnce
<1>3. HeldOnce'
  BY <1>2 DEF HeldOnce
<1>4. \A y \in Tasks : (Held(y)' <=> Held(y) /\ y # x) /\ (Submitting(y)' <=> Submitting(y))
  BY <1>2 DEF Held, Submitting, HeldOnce
<1>h. x \in Tasks => Held(x)
  BY DEF Held
<1>5. Apart'
  BY <1>1, <1>4, <1>h DEF Apart
<1>6. ASSUME NEW y \in Tasks, y # x
      PROVE  Status'[y] = Status[y]
  <2>1. (InHand(y)' <=> InHand(y)) /\ (Running(y)' <=> Running(y))
    BY <1>2, <1>6 DEF InHand, Running
  <2>2. y \in done' <=> y \in done
    BY <1>6
  <2> QED
    BY <1>1, <1>4, <2>1, <2>2, StatusKept
<1>7. ASSUME x \in Tasks
      PROVE  /\ pc[w] = "run" => Status[x] = "running"
             /\ pc[w] = "check" => Status[x] = "queued"
             /\ x \in done' => Status'[x] = "done"
             /\ x \notin done' => Status'[x] = "dropped"
  <2>1. /\ ~Submitting(x) /\ x \notin unsent /\ x \notin refused /\ x \notin done
        /\ ~Queued(x)
    BY <1>7, <1>h DEF Apart
  <2>2. ~Running(x)' /\ ~InHand(x)'
    <3>1. ~Held(x)'
      BY <1>4, <1>7
    <3> QED
      BY <3>1 DEF Held, Running, InHand
  <2>3. /\ pc[w] = "run" => Running(x) /\ ~InHand(x)
        /\ pc[w] = "check" => InHand(x) /\ ~Running(x)
    BY <1>7 DEF Running, InHand, HeldOnce
  <2>4. (pc[w] = "run" => Status[x] = "running") /\ (pc[w] = "check" => Status[x] = "queued")
    BY <1>7, <2>1, <2>3 DEF Status, Submitting
  <2>5. (x \in done' => Status'[x] = "done") /\ (x \notin done' => Status'[x] = "dropped")
    BY <1>1, <1>4, <1>7, <2>1, <2>2 DEF Status, Submitting
  <2> QED
    BY <2>4, <2>5
<1> QED
  BY <1>1, <1>3, <1>5, <1>6, <1>7

LEMMA LeaveRefines ==
    ASSUME RefinementInv, NEW w \in Workers, WorkerLeaves(w)
    PROVE  OnePlace' /\ PoolStep
<1> USE PoolAssumption
<1>0. PICK x : x = task[w]
  OBVIOUS
<1>1. /\ pc[w] = "check" /\ LetsGo(w, x)
      /\ UNCHANGED <<starts, stopping, done>> /\ stopping
  BY <1>0 DEF RefinementInv, PoolInv, TypeOK, WorkerLeaves, Goto, queueVars, LetsGo
<1>2. OnePlace' /\ \A y \in Tasks : y # x => Status'[y] = Status[y]
  BY <1>1, LetGo
<1>3. x \in Tasks => x \notin done'
  BY <1>0, <1>1 DEF RefinementInv, OnePlace, Apart, Held
<1>4. x \in Tasks => Status[x] = "queued" /\ Status'[x] = "dropped"
  BY <1>1, <1>3, LetGo
<1>5. CASE x \in Tasks
  <2>1. Status' = [Status EXCEPT ![x] = "dropped"]
    BY <1>2, <1>4, <1>5, StatusMoves
  <2>2. Pool!Discard(x)
    BY <1>1, <1>4, <1>5, <2>1 DEF Pool!Discard, Pool!Become
  <2> QED
    BY <1>2, <1>5, <2>2 DEF PoolStep, Pool!PoolNext
<1>6. CASE x \notin Tasks
  <2>1. Status' = Status
    <3>1. \A y \in Tasks : Status'[y] = Status[y]
      BY <1>2, <1>6
    <3> QED
      BY <3>1 DEF Status
  <2> QED
    BY <1>1, <1>2, <2>1, QuietRefines
<1> QED
  BY <1>5, <1>6

LEMMA FinishRefines ==
    ASSUME RefinementInv, NEW w \in Workers, WorkerFinishes(w)
    PROVE  OnePlace' /\ PoolStep
<1> USE PoolAssumption
<1>0. PICK x : x = task[w]
  OBVIOUS
<1>1. /\ pc[w] = "run" /\ LetsGo(w, x)
      /\ UNCHANGED <<starts, stopping>>
  BY <1>0 DEF RefinementInv, PoolInv, TypeOK, WorkerFinishes, Goto, queueVars, LetsGo
<1>2. OnePlace' /\ \A y \in Tasks : y # x => Status'[y] = Status[y]
  BY <1>1, LetGo
<1>3. x \in Tasks => x \in done'
  BY <1>0 DEF WorkerFinishes
<1>4. x \in Tasks => Status[x] = "running" /\ Status'[x] = "done"
  BY <1>1, <1>3, LetGo
<1>5. CASE x \in Tasks
  <2>1. Status' = [Status EXCEPT ![x] = "done"]
    BY <1>2, <1>4, <1>5, StatusMoves
  <2>2. Pool!Finish(x)
    BY <1>1, <1>4, <1>5, <2>1 DEF Pool!Finish, Pool!Become
  <2> QED
    BY <1>2, <1>5, <2>2 DEF PoolStep, Pool!PoolNext
<1>6. CASE x \notin Tasks
  <2>1. Status' = Status
    <3>1. \A y \in Tasks : Status'[y] = Status[y]
      BY <1>2, <1>6
    <3> QED
      BY <3>1 DEF Status
  <2> QED
    BY <1>1, <1>2, <2>1, QuietRefines
<1> QED
  BY <1>5, <1>6

LEMMA WorkerRefines ==
    ASSUME RefinementInv, NEW w \in Workers, worker(w)
    PROVE  OnePlace' /\ PoolStep
<1> USE PoolAssumption
<1>1. CASE WorkerTakesOwn(w)
  BY <1>1, TakesAndCalls DEF WorkerTakesOwn
<1>2. CASE WorkerSteals(w)
  <2>1. Head(victims[w]) \in Queues
    BY <1>2 DEF WorkerSteals, RefinementInv, PoolInv, TypeOK
  <2> QED
    BY <1>2, <2>1, TakesAndCalls DEF WorkerSteals
<1>3. CASE \/ WorkerLoops(w) \/ WorkerFindsOwnEmpty(w) \/ WorkerFindsVictimEmpty(w)
           \/ WorkerGivesUp(w) \/ WorkerBlocks(w)
  <2>1. q' = q /\ UNCHANGED <<func, task, unsent, refused, done, starts, stopping>>
    BY <1>3 DEF WorkerLoops, WorkerFindsOwnEmpty, WorkerFindsVictimEmpty, WorkerGivesUp,
                WorkerBlocks, TryPopFails, PopBlock, queueVars, poolVars
  <2>2. /\ pc[w] \notin {"submit", "push", "check", "run"}
        /\ \A t \in Threads : t # w => pc'[t] = pc[t]
    BY <1>3 DEF WorkerLoops, WorkerFindsOwnEmpty, WorkerFindsVictimEmpty, WorkerGivesUp,
                WorkerBlocks, poolVars, Goto, RefinementInv, PoolInv, TypeOK
  <2>3. /\ \A t \in Threads : func[t] # NoItem => pc'[t] \in {"submit", "push"}
        /\ \A u \in Workers : task[u] # NoItem =>
              /\ pc'[u] \in {"check", "run", "submit", "push"}
              /\ pc'[u] = "check" <=> pc[u] = "check"
    BY <2>2 DEF RefinementInv, OnePlace, HeldOnce
  <2>4. QueuedOnce' /\ \A x \in Tasks : Queued(x)' <=> Queued(x)
    BY <2>1, SameQueues DEF RefinementInv
  <2>5. OnePlace' /\ Status' = Status
    BY <2>1, <2>3, <2>4, QuietStep
  <2> QED
    BY <2>1, <2>5, QuietRefines
<1> QED
  BY <1>1, <1>2, <1>3, PopRefines, CallRefines, LeaveRefines, FinishRefines DEF worker

-----------------------------------------------------------------------------
\* submit()

LEMMA SubmitCalledRefines ==
    ASSUME RefinementInv, NEW t \in Threads, NEW x \in Tasks, SubmitCalled(t, x)
    PROVE  OnePlace' /\ PoolStep
<1> USE PoolAssumption, NoItemAssumption DEF RefinementInv, OnePlace
<1>1. /\ q' = q /\ UNCHANGED <<task, refused, done, starts, stopping>>
      /\ x \in unsent /\ unsent' = unsent \ {x}
  BY DEF SubmitCalled, queueVars
<1>2. /\ pc[t] \in {"idle", "run"} /\ (t \in Workers => pc[t] = "run") /\ pc'[t] = "submit"
      /\ \A u \in Threads : u # t => pc'[u] = pc[u]
  BY DEF SubmitCalled, AfterSubmit, Goto, PoolInv, TypeOK
<1>3. /\ func[t] = NoItem /\ func'[t] = x
      /\ \A u \in Threads : u # t => func'[u] = func[u]
  BY <1>2 DEF SubmitCalled, HeldOnce, PoolInv, TypeOK
<1>4. QueuedOnce' /\ \A y \in Tasks : Queued(y)' <=> Queued(y)
  BY <1>1, SameQueues
<1>5. /\ ~Submitting(x) /\ ~Queued(x) /\ ~Held(x) /\ x \notin refused \cup done
  BY <1>1 DEF Apart
<1>6. \A y \in Tasks : (Held(y)' <=> Held(y)) /\ (Submitting(y)' <=> Submitting(y) \/ y = x)
  BY <1>1, <1>3 DEF Held, Submitting
<1>7. HeldOnce'
  BY <1>1, <1>2, <1>3, <1>5 DEF HeldOnce, Submitting
<1>8. Apart'
  BY <1>1, <1>4, <1>5, <1>6 DEF Apart
<1>9. ASSUME NEW y \in Tasks
      PROVE  Status'[y] = Status[y]
  <2>1. (InHand(y)' <=> InHand(y)) /\ (Running(y)' <=> Running(y))
    BY <1>1, <1>2 DEF InHand, Running
  <2>2. (y \in unsent' \/ Submitting(y)') <=> (y \in unsent \/ Submitting(y))
    BY <1>1, <1>6
  <2> QED
    BY <1>1, <1>4, <2>1, <2>2, StatusKept
<1>10. Status' = Status
  BY <1>9 DEF Status
<1> QED
  BY <1>1, <1>4, <1>7, <1>8, <1>10, QuietRefines

\* submit() of x returns: it has pushed x, or refused it.
LEMMA SubmitRefines ==
    ASSUME RefinementInv, NEW t \in Threads, submit(t)
    PROVE  OnePlace' /\ PoolStep
<1> USE PoolAssumption, NoItemAssumption DEF RefinementInv, OnePlace
<1>1. CASE SubmitChooses(t)
  <2>1. q' = q /\ UNCHANGED <<func, task, unsent, refused, done, starts, stopping>>
    BY <1>1 DEF SubmitChooses, queueVars
  <2>2. /\ pc[t] = "submit" /\ pc'[t] = "push"
        /\ \A u \in Threads : u # t => pc'[u] = pc[u]
    BY <1>1 DEF SubmitChooses, Goto, PoolInv, TypeOK
  <2>3. /\ \A u \in Threads : func[u] # NoItem => pc'[u] \in {"submit", "push"}
        /\ \A u \in Workers : task[u] # NoItem =>
              /\ pc'[u] \in {"check", "run", "submit", "push"}
              /\ pc'[u] = "check" <=> pc[u] = "check"
    BY <2>2 DEF HeldOnce
  <2>4. QueuedOnce' /\ \A x \in Tasks : Queued(x)' <=> Queued(x)
    BY <2>1, SameQueues
  <2>5. OnePlace' /\ Status' = Status
    <3> HIDE DEF OnePlace
    <3> QED
      BY <2>1, <2>3, <2>4, QuietStep
  <2> QED
    BY <2>1, <2>5, QuietRefines
<1>2. CASE SubmitRefuses(t) \/ SubmitPushes(t)
  <2>0. PICK x \in Tasks : x = func[t]
    BY <1>2 DEF SubmitRefuses, SubmitPushes, PoolInv, ControlConsistent
  <2>1. /\ UNCHANGED <<task, unsent, done, starts, stopping>>
        /\ func' = [func EXCEPT ![t] = NoItem]
    BY <1>2 DEF SubmitRefuses, SubmitPushes, queueVars
  <2>2. /\ pc[t] \in {"submit", "push"} /\ pc'[t] = AfterSubmit(t)
        /\ \A u \in Threads : u # t => pc'[u] = pc[u]
    BY <1>2 DEF SubmitRefuses, SubmitPushes, Goto, PoolInv, TypeOK
  <2>3. /\ ~Queued(x) /\ ~Held(x) /\ x \notin refused /\ x \notin done
        /\ Submitting(x) /\ x \notin unsent
    BY <2>0 DEF Apart, Submitting
  <2>4. func'[t] = NoItem /\ \A u \in Threads : u # t => func'[u] = func[u]
    BY <2>1 DEF PoolInv, TypeOK
  <2>5. \A y \in Tasks : (Held(y)' <=> Held(y)) /\ (Submitting(y)' <=> Submitting(y) /\ y # x)
    BY <2>0, <2>1, <2>4 DEF Held, Submitting, HeldOnce
  <2>6. HeldOnce'
    BY <2>1, <2>2, <2>4 DEF HeldOnce, AfterSubmit
  <2>7. \A y \in Tasks : (InHand(y)' <=> InHand(y)) /\ (Running(y)' <=> Running(y))
    BY <2>1, <2>2 DEF InHand, Running, AfterSubmit
  <2>8. Status[x] = "new"
    <3>1. ~InHand(x) /\ ~Running(x)
      BY <2>3 DEF Held, InHand, Running
    <3> QED
      BY <2>3, <3>1 DEF Status, Submitting
  <2>9. ~InHand(x)' /\ ~Running(x)'
    BY <2>3, <2>7 DEF Held, InHand, Running
  <2>10. CASE SubmitRefuses(t)
    <3>1. q' = q /\ refused' = refused \cup {x} /\ stopping
      BY <2>0, <2>10 DEF SubmitRefuses, queueVars
    <3>2. QueuedOnce' /\ \A y \in Tasks : Queued(y)' <=> Queued(y)
      BY <3>1, SameQueues
    <3>3. Apart'
      BY <2>1, <2>3, <2>5, <3>1, <3>2 DEF Apart
    <3>4. \A y \in Tasks : y # x => Status'[y] = Status[y]
      BY <2>1, <2>5, <2>7, <3>1, <3>2, StatusKept
    <3>5. Status'[x] = "refused"
      BY <2>1, <2>3, <2>5, <2>9, <3>1, <3>2 DEF Status, Submitting
    <3>6. Pool!Refuse(x)
      BY <2>1, <2>8, <3>1, <3>4, <3>5, StatusMoves DEF Pool!Refuse, Pool!Become
    <3> QED
      BY <2>6, <3>2, <3>3, <3>6 DEF PoolStep, Pool!PoolNext
  <2>11. CASE SubmitPushes(t)
    <3>1. refused' = refused /\ idx[t] \in Queues /\ x \in Items /\ PushEnqueue(t, idx[t], x)
      BY <2>0, <2>11 DEF SubmitPushes, PoolInv, TypeOK
    <3>2. QueuedOnce' /\ \A y \in Tasks : Queued(y)' <=> Queued(y) \/ y = x
      BY <2>3, <3>1, QueuedAfterPush DEF PoolInv, TypeOK
    <3>3. Apart'
      BY <2>1, <2>3, <2>5, <3>1, <3>2 DEF Apart
    <3>4. \A y \in Tasks : y # x => Status'[y] = Status[y]
      BY <2>1, <2>5, <2>7, <3>1, <3>2, StatusKept
    <3>5. Status'[x] = "queued"
      BY <2>1, <2>3, <2>5, <2>9, <3>1, <3>2 DEF Status, Submitting
    <3>6. Pool!Accept(x)
      BY <2>1, <2>8, <3>4, <3>5, StatusMoves DEF Pool!Accept, Pool!Become
    <3> QED
      BY <2>6, <3>2, <3>3, <3>6 DEF PoolStep, Pool!PoolNext
  <2> QED
    BY <1>2, <2>10, <2>11
<1> QED
  BY <1>1, <1>2 DEF submit

-----------------------------------------------------------------------------
\* The notifications, the destructor, and the theorems.

LEMMA OtherStepsRefine ==
    ASSUME RefinementInv,
           \/ \E t \in Threads : Notifies(t) \/ WakesSpuriously(t)
           \/ DtorStops \/ destructor \/ UNCHANGED vars
    PROVE  OnePlace' /\ PoolStep
<1> USE PoolAssumption, NoItemAssumption
<1>1. UNCHANGED <<func, task, unsent, refused, done, starts>>
  BY DEF Notifies, WakesSpuriously, DtorStops, destructor, DtorPushes, DtorJoins,
         DtorReturns, vars, poolVars
<1>2. QueuedOnce' /\ \A x \in Tasks : Queued(x)' <=> Queued(x)
  <2>1. CASE DtorPushes
    <3>1. todo \in Queues /\ Main \in Threads /\ Dummy \in Items /\ Dummy \notin Tasks
      BY <2>1 DEF DtorPushes, Workers, RefinementInv, PoolInv, TypeOK
    <3>2. PushEnqueue(Main, todo, Dummy)
      BY <2>1 DEF DtorPushes
    <3>3. QueueTypeOK /\ QueuedOnce
      BY DEF RefinementInv, PoolInv, TypeOK, OnePlace
    <3> QED
      BY <3>1, <3>2, <3>3, QueuedAfterPush
  <2>2. CASE ~DtorPushes
    <3>1. q' = q
      BY <2>2 DEF Notifies, NotifyOne, WakesSpuriously, SpuriousWake, DtorStops, destructor,
                  DtorJoins, DtorReturns, vars, queueVars
    <3> QED
      BY <3>1, SameQueues DEF RefinementInv
  <2> QED
    BY <2>1, <2>2
<1>3. \/ UNCHANGED pc
      \/ pc[Main] \notin {"submit", "push"} /\ \A t \in Threads : t # Main => pc'[t] = pc[t]
  BY DEF Notifies, WakesSpuriously, DtorStops, destructor, DtorPushes, DtorJoins,
         DtorReturns, vars, poolVars, Goto, RefinementInv, PoolInv, TypeOK
<1>4. /\ \A t \in Threads : func[t] # NoItem => pc'[t] \in {"submit", "push"}
      /\ \A w \in Workers : task[w] # NoItem =>
            /\ pc'[w] \in {"check", "run", "submit", "push"}
            /\ pc'[w] = "check" <=> pc[w] = "check"
  BY <1>3 DEF RefinementInv, OnePlace, HeldOnce
<1>5. OnePlace' /\ Status' = Status
  BY <1>1, <1>2, <1>4, QuietStep
<1>6. UNCHANGED stopping \/ (~stopping /\ stopping')
  BY DEF Notifies, WakesSpuriously, DtorStops, destructor, DtorPushes, DtorJoins,
         DtorReturns, vars, poolVars, RefinementInv, PoolInv, ControlConsistent
<1>7. CASE UNCHANGED stopping
  BY <1>1, <1>5, <1>7, QuietRefines
<1>8. CASE ~stopping /\ stopping'
  <2>1. stopping' = TRUE
    BY <1>8 DEF Notifies, WakesSpuriously, DtorStops, destructor, DtorPushes, DtorJoins,
                DtorReturns, vars, poolVars
  <2>2. Pool!Stop
    BY <1>1, <1>5, <1>8, <2>1 DEF Pool!Stop
  <2> QED
    BY <1>5, <2>2 DEF PoolStep, Pool!PoolNext
<1> QED
  BY <1>6, <1>7, <1>8

\* A task is in one place, always.
THEOREM RefinementInvariant == Spec => []RefinementInv
<1>1. Init => OnePlace
  <2> SUFFICES ASSUME Init PROVE OnePlace
    OBVIOUS
  <2>1. /\ \A k \in Queues : DOMAIN q[k] = {}
        /\ \A t \in Threads : func[t] = NoItem
        /\ \A w \in Workers : task[w] = NoItem
        /\ refused = {} /\ done = {}
    BY PoolAssumption DEF Init, QueueInit
  <2> QED
    BY <2>1, PoolAssumption, NoItemAssumption
    DEF OnePlace, QueuedOnce, HeldOnce, Apart, Queued, Submitting, Held
<1>2. RefinementInv /\ [Next]_vars => OnePlace'
  BY WorkerRefines, SubmitRefines, SubmitCalledRefines, OtherStepsRefine DEF Next
<1> QED
  BY <1>1, <1>2, PoolInvariant, PTL DEF Spec, RefinementInv

\* The pool with its thieves does with every task what TaskPool allows: it is
\* accepted or refused, started once, finished, or thrown away by a stopping pool.
THEOREM PoolRefinesTaskPool == Spec => ImplementsTaskPool
<1>1. Init => Pool!PoolInit
  <2> SUFFICES ASSUME Init PROVE Pool!PoolInit
    OBVIOUS
  <2>1. Status = [x \in Tasks |-> "new"]
    <3>1. \A x \in Tasks : x \in unsent
      BY DEF Init
    <3>2. \A x \in Tasks : /\ ~Queued(x) /\ ~Running(x) /\ ~InHand(x)
                           /\ x \notin refused /\ x \notin done
      BY PoolAssumption, NoItemAssumption DEF Init, QueueInit, Queued, Running, InHand
    <3> QED
      BY <3>1, <3>2 DEF Status
  <2> QED
    BY <2>1 DEF Init, Pool!PoolInit
<1>2. RefinementInv /\ [Next]_vars => [Pool!PoolNext]_(Pool!poolVars)
  BY WorkerRefines, SubmitRefines, SubmitCalledRefines, OtherStepsRefine DEF Next, PoolStep
<1> QED
  BY <1>1, <1>2, RefinementInvariant, PTL DEF Spec, ImplementsTaskPool, Pool!PoolSpec

-----------------------------------------------------------------------------

\* A task has been called when, and only when, its status says so.
CalledOnce ==
    /\ Status \in [Tasks -> {"new", "queued", "running", "done", "refused", "dropped"}]
    /\ starts = [x \in Tasks |-> IF Status[x] \in {"running", "done"} THEN 1 ELSE 0]

\* What TaskPool allows keeps it so.
LEMMA CalledOnceKept == CalledOnce /\ [Pool!PoolNext]_(Pool!poolVars) => CalledOnce'
<1> SUFFICES ASSUME CalledOnce, [Pool!PoolNext]_(Pool!poolVars) PROVE CalledOnce'
  OBVIOUS
<1>1. CASE Pool!Stop \/ UNCHANGED Pool!poolVars
  BY <1>1 DEF Pool!Stop, Pool!poolVars, CalledOnce
<1>2. ASSUME NEW x \in Tasks, Pool!Accept(x) \/ Pool!Refuse(x) \/ Pool!Discard(x)
      PROVE CalledOnce'
  BY <1>2 DEF Pool!Accept, Pool!Refuse, Pool!Discard, Pool!Become, CalledOnce
<1>3. ASSUME NEW x \in Tasks, Pool!Start(x) PROVE CalledOnce'
  BY <1>3 DEF Pool!Start, Pool!Become, CalledOnce
<1>4. ASSUME NEW x \in Tasks, Pool!Finish(x) PROVE CalledOnce'
  BY <1>4 DEF Pool!Finish, Pool!Become, CalledOnce
<1> QED
  BY <1>1, <1>2, <1>3, <1>4 DEF Pool!PoolNext

\* Owner and thieves take from the same queues, and yet no task is called twice.
THEOREM NoTaskRunsTwice == Spec => []Pool!StartedAtMostOnce
<1>1. Pool!PoolInit => CalledOnce
  BY DEF Pool!PoolInit, CalledOnce
<1>2. CalledOnce => Pool!StartedAtMostOnce
  <2> SUFFICES ASSUME CalledOnce, NEW x \in Tasks PROVE starts[x] <= 1
    BY DEF Pool!StartedAtMostOnce
  <2>1. starts[x] = 0 \/ starts[x] = 1
    BY DEF CalledOnce
  <2> QED
    BY <2>1
<1> QED
  BY <1>1, <1>2, CalledOnceKept, PoolRefinesTaskPool, PTL DEF ImplementsTaskPool, Pool!PoolSpec
=============================================================================
