--------------------------- MODULE TTLCacheProofs ---------------------------
(***************************************************************************)
(* Theorems about TTLCache, for any threads, keys, calls and times.        *)
(***************************************************************************)
EXTENDS TTLCache, TLAPS

\* Whoever is past the beginning of its loop's body has a key to look for, so
\* KeyOf is a key and counting it keeps gets in its range.
LookingForAKey == \A c \in Consumers : pc[c] # "get" => Consuming(c)

Inv == TypeOK /\ LookingForAKey /\ SleepersMissNothing

\* The key a consumer looks for is a key.
LEMMA KeyOfType ==
    ASSUME TypeOK, NEW c \in Consumers, Consuming(c)
    PROVE  KeyOf(c) \in Keys
  <1>1. Wanted[c] \in Seq(Keys)
    BY CacheAssumption
  <1>2. gets[c] \in Nat /\ gets[c] + 1 \in 1..Len(Wanted[c])
    BY <1>1 DEF TypeOK, Consuming
  <1> QED
    BY <1>1, <1>2 DEF KeyOf

\* The elements of a sequence over S are in S.
LEMMA ElementType ==
    ASSUME NEW S, NEW s \in Seq(S), NEW i \in 1..Len(s)
    PROVE  s[i] \in S
  OBVIOUS

\* The entry a put() would make is an entry.
LEMMA PutType ==
    ASSUME TypeOK, NEW p \in Producers, Producing(p)
    PROVE  /\ PutOf(p).key \in Keys
           /\ [value |-> ValueOf(p), left |-> PutOf(p).ttl] \in Entry
           /\ puts[p] + 1 \in Nat /\ puts[p] + 1 <= Len(Puts[p])
  <1>1. Puts[p] \in Seq([key : Keys, ttl : 1..MaxTTL])
    BY CacheAssumption
  <1>2. puts[p] \in Nat /\ puts[p] + 1 \in 1..Len(Puts[p])
    BY <1>1 DEF TypeOK, Producing
  <1>3. PutOf(p) \in [key : Keys, ttl : 1..MaxTTL]
    BY <1>1, <1>2, ElementType DEF PutOf
  <1>4. ValueOf(p) \in Values
    BY <1>2 DEF ValueOf, Values
  <1>5. PutOf(p).ttl \in -1..MaxTTL
    BY <1>3, CacheAssumption
  <1> QED
    BY <1>2, <1>3, <1>4, <1>5 DEF Entry

\* get() keeps the types and makes no entry fresh.
LEMMA GetKeeps ==
    ASSUME TypeOK, NEW c \in Consumers, Consuming(c), Get(c)
    PROVE  /\ cache' \in [Keys -> Entry \cup {None}]
           /\ last' \in [Consumers -> Values \cup {None}]
           /\ \A k \in Keys : Fresh(k)' => Fresh(k)
  <1>1. KeyOf(c) \in Keys
    BY KeyOfType
  <1>2. cache' \in [Keys -> Entry \cup {None}]
    BY <1>1 DEF TypeOK, Get
  <1>3. \A k \in Keys : cache'[k] = cache[k] \/ cache'[k] = None
    BY <1>1 DEF TypeOK, Get
  <1>4. Fresh(KeyOf(c)) => cache[KeyOf(c)].value \in Values
    BY <1>1 DEF TypeOK, Fresh, Entry
  <1>5. last' \in [Consumers -> Values \cup {None}]
    BY <1>4 DEF TypeOK, Get
  <1> QED
    BY <1>2, <1>3, <1>5 DEF Fresh

\* Going on to the next key keeps the types, and nobody falls asleep.
LEMMA NextKeyKeeps ==
    ASSUME TypeOK, LookingForAKey, NEW c \in Consumers, Consuming(c), NextKey(c)
    PROVE  /\ gets' \in [Consumers -> Nat]
           /\ \A d \in Consumers : gets'[d] <= Len(Wanted[d])
           /\ pc' \in [Consumers -> ConsumerPC]
           /\ deadline' \in [Consumers -> 0..Timeout]
           /\ \A d \in Consumers : pc'[d] # "get" =>
                 pc'[d] = pc[d] /\ gets'[d] = gets[d]
  <1>1. gets' \in [Consumers -> Nat] /\ deadline' \in [Consumers -> 0..Timeout]
    BY CacheAssumption DEF TypeOK, NextKey
  <1>2. \A d \in Consumers : gets'[d] <= Len(Wanted[d])
    <2> TAKE d \in Consumers
    <2>1. Len(Wanted[d]) \in Nat /\ gets[d] \in Nat /\ gets[d] <= Len(Wanted[d])
      BY CacheAssumption DEF TypeOK
    <2>2. CASE d = c
      BY <2>1, <2>2 DEF TypeOK, NextKey, Consuming
    <2>3. CASE d # c
      BY <2>1, <2>3 DEF TypeOK, NextKey
    <2> QED
      BY <2>2, <2>3
  <1>3. /\ pc' \in [Consumers -> ConsumerPC]
        /\ \A d \in Consumers : pc'[d] # "get" => pc'[d] = pc[d] /\ gets'[d] = gets[d]
    BY DEF TypeOK, NextKey, ConsumerPC
  <1> QED
    BY <1>1, <1>2, <1>3

\* Each step keeps the types.
LEMMA TypeStep ==
    ASSUME TypeOK, LookingForAKey, [Next]_vars
    PROVE  TypeOK'
  <1>1. CASE UNCHANGED vars
    BY <1>1 DEF vars, TypeOK
  <1>2. ASSUME NEW p \in Producers, Put(p)
        PROVE  TypeOK'
    <2>1. Producing(p)
      BY <1>2 DEF Put
    <2> DEFINE new == [value |-> ValueOf(p), left |-> PutOf(p).ttl]
    <2>2. PutOf(p).key \in Keys /\ new \in Entry
      BY <2>1, PutType
    <2> HIDE DEF new
    <2>3. cache' = [cache EXCEPT ![PutOf(p).key] = IF @ = None THEN new ELSE @]
      BY <1>2 DEF Put, new
    <2>4. cache' \in [Keys -> Entry \cup {None}]
      BY <2>2, <2>3 DEF TypeOK
    <2>5. puts' \in [Producers -> Nat] /\ \A q \in Producers : puts'[q] <= Len(Puts[q])
      <3>1. puts' = [puts EXCEPT ![p] = puts[p] + 1]
        BY <1>2 DEF Put
      <3>2. puts[p] + 1 \in Nat /\ puts[p] + 1 <= Len(Puts[p])
        BY <2>1, PutType
      <3> QED
        BY <3>1, <3>2 DEF TypeOK
    <2>6. pc' \in [Consumers -> ConsumerPC]
      BY <1>2 DEF Put, TypeOK, ConsumerPC
    <2> QED
      BY <1>2, <2>4, <2>5, <2>6 DEF Put, TypeOK
  <1>3. ASSUME NEW c \in Consumers, consumer(c) \/ Wakes(c)
        PROVE  TypeOK'
    <2>1. CASE Wakes(c) \/ WakesAtDeadline(c)
      BY <2>1 DEF Wakes, WakesAtDeadline, TypeOK, ConsumerPC
    <2>2. CASE GetFinds(c) \/ GetAfterWait(c)
      <3>1. Consuming(c) /\ Get(c) /\ NextKey(c)
        BY <2>2 DEF GetFinds, GetAfterWait, LookingForAKey
      <3> QED
        BY <2>2, <3>1, GetKeeps, NextKeyKeeps DEF GetFinds, GetAfterWait, TypeOK
    <2>3. CASE GetMisses(c)
      <3>1. Consuming(c) /\ Get(c)
        BY <2>3 DEF GetMisses
      <3>2. pc' \in [Consumers -> ConsumerPC]
        BY <2>3 DEF GetMisses, TypeOK, ConsumerPC
      <3> QED
        BY <2>3, <3>1, <3>2, GetKeeps DEF GetMisses, TypeOK
    <2>4. CASE WaitBegins(c)
      BY <2>4, CacheAssumption DEF WaitBegins, TypeOK, ConsumerPC
    <2>5. CASE WaitFinds(c) \/ WaitAgain(c)
      BY <2>5 DEF WaitFinds, WaitAgain, TypeOK, ConsumerPC
    <2>6. CASE WaitTimesOut(c)
      <3>1. Consuming(c) /\ NextKey(c)
        BY <2>6 DEF WaitTimesOut, LookingForAKey
      <3> QED
        BY <2>6, <3>1, NextKeyKeeps DEF WaitTimesOut, TypeOK
    <2> QED
      BY <1>3, <2>1, <2>2, <2>3, <2>4, <2>5, <2>6 DEF consumer
  <1>4. CASE CleanerTests
    BY <1>4 DEF CleanerTests, TypeOK
  <1>5. CASE Sweeps
    BY <1>5 DEF Sweeps, TypeOK
  <1>6. CASE StopsCleanup
    BY <1>6 DEF StopsCleanup, TypeOK
  <1>7. CASE Tick
    <2>1. ASSUME NEW k \in Keys
          PROVE  cache'[k] \in Entry \cup {None}
      <3>1. CASE Fresh(k)
        <4>1. cache[k] \in Entry
          BY <3>1 DEF Fresh, TypeOK
        <4>2. cache[k].left - 1 \in -1..MaxTTL
          BY <3>1, <4>1, CacheAssumption DEF Fresh, Entry
        <4>3. cache'[k] = [cache[k] EXCEPT !.left = cache[k].left - 1]
          BY <1>7, <3>1 DEF Tick
        <4> QED
          BY <4>1, <4>2, <4>3 DEF Entry
      <3>2. CASE ~Fresh(k)
        BY <1>7, <3>2 DEF Tick, TypeOK
      <3> QED
        BY <3>1, <3>2
    <2>2. cache' \in [Keys -> Entry \cup {None}]
      BY <1>7, <2>1 DEF Tick
    <2>3. deadline' \in [Consumers -> 0..Timeout]
      BY <1>7, CacheAssumption DEF Tick, TypeOK
    <2> QED
      BY <1>7, <2>2, <2>3 DEF Tick, TypeOK
  <1> QED
    BY <1>1, <1>2, <1>3, <1>4, <1>5, <1>6, <1>7 DEF Next

\* Each step leaves all who wait with a key to wait for.
LEMMA LookingStep ==
    ASSUME TypeOK, LookingForAKey, [Next]_vars
    PROVE  LookingForAKey'
  <1>1. ASSUME NEW c \in Consumers, consumer(c) \/ Wakes(c)
        PROVE  LookingForAKey'
    <2>1. CASE GetFinds(c) \/ GetAfterWait(c) \/ WaitTimesOut(c)
      BY <2>1 DEF GetFinds, GetAfterWait, WaitTimesOut, NextKey, LookingForAKey,
                  Consuming, TypeOK
    <2>2. CASE GetMisses(c) \/ WaitBegins(c) \/ WakesAtDeadline(c) \/ WaitFinds(c)
               \/ WaitAgain(c) \/ Wakes(c)
      BY <2>2 DEF GetMisses, WaitBegins, WakesAtDeadline, WaitFinds, WaitAgain, Wakes,
                  LookingForAKey, Consuming, TypeOK
    <2> QED
      BY <1>1, <2>1, <2>2 DEF consumer
  <1>2. CASE \E p \in Producers : Put(p)
    BY <1>2 DEF Put, LookingForAKey, Consuming, TypeOK
  <1>3. CASE CleanerTests \/ Sweeps \/ StopsCleanup \/ Tick \/ UNCHANGED vars
    BY <1>3 DEF CleanerTests, Sweeps, StopsCleanup, Tick, vars, LookingForAKey, Consuming
  <1> QED
    BY <1>1, <1>2, <1>3 DEF Next

\* Each step leaves nobody asleep beside a fresh entry of its key: only put()
\* makes an entry fresh, and it wakes everybody.
LEMMA SleepersStep ==
    ASSUME Inv, [Next]_vars
    PROVE  SleepersMissNothing'
  <1> SUFFICES ASSUME NEW d \in Consumers, pc'[d] = "asleep"
               PROVE  ~Fresh(KeyOf(d))'
    BY DEF SleepersMissNothing
  <1> USE DEF Inv
  <1>1. CASE \E p \in Producers : Put(p)
    BY <1>1 DEF Put
  <1>2. ASSUME \A k \in Keys : Fresh(k)' => Fresh(k), gets'[d] = gets[d],
               ~Fresh(KeyOf(d)), Consuming(d)
        PROVE  ~Fresh(KeyOf(d))'
    BY <1>2, KeyOfType DEF KeyOf
  <1>3. ASSUME pc[d] = "asleep"
        PROVE  ~Fresh(KeyOf(d)) /\ Consuming(d)
    BY <1>3 DEF SleepersMissNothing, LookingForAKey
  <1>4. ASSUME NEW c \in Consumers, consumer(c) \/ Wakes(c)
        PROVE  ~Fresh(KeyOf(d))'
    <2>1. CASE GetFinds(c) \/ GetAfterWait(c)
      <3>1. Consuming(c) /\ Get(c) /\ NextKey(c)
        BY <2>1 DEF GetFinds, GetAfterWait, LookingForAKey
      <3> QED
        BY <1>2, <1>3, <3>1, GetKeeps, NextKeyKeeps
    <2>2. CASE GetMisses(c)
      <3>1. Consuming(c) /\ Get(c) /\ gets' = gets /\ pc[d] = "asleep"
        BY <2>2 DEF GetMisses, TypeOK
      <3> QED
        BY <1>2, <1>3, <3>1, GetKeeps
    <2>3. CASE WaitBegins(c) \/ WaitAgain(c)
      <3>1. cache' = cache /\ gets' = gets
        BY <2>3 DEF WaitBegins, WaitAgain
      <3>2. Fresh(KeyOf(d))' = Fresh(KeyOf(d))
        BY <3>1 DEF Fresh, KeyOf
      <3>3. CASE d = c
        BY <2>3, <3>2, <3>3 DEF WaitBegins, WaitAgain, TypeOK
      <3>4. CASE d # c
        <4>1. pc[d] = "asleep"
          BY <2>3, <3>4 DEF WaitBegins, WaitAgain, TypeOK
        <4> QED
          BY <1>3, <3>2, <4>1
      <3> QED
        BY <3>3, <3>4
    <2>4. CASE WaitFinds(c) \/ Wakes(c) \/ WakesAtDeadline(c)
      <3>1. cache' = cache /\ gets' = gets /\ pc[d] = "asleep"
        BY <2>4 DEF WaitFinds, Wakes, WakesAtDeadline, TypeOK
      <3> QED
        BY <1>3, <3>1 DEF Fresh, KeyOf
    <2>5. CASE WaitTimesOut(c)
      <3>1. Consuming(c) /\ NextKey(c) /\ cache' = cache
        BY <2>5 DEF WaitTimesOut, LookingForAKey
      <3> QED
        BY <1>2, <1>3, <3>1, NextKeyKeeps DEF Fresh
    <2> QED
      BY <1>4, <2>1, <2>2, <2>3, <2>4, <2>5 DEF consumer
  <1>5. CASE CleanerTests \/ StopsCleanup \/ UNCHANGED vars
    <2>1. cache' = cache /\ gets' = gets /\ pc' = pc
      BY <1>5 DEF CleanerTests, StopsCleanup, vars
    <2> QED
      BY <1>3, <2>1 DEF Fresh, KeyOf
  <1>6. CASE Sweeps \/ Tick
    <2>1. gets' = gets /\ pc' = pc
      BY <1>6 DEF Sweeps, Tick
    <2>2. \A k \in Keys : Fresh(k)' => Fresh(k)
      BY <1>6 DEF Sweeps, Tick, Fresh
    <2> QED
      BY <1>2, <1>3, <2>1, <2>2
  <1> QED
    BY <1>1, <1>4, <1>5, <1>6 DEF Next

\* The inductive invariant of the cache and its threads.
THEOREM CacheInvariant == Spec => []Inv
  <1>1. Init => Inv
    BY CacheAssumption DEF Init, Inv, TypeOK, ConsumerPC, LookingForAKey, SleepersMissNothing
  <1>2. Inv /\ [Next]_vars => Inv'
    BY TypeStep, LookingStep, SleepersStep DEF Inv
  <1> QED
    BY <1>1, <1>2, PTL DEF Spec

\* The variables keep their types: no entry outlives its ttl, and no consumer
\* counts more keys than it looks for, however its waits end.
THEOREM CacheTypeCorrect == Spec => []TypeOK
  <1>1. Inv => TypeOK
    BY DEF Inv
  <1> QED
    BY <1>1, CacheInvariant, PTL

\* Nobody sleeps in wait_for_key() beside a fresh entry of its key.
THEOREM WaitersAreTold == Spec => []SleepersMissNothing
  <1>1. Inv => SleepersMissNothing
    BY DEF Inv
  <1> QED
    BY <1>1, CacheInvariant, PTL

-----------------------------------------------------------------------------
\* The refinement of TTLMap

\* What the map sees of the cache.
Live == [k \in Keys |-> IF Fresh(k) THEN cache[k] ELSE None]

\* A step that changes no fresh entry and makes none, and no result, is none
\* of the map's.
LEMMA LiveSame ==
    ASSUME cache' = cache \/ (\A k \in Keys : IF Fresh(k) THEN cache'[k] = cache[k]
                                                          ELSE ~Fresh(k)')
    PROVE  Live' = Live
  BY DEF Live, Fresh

\* A get() reads the map.
LEMMA GetReads ==
    ASSUME TypeOK, NEW c \in Consumers, Consuming(c), Get(c)
    PROVE  Map!Read(c)
  <1>1. KeyOf(c) \in Keys
    BY KeyOfType
  <1>2. \A k \in Keys : IF Fresh(k) THEN cache'[k] = cache[k] ELSE ~Fresh(k)'
    <2>1. CASE Expired(KeyOf(c))
      <3>1. cache' = [cache EXCEPT ![KeyOf(c)] = None]
        BY <2>1 DEF Get
      <3>2. ~Fresh(KeyOf(c))
        BY <1>1, <2>1 DEF TypeOK, Entry, Fresh, Expired
      <3> QED
        BY <1>1, <3>1, <3>2 DEF Fresh, TypeOK
    <2>2. CASE ~Expired(KeyOf(c))
      BY <2>2 DEF Get, Fresh
    <2> QED
      BY <2>1, <2>2
  <1>3. Live' = Live
    BY <1>2, LiveSame
  <1>4. last' = [last EXCEPT ![c] = IF Live[KeyOf(c)] = None THEN None
                                                              ELSE Live[KeyOf(c)].value]
    BY <1>1 DEF Get, Live, Fresh
  <1> QED
    BY <1>1, <1>3, <1>4 DEF Map!Read, Live

\* A put() stores in the map or leaves it alone.
LEMMA PutStoresOrNot ==
    ASSUME TypeOK, NEW p \in Producers, Put(p)
    PROVE  \/ \E k \in Keys : Map!Store(k)
           \/ UNCHANGED <<Live, last>>
  <1> DEFINE key == PutOf(p).key
             new == [value |-> ValueOf(p), left |-> PutOf(p).ttl]
  <1>1. Producing(p)
    BY DEF Put
  <1>2. key \in Keys /\ new \in Entry /\ ValueOf(p) \in Values
    BY <1>1, PutType DEF Entry
  <1>3. PutOf(p).ttl \in 1..MaxTTL
    <2>1. Puts[p] \in Seq([key : Keys, ttl : 1..MaxTTL])
      BY CacheAssumption
    <2>2. puts[p] + 1 \in 1..Len(Puts[p])
      BY <1>1, <2>1 DEF TypeOK, Producing
    <2>3. PutOf(p) \in [key : Keys, ttl : 1..MaxTTL]
      BY <2>1, <2>2, ElementType DEF PutOf
    <2> QED
      BY <2>3
  <1>4. last' = last /\ cache' = [cache EXCEPT ![key] = IF @ = None THEN new ELSE @]
    BY DEF Put
  <1>5. CASE cache[key] # None
    <2>1. cache' = cache
      BY <1>2, <1>4, <1>5 DEF TypeOK
    <2> QED
      BY <1>4, <2>1, LiveSame
  <1>6. CASE cache[key] = None
    <2>1. new # None
      BY <1>2, NoneAssumption
    <2>2. cache' = [cache EXCEPT ![key] = new]
      BY <1>2, <1>4, <1>6 DEF TypeOK
    <2>3. Live[key] = None
      BY <1>2, <1>6 DEF Live, Fresh
    <2>4. cache'[key] = new
      BY <1>2, <2>2 DEF TypeOK
    <2>5. new.left >= 0
      BY <1>3, CacheAssumption
    <2> HIDE DEF key, new
    <2>6. ASSUME NEW k \in Keys
          PROVE  Live'[k] = IF k = key THEN new ELSE Live[k]
      <3>1. CASE k = key
        BY <2>1, <2>4, <2>5, <3>1 DEF Live, Fresh
      <3>2. CASE k # key
        <4>1. cache'[k] = cache[k]
          BY <2>2, <3>2 DEF TypeOK
        <4> QED
          BY <3>2, <4>1 DEF Live, Fresh
      <3> QED
        BY <3>1, <3>2
    <2>7. Live' = [Live EXCEPT ![key] = new]
      BY <2>6 DEF Live
    <2>8. /\ Live[key] = None
          /\ \E v \in Values, ttl \in 1..MaxTTL :
               Live' = [Live EXCEPT ![key] = [value |-> v, left |-> ttl]]
      BY <1>2, <1>3, <2>3, <2>7 DEF new
    <2> QED
      BY <1>2, <1>4, <2>8 DEF Map!Store, Live
  <1> QED
    BY <1>5, <1>6

\* Time passes for the map as it does for the cache.
LEMMA TickAges ==
    ASSUME TypeOK, Tick
    PROVE  Map!Age
  <1>1. ASSUME NEW k \in Keys
        PROVE  Live'[k] = IF Live[k] = None \/ Live[k].left = 0 THEN None
                          ELSE [Live[k] EXCEPT !.left = Live[k].left - 1]
    <2>1. CASE ~Fresh(k)
      BY <2>1 DEF Tick, Live, Fresh
    <2>2. CASE Fresh(k)
      <3>1. cache[k] \in Entry /\ cache[k] # None /\ cache[k].left >= 0
        BY <2>2 DEF Fresh, TypeOK
      <3>2. cache'[k] = [cache[k] EXCEPT !.left = cache[k].left - 1]
        BY <2>2 DEF Tick
      <3>3. cache[k].left - 1 \in -1..MaxTTL
        BY <3>1, CacheAssumption DEF Entry
      <3>4. cache'[k] \in Entry /\ cache'[k].left = cache[k].left - 1
        BY <3>1, <3>2, <3>3 DEF Entry
      <3>5. Fresh(k)' <=> cache[k].left # 0
        BY <3>1, <3>3, <3>4, NoneAssumption DEF Fresh, Entry
      <3>6. Live[k] = cache[k] /\ Live'[k] = IF Fresh(k)' THEN cache'[k] ELSE None
        BY <2>2 DEF Live
      <3> QED
        BY <3>1, <3>2, <3>5, <3>6
    <2> QED
      BY <2>1, <2>2
  <1>2. Live' = [k \in Keys |-> IF Live[k] = None \/ Live[k].left = 0 THEN None
                                ELSE [Live[k] EXCEPT !.left = Live[k].left - 1]]
    BY <1>1 DEF Live
  <1>3. last' = last
    BY DEF Tick
  <1> QED
    BY <1>2, <1>3 DEF Map!Age, Live

\* Each step of the cache is a step of the map or none.
LEMMA RefinementStep ==
    ASSUME Inv, [Next]_vars
    PROVE  Map!MapNext \/ UNCHANGED <<Live, last>>
  <1> USE DEF Inv
  <1>1. ASSUME NEW p \in Producers, Put(p)
        PROVE  Map!MapNext \/ UNCHANGED <<Live, last>>
    BY <1>1, PutStoresOrNot DEF Map!MapNext
  <1>2. ASSUME NEW c \in Consumers, consumer(c) \/ Wakes(c)
        PROVE  Map!MapNext \/ UNCHANGED <<Live, last>>
    <2>1. CASE GetFinds(c) \/ GetMisses(c) \/ GetAfterWait(c)
      <3>1. Consuming(c) /\ Get(c)
        BY <2>1 DEF GetFinds, GetMisses, GetAfterWait, LookingForAKey
      <3> QED
        BY <3>1, GetReads DEF Map!MapNext
    <2>2. CASE ~(GetFinds(c) \/ GetMisses(c) \/ GetAfterWait(c))
      <3>1. cache' = cache /\ last' = last
        BY <1>2, <2>2 DEF consumer, WaitBegins, WakesAtDeadline, Wakes, WaitFinds,
                          WaitAgain, WaitTimesOut
      <3> QED
        BY <3>1, LiveSame
    <2> QED
      BY <2>1, <2>2
  <1>3. CASE CleanerTests \/ StopsCleanup \/ UNCHANGED vars
    <2>1. cache' = cache /\ last' = last
      BY <1>3 DEF CleanerTests, StopsCleanup, vars
    <2> QED
      BY <2>1, LiveSame
  <1>4. CASE Sweeps
    <2>1. \A k \in Keys : IF Fresh(k) THEN cache'[k] = cache[k] ELSE ~Fresh(k)'
      <3>1. ASSUME NEW k \in Keys, Fresh(k)
            PROVE  ~Expired(k)
        <4>1. cache[k] \in Entry /\ cache[k].left >= 0
          BY <3>1 DEF Fresh, TypeOK
        <4> QED
          BY <4>1 DEF Entry, Expired
      <3>2. \A k \in Keys : cache'[k] = IF Expired(k) THEN None ELSE cache[k]
        BY <1>4 DEF Sweeps
      <3> QED
        BY <3>1, <3>2 DEF Fresh
    <2>2. last' = last
      BY <1>4 DEF Sweeps
    <2> QED
      BY <2>1, <2>2, LiveSame
  <1>5. CASE Tick
    BY <1>5, TickAges DEF Map!MapNext
  <1> QED
    BY <1>1, <1>2, <1>3, <1>4, <1>5 DEF Next

\* The cache implements the map whose entries vanish by themselves: get(), the
\* cleaner and wait_for_key() agree on when an entry expires, whatever the
\* times and the threads are.
THEOREM CacheIsAMap == Spec => ImplementsTTLMap
  <1>1. Init => Map!MapInit
    BY DEF Init, Map!MapInit, Fresh
  <1>2. Inv /\ [Next]_vars => [Map!MapNext]_Map!mapVars
    BY RefinementStep DEF Map!mapVars, Live
  <1> QED
    BY <1>1, <1>2, CacheInvariant, PTL DEF Spec, ImplementsTTLMap, Map!MapSpec
=============================================================================
