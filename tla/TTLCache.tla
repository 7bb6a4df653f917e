------------------------------ MODULE TTLCache ------------------------------
(***************************************************************************)
(* TTLCache of TTL_Caching.cpp with the threads of its main(): producers   *)
(* that put, consumers that get or wait for a key, the thread that cleans  *)
(* up, and main, which stops that one when the others have ended.          *)
(*                                                                         *)
(* put(), get(), a sweep of cleanup_expired() and a stretch of             *)
(* wait_for_key() between two waits hold cache_mutex: each is one step.    *)
(* The code compares the time only with expiry times and deadlines, so the *)
(* model keeps how far off each of them is. Pauses are left out: any time  *)
(* may pass between two steps. size(), which reads without the mutex, only *)
(* prints its result.                                                      *)
(***************************************************************************)
EXTENDS Integers, Sequences

CONSTANTS
    Producers, Consumers,
    Keys,
    Puts,       \* [Producers -> Seq([key, ttl])]: the calls a producer makes
    Wanted,     \* [Consumers -> Seq(Keys)]: the keys a consumer looks for
    MaxTTL,     \* the longest ttl
    Timeout,    \* that of wait_for_key() (3 seconds in main())
    None        \* no entry, and the -1 of get()

ASSUME CacheAssumption ==
    /\ MaxTTL \in Nat /\ Timeout \in Nat
    /\ Puts \in [Producers -> Seq([key : Keys, ttl : 1..MaxTTL])]
    /\ Wanted \in [Consumers -> Seq(Keys)]

\* A value is known by the put() it comes from, the n-th of its producer.
Values == UNION {{<<p, n>> : n \in 1..Len(Puts[p])} : p \in Producers}

\* left is expiry_time - now(); below 0, by however much, it has expired.
Entry == [value : Values, left : -1..MaxTTL]

ASSUME NoneAssumption == None \notin Entry /\ None \notin Values

VARIABLES
    cache,              \* [Keys -> Entry]: the member `cache`
    cleanup_running,    \* the member `cleanup_running`
    puts,               \* [Producers -> Nat]: the put() calls made
    gets,               \* [Consumers -> Nat]: the keys a consumer is done with
    pc,                 \* [Consumers -> ...]: where in its loop a consumer is
    deadline,           \* how far off the deadline of its wait is, down to 0
    last,               \* what its latest get() returned
    cleaner             \* where cleanup_expired() is

vars == <<cache, cleanup_running, puts, gets, pc, deadline, last, cleaner>>

ConsumerPC == {"get", "wait", "asleep", "woken", "found"}

TypeOK ==
    /\ cache \in [Keys -> Entry \cup {None}]
    /\ cleanup_running \in BOOLEAN
    /\ puts \in [Producers -> Nat]
    /\ gets \in [Consumers -> Nat]
    /\ \A p \in Producers : puts[p] <= Len(Puts[p])
    /\ \A c \in Consumers : gets[c] <= Len(Wanted[c])
    /\ pc \in [Consumers -> ConsumerPC]
    /\ deadline \in [Consumers -> 0..Timeout]
    /\ last \in [Consumers -> Values \cup {None}]
    /\ cleaner \in {"test", "sleep", "end"}

Init ==
    /\ cache = [k \in Keys |-> None]
    /\ cleanup_running = TRUE
    /\ puts = [p \in Producers |-> 0]
    /\ gets = [c \in Consumers |-> 0]
    /\ pc = [c \in Consumers |-> "get"]
    /\ deadline = [c \in Consumers |-> 0]
    /\ last = [c \in Consumers |-> None]
    /\ cleaner = "test"

\* now() <= expiry_time
Fresh(k) == cache[k] # None /\ cache[k].left >= 0

\* now() > expiry_time
Expired(k) == cache[k] # None /\ cache[k].left < 0

-----------------------------------------------------------------------------
\* producer_thread() and put()

Producing(p) == puts[p] < Len(Puts[p])
PutOf(p) == Puts[p][puts[p] + 1]
ValueOf(p) == <<p, puts[p] + 1>>

\* A put() that notifies one sleeper only.
Mut_PutNotifyOne(p) ==
    /\ Producing(p)
    /\ cache' = [cache EXCEPT ![PutOf(p).key] =
                    IF @ = None THEN [value |-> ValueOf(p), left |-> PutOf(p).ttl] ELSE @]
    /\ \/ pc' = pc
       \/ \E c \in Consumers : pc[c] = "asleep" /\ pc' = [pc EXCEPT ![c] = "woken"]
    /\ puts' = [puts EXCEPT ![p] = @ + 1]
    /\ UNCHANGED <<cleanup_running, gets, deadline, last, cleaner>>

\* emplace() leaves a key that is present alone, even if its entry has
\* expired. All sleepers are notified in either case.
Put(p) ==
    /\ Producing(p)
    /\ cache' = [cache EXCEPT ![PutOf(p).key] =
                    IF @ = None THEN [value |-> ValueOf(p), left |-> PutOf(p).ttl] ELSE @]
    /\ pc' = [c \in Consumers |-> IF pc[c] = "asleep" THEN "woken" ELSE pc[c]]
    /\ puts' = [puts EXCEPT ![p] = @ + 1]
    /\ UNCHANGED <<cleanup_running, gets, deadline, last, cleaner>>

-----------------------------------------------------------------------------
\* consumer_thread(), get() and wait_for_key()

Consuming(c) == gets[c] < Len(Wanted[c])
KeyOf(c) == Wanted[c][gets[c] + 1]

\* The body of get(): an expired entry is erased on the way.
Get(c) ==
    LET k == KeyOf(c) IN
    /\ last' = [last EXCEPT ![c] = IF Fresh(k) THEN cache[k].value ELSE None]
    /\ cache' = IF Expired(k) THEN [cache EXCEPT ![k] = None] ELSE cache

\* The consumer is done with this key, and goes on to the next.
NextKey(c) ==
    /\ gets' = [gets EXCEPT ![c] = @ + 1]
    /\ pc' = [pc EXCEPT ![c] = "get"]
    /\ deadline' = [deadline EXCEPT ![c] = 0]

GetFinds(c) ==
    /\ Consuming(c) /\ pc[c] = "get"
    /\ Fresh(KeyOf(c))
    /\ Get(c)
    /\ NextKey(c)
    /\ UNCHANGED <<cleanup_running, puts, cleaner>>

GetMisses(c) ==
    /\ Consuming(c) /\ pc[c] = "get"
    /\ ~Fresh(KeyOf(c))
    /\ Get(c)
    /\ pc' = [pc EXCEPT ![c] = "wait"]
    /\ UNCHANGED <<cleanup_running, puts, gets, deadline, cleaner>>

\* wait_for_key(): the deadline is set and the predicate evaluated.
WaitBegins(c) ==
    /\ Consuming(c) /\ pc[c] = "wait"
    /\ pc' = [pc EXCEPT ![c] = IF Fresh(KeyOf(c)) THEN "found" ELSE "asleep"]
    /\ deadline' = [deadline EXCEPT ![c] = Timeout]
    /\ UNCHANGED <<cache, cleanup_running, puts, gets, last, cleaner>>

\* The wait ends for no reason or because its time is over.
Wakes(c) ==
    /\ pc[c] = "asleep"
    /\ pc' = [pc EXCEPT ![c] = "woken"]
    /\ UNCHANGED <<cache, cleanup_running, puts, gets, deadline, last, cleaner>>

WakesAtDeadline(c) == deadline[c] = 0 /\ Wakes(c)

\* The predicate holds: wait_for_key() returns true, at any distance of the
\* deadline.
WaitFinds(c) ==
    /\ pc[c] = "woken"
    /\ Fresh(KeyOf(c))
    /\ pc' = [pc EXCEPT ![c] = "found"]
    /\ UNCHANGED <<cache, cleanup_running, puts, gets, deadline, last, cleaner>>

\* A wait whose time starts anew each time it goes back to sleep.
Mut_WaitAgainRestarts(c) ==
    /\ pc[c] = "woken"
    /\ ~Fresh(KeyOf(c))
    /\ pc' = [pc EXCEPT ![c] = "asleep"]
    /\ deadline' = [deadline EXCEPT ![c] = Timeout]
    /\ UNCHANGED <<cache, cleanup_running, puts, gets, last, cleaner>>

WaitAgain(c) ==
    /\ pc[c] = "woken"
    /\ ~Fresh(KeyOf(c))
    /\ deadline[c] > 0
    /\ pc' = [pc EXCEPT ![c] = "asleep"]
    /\ UNCHANGED <<cache, cleanup_running, puts, gets, deadline, last, cleaner>>

\* A consumer that skips a key after it has waited in vain.
Mut_WaitTimesOutSkips(c) ==
    /\ pc[c] = "woken"
    /\ ~Fresh(KeyOf(c))
    /\ deadline[c] = 0
    /\ gets' = [gets EXCEPT ![c] = @ + 2]
    /\ pc' = [pc EXCEPT ![c] = "get"]
    /\ UNCHANGED <<cache, cleanup_running, puts, deadline, last, cleaner>>

WaitTimesOut(c) ==
    /\ pc[c] = "woken"
    /\ ~Fresh(KeyOf(c))
    /\ deadline[c] = 0
    /\ NextKey(c)
    /\ UNCHANGED <<cache, cleanup_running, puts, last, cleaner>>

\* The get() after a wait that returned true; it may find nothing.
GetAfterWait(c) ==
    /\ pc[c] = "found"
    /\ Get(c)
    /\ NextKey(c)
    /\ UNCHANGED <<cleanup_running, puts, cleaner>>

consumer(c) ==
    \/ GetFinds(c) \/ GetMisses(c) \/ WaitBegins(c) \/ WakesAtDeadline(c)
    \/ WaitFinds(c) \/ WaitAgain(c) \/ WaitTimesOut(c) \/ GetAfterWait(c)

-----------------------------------------------------------------------------
\* cleanup_expired() and main()

CleanerTests ==
    /\ cleaner = "test"
    /\ cleaner' = IF cleanup_running THEN "sleep" ELSE "end"
    /\ UNCHANGED <<cache, cleanup_running, puts, gets, pc, deadline, last>>

\* if (now >= it->second.expiry_time)
Mut_SweepsTooEarly ==
    /\ cleaner = "sleep"
    /\ cache' = [k \in Keys |->
                    IF cache[k] # None /\ cache[k].left <= 0 THEN None ELSE cache[k]]
    /\ cleaner' = "test"
    /\ UNCHANGED <<cleanup_running, puts, gets, pc, deadline, last>>

Sweeps ==
    /\ cleaner = "sleep"
    /\ cache' = [k \in Keys |-> IF Expired(k) THEN None ELSE cache[k]]
    /\ cleaner' = "test"
    /\ UNCHANGED <<cleanup_running, puts, gets, pc, deadline, last>>

ThreadsEnded ==
    /\ \A p \in Producers : ~Producing(p)
    /\ \A c \in Consumers : ~Consuming(c)

\* main() has joined producers and consumers and calls stop_cleanup().
StopsCleanup ==
    /\ ThreadsEnded
    /\ cleanup_running
    /\ cleanup_running' = FALSE
    /\ UNCHANGED <<cache, puts, gets, pc, deadline, last, cleaner>>

\* Time passes.
Tick ==
    /\ cache' = [k \in Keys |->
                    IF Fresh(k) THEN [cache[k] EXCEPT !.left = @ - 1] ELSE cache[k]]
    /\ deadline' = [c \in Consumers |-> IF deadline[c] = 0 THEN 0 ELSE deadline[c] - 1]
    /\ UNCHANGED <<cleanup_running, puts, gets, pc, last, cleaner>>

Next ==
    \/ \E p \in Producers : Put(p)
    \/ \E c \in Consumers : consumer(c) \/ Wakes(c)
    \/ CleanerTests \/ Sweeps
    \/ StopsCleanup
    \/ Tick

\* Threads that can run do, and time passes. A spurious wake-up is not owed
\* to anybody.
Spec ==
    /\ Init /\ [][Next]_vars
    /\ \A p \in Producers : WF_vars(Put(p))
    /\ \A c \in Consumers : WF_vars(consumer(c))
    /\ WF_vars(CleanerTests \/ Sweeps)
    /\ WF_vars(StopsCleanup)
    /\ WF_vars(Tick)

-----------------------------------------------------------------------------

\* Nobody sleeps in wait_for_key() beside a fresh entry of its key: each put()
\* notifies all who wait, whatever key they wait for, and who is not asleep
\* yet sees the entry when it evaluates the predicate under the mutex.
SleepersMissNothing ==
    \A c \in Consumers : pc[c] = "asleep" => ~Fresh(KeyOf(c))

\* No wait outlasts its deadline, however often it is woken in vain, and
\* everybody ends, the cleaner last.
EverybodyEnds == <>(ThreadsEnded /\ cleaner = "end")

\* get(), the cleaner and wait_for_key() agree to the instant on when an
\* entry expires, and a lingering entry is never served: the cache
\* implements a map whose entries vanish by themselves.
Map == INSTANCE TTLMap WITH
            live <- [k \in Keys |-> IF Fresh(k) THEN cache[k] ELSE None]

ImplementsTTLMap == Map!MapSpec

\* "Store a value in the cache with TTL", the comment of TTL_Caching.cpp:48:
\* after a put() the key has the value put.
PutStores ==
    [][\A p \in Producers :
          Put(p) => cache'[PutOf(p).key] # None /\ cache'[PutOf(p).key].value = ValueOf(p)]_vars
=============================================================================
