------------------------------- MODULE Threads -------------------------------
(***************************************************************************)
(* The machine the demonstration programs run on: threads that execute     *)
(* numbered lines, mutexes, condition variables and a shared memory.       *)
(*                                                                         *)
(* The labels of a thread are line numbers of its program's source file.   *)
(* An operator below is one step of thread t from the label `from`; it     *)
(* says of every variable what becomes of it. `new` is the memory after    *)
(* the step and `to` the label after it. What a program keeps in memory,   *)
(* locals included, is a record of its own.                                *)
(***************************************************************************)
EXTENDS Integers, Sequences, FiniteSets

CONSTANTS
    Programs,   \* the names of the programs that are run
    Rounds      \* the turns of a loop that the code makes 5 or more times

ASSUME RoundsAssumption == Rounds \in Nat \ {0, 1}

VARIABLES
    program,    \* the program this behaviour runs
    pc,         \* [threads -> lines]: the line each thread is about to execute
    owner,      \* [mutexes -> threads]: who has locked each, or Nobody
    asleep,     \* [condition variables -> sets of threads]
    mem         \* the record of the program's variables

machineVars == <<program, pc, owner, asleep, mem>>

End == 0        \* the label of a thread that has returned
Nobody == 0

Thread == DOMAIN pc
Free(m) == owner[m] = Nobody
Ended(t) == pc[t] = End
AllEnded == \A t \in Thread : Ended(t)
Sleeping(t) == \E c \in DOMAIN asleep : t \in asleep[c]

\* What main() sets up: where the threads start, the mutexes and condition
\* variables there are, and the values of the variables.
Main(starts, mutexes, conditions, memory) ==
    [starts |-> starts, mutexes |-> mutexes,
     conditions |-> conditions, memory |-> memory]

Boot(name, main) ==
    /\ program = name
    /\ pc = main.starts
    /\ owner = [m \in main.mutexes |-> Nobody]
    /\ asleep = [c \in main.conditions |-> {}]
    /\ mem = main.memory

-----------------------------------------------------------------------------
\* Plain statements

At(t, from) == pc[t] = from /\ ~Sleeping(t)
Goto(t, to) == pc' = [pc EXCEPT ![t] = to]

Step(t, from, new, to) ==
    /\ At(t, from)
    /\ mem' = new
    /\ Goto(t, to)
    /\ UNCHANGED <<program, owner, asleep>>

Test(t, from, cond, yes, no) == Step(t, from, mem, IF cond THEN yes ELSE no)

\* A blocking call that returns once cond holds.
Await(t, from, cond, new, to) == At(t, from) /\ cond /\ Step(t, from, new, to)

-----------------------------------------------------------------------------
\* Mutexes

\* lock(), or std::lock() of several, which takes all of them or waits.
LockAll(t, from, M, to) ==
    /\ At(t, from)
    /\ \A m \in M : Free(m)
    /\ owner' = [m \in DOMAIN owner |-> IF m \in M THEN t ELSE owner[m]]
    /\ Goto(t, to)
    /\ UNCHANGED <<program, asleep, mem>>

Lock(t, from, m, to) == LockAll(t, from, {m}, to)

\* try_lock(): it does not fail when the mutexes are free.
TryLock(t, from, M, yes, no) ==
    IF \A m \in M : Free(m)
    THEN LockAll(t, from, M, yes)
    ELSE Step(t, from, mem, no)

\* A last statement and unlock(). A std::mutex does not know who holds it:
\* the call frees it whoever does.
Unlock(t, from, M, new, to) ==
    /\ At(t, from)
    /\ owner' = [m \in DOMAIN owner |-> IF m \in M THEN Nobody ELSE owner[m]]
    /\ mem' = new
    /\ Goto(t, to)
    /\ UNCHANGED <<program, asleep>>

\* A locked section that waits for nothing inside, as one step.
Guarded(t, from, m, new, to) == At(t, from) /\ Free(m) /\ Step(t, from, new, to)

-----------------------------------------------------------------------------
\* Condition variables

\* The thread falls asleep, to look again when it is woken.
FallAsleep(t, from, c) ==
    /\ At(t, from)
    /\ asleep' = [asleep EXCEPT ![c] = @ \cup {t}]
    /\ UNCHANGED <<program, pc, owner, mem>>

\* The thread releases m and falls asleep, to go on from `to` when woken.
SleepOn(t, from, c, m, to) ==
    /\ At(t, from)
    /\ owner' = [owner EXCEPT ![m] = Nobody]
    /\ asleep' = [asleep EXCEPT ![c] = @ \cup {t}]
    /\ Goto(t, to)
    /\ UNCHANGED <<program, mem>>

\* c.wait(lock, cond) of a thread that holds m: it comes back here with m
\* locked again until cond holds.
WaitUntil(t, from, c, m, cond, to) ==
    \/ owner[m] = t /\ Await(t, from, cond, mem, to)
    \/ At(t, from) /\ owner[m] = t /\ ~cond /\ SleepOn(t, from, c, m, from)
    \/ owner[m] # t /\ Lock(t, from, m, from)

\* A statement and the wake-up of the threads in W that follows it.
Wake(t, from, c, W, new, to) ==
    /\ At(t, from)
    /\ asleep' = [asleep EXCEPT ![c] = @ \ W]
    /\ mem' = new
    /\ Goto(t, to)
    /\ UNCHANGED <<program, owner>>

NotifyAll(t, from, c, new, to) == Wake(t, from, c, asleep[c], new, to)

NotifyOne(t, from, c, new, to) ==
    \/ At(t, from) /\ asleep[c] = {} /\ Step(t, from, new, to)
    \/ \E w \in asleep[c] : Wake(t, from, c, {w}, new, to)

\* A condition variable may wake a thread that nobody notified.
SpuriousWakeup ==
    \E c \in DOMAIN asleep : \E w \in asleep[c] :
        /\ asleep' = [asleep EXCEPT ![c] = @ \ {w}]
        /\ UNCHANGED <<program, pc, owner, mem>>

=============================================================================
