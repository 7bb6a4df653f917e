----------------------------- MODULE DataPrograms -----------------------------
(***************************************************************************)
(* The programs that divide data among threads: sorts, sums, the sieve,    *)
(* OpenMP loops, and the two that share an int or a bool without           *)
(* synchronisation. A sum is over distinct powers where it is to tell its  *)
(* terms.                                                                  *)
(***************************************************************************)
EXTENDS Threads

CONSTANTS
    Team,       \* the threads of a parallel region of OpenMP
    Length      \* the elements of an array, or the iterations of a loop

ASSUME DataAssumption == Team \in Nat \ {0} /\ Length \in Nat \ {0}

\* A thread that is made by another waits for that at its first line, and is
\* never made if that other has ended without it. main is thread 1.
Spawn(t, from, u, to) == Step(t, from, [mem EXCEPT !.spawned = @ \cup {u}], to)
Born(t, from, new, to) == Await(t, from, t \in mem.spawned, new, to)
Unborn(t, from, parent) ==
    t \notin mem.spawned /\ Await(t, from, Ended(parent), mem, End)

\* In a tree of threads those of t are 2t and 2t + 1.
Children(t) == {2 * t, 2 * t + 1}
Half(t) == t \div 2

SumOf[s \in Seq(Int)] == IF s = <<>> THEN 0 ELSE Head(s) + SumOf[Tail(s)]
Power(i) == 4 ^ i
PowerSum(from, to) == SumOf[[i \in 1 .. to - from |-> Power(from + i - 1)]]

-----------------------------------------------------------------------------
\* merge_sort.cpp, with the array at 1 .. Length. The array of main() is shorter
\* than the code's threshold and is sorted by one thread.

THRESHOLD == 2

merge(arr, left, mid, right) ==
    LET temp[i \in Nat, j \in Nat] ==
            IF i <= mid /\ (j > right \/ arr[i] <= arr[j]) THEN <<arr[i]>> \o temp[i + 1, j]
            ELSE IF j <= right THEN <<arr[j]>> \o temp[i, j + 1]
            ELSE <<>>
    IN  [k \in DOMAIN arr |-> IF k \in left .. right THEN temp[left, mid + 1][k - left + 1]
                              ELSE arr[k]]

Mid(left, right) == left + (right - left) \div 2

mergeSort[arr \in Seq(Int), left \in Nat, right \in Nat] ==
    IF left >= right THEN arr
    ELSE LET mid == Mid(left, right)
         IN  merge(mergeSort[mergeSort[arr, left, mid], mid + 1, right], left, mid, right)

\* Mutant: the second half is not waited for.
Mut_halves_joined(t) == Ended(2 * t)

halves_joined(t) == \A u \in Children(t) : Ended(u)

\* The results are written back at 25, over what the thread read before.
parallelMergeSort(t) ==
    LET left == mem.range[t][1]
        right == mem.range[t][2]
        mid == Mid(left, right)
        Halved == [mem EXCEPT !.range[2 * t] = <<left, mid>>,
                              !.range[2 * t + 1] = <<mid + 1, right>>,
                              !.spawned = @ \cup Children(t)]
    IN  \/ t > 1 /\ (Born(t, 40, mem, 41) \/ Unborn(t, 40, Half(t)))
        \/ left >= right /\ Step(t, 41, mem, End)
        \/ left < right /\ right - left < THRESHOLD
           /\ Step(t, 41, [mem EXCEPT !.temp[t] = mergeSort[mem.arr, left, right]], 25)
        \/ right - left >= THRESHOLD /\ Step(t, 41, Halved, 53)
        \/ Await(t, 53, halves_joined(t),
                 [mem EXCEPT !.temp[t] = merge(mem.arr, left, mid, right)], 25)
        \/ Step(t, 25, [mem EXCEPT !.arr = [k \in DOMAIN @ |->
                            IF k \in left .. right THEN mem.temp[t][k] ELSE @[k]]], End)

sorting_main(t) ==
    t = 1 /\ \E arr \in [1 .. Length -> 1 .. 2] :
        Step(t, 60, [mem EXCEPT !.arr = arr, !.input = arr], 41)

MergeSort ==
    LET Each(value) == [t \in 1 .. 7 |-> value]
    IN  Main(<<60, 40, 40, 40, 40, 40, 40>>, {}, {},
             [arr |-> <<>>, input |-> <<>>, spawned |-> {},
              temp |-> Each(<<>>), range |-> Each(<<1, Length>>)])

-----------------------------------------------------------------------------
\* Sums by halves

\* parallel_accumulate.cpp: the upper half is a call of its own, on a new thread
\* or, deferred, when get() asks for it. The call that begins at element b is
\* thread b + 1. (The 1000 elements of main() are not halved.)
MIN_ELEMENT_COUNT == 1

parallel_accumulate(t) ==
    LET begin == t - 1
        end == mem.end[t]
        mid == begin + (end - begin + 1) \div 2
        calls == mem.calls[t]
        last == calls[Len(calls)]
    IN  \/ t > 1 /\ (Born(t, 9, mem, 13) \/ Unborn(t, 9, 1))
        \/ end - begin <= MIN_ELEMENT_COUNT
           /\ Step(t, 13, [mem EXCEPT !.sum[t] = PowerSum(begin, end)], 24)
        \/ end - begin > MIN_ELEMENT_COUNT
           /\ \E async \in {{}, {mid + 1}} :
                 Step(t, 13, [mem EXCEPT !.spawned = @ \cup async, !.end[mid + 1] = end,
                                         !.end[t] = mid, !.calls[t] = Append(@, mid + 1)], 13)
        \/ calls # <<>>
           /\ \/ last \notin mem.spawned /\ Spawn(t, 24, last, 24)
              \/ Await(t, 24, Ended(last),
                       [mem EXCEPT !.sum[t] = @ + mem.sum[last],
                                   !.calls[t] = SubSeq(@, 1, Len(@) - 1)], 24)
        \/ calls = <<>> /\ Step(t, 24, mem, End)

ParallelAccumulate ==
    Main(<<13, 9, 9, 9>>, {}, {},
         [spawned |-> {}, end |-> <<4, 0, 0, 0>>, sum |-> <<0, 0, 0, 0>>,
          calls |-> <<<<>>, <<>>, <<>>, <<>>>>])

\* measure_speed.cpp: two calls for two halves, down to a depth that is 4 in the
\* code. Thread 1 is the outermost call, whose result main() compares.
LeafDepth == 1

sequential_sum(low, high) == PowerSum(low, high)

depth(t) == IF t = 1 THEN 0 ELSE IF t < 4 THEN 1 ELSE 2

parallel_sum_(t) ==
    LET low == mem.range[t][1]
        high == mem.range[t][2]
        mid == low + (high - low) \div 2
        Halved == [mem EXCEPT !.range[2 * t] = <<low, mid>>, !.range[2 * t + 1] = <<mid, high>>,
                              !.spawned = @ \cup Children(t)]
        Added == [mem EXCEPT !.sum[t] = mem.sum[2 * t] + mem.sum[2 * t + 1]]
        to == IF t = 1 THEN 55 ELSE End
    IN  \/ t > 1 /\ Born(t, 15, mem, 16)
        \/ depth(t) > LeafDepth /\ Step(t, 16, [mem EXCEPT !.sum[t] = PowerSum(low, high)], to)
        \/ depth(t) <= LeafDepth /\ Step(t, 16, Halved, 25)
        \/ Await(t, 25, \A u \in Children(t) : Ended(u), Added, to)

measuring_main(t) ==
    Step(t, 55, [mem EXCEPT !.mismatch = mem.sum[1] # sequential_sum(0, Length)], End)

MeasureSpeed ==
    LET Each(value) == [t \in 1 .. 7 |-> value]
    IN  Main([Each(15) EXCEPT ![1] = 16], {}, {},
             [spawned |-> {}, range |-> Each(<<0, Length>>), sum |-> Each(0), mismatch |-> FALSE])

-----------------------------------------------------------------------------
\* Sums by chunks

\* Parallel Sum/parallel_sum.cpp: main is thread 1; a worker t has part t - 1.
Hardware == 3

partial_sum(t) ==
    \/ Born(t, 7, mem, 12)
    \/ Unborn(t, 7, 1)
    \/ Step(t, 12, [mem EXCEPT !.partial_sums[t - 1] =
                        PowerSum(mem.range[t][1], mem.range[t][2])], End)

parallel_sum(t) ==
    LET workers == IF mem.num_threads <= 0 \/ mem.size < mem.num_threads THEN 1
                   ELSE IF mem.num_threads < Hardware THEN mem.num_threads ELSE Hardware
        chunk_size == mem.size \div workers
        extra == IF mem.i < mem.size % workers THEN 1 ELSE 0
        wanted == mem.start + chunk_size + extra
        end == IF wanted > mem.size THEN mem.size ELSE wanted
    IN  \/ \E size \in 0 .. Length, asked \in 0 .. Hardware + 1 :
              Step(t, 16, [mem EXCEPT !.size = size, !.num_threads = asked], 29)
        \/ mem.i < workers
           /\ Step(t, 29, [mem EXCEPT !.range[mem.i + 2] = <<mem.start, end>>, !.start = end,
                                      !.i = @ + 1, !.spawned = @ \cup {mem.i + 2}], 29)
        \/ mem.i = workers
           /\ Await(t, 29, \A u \in mem.spawned : Ended(u),
                    [mem EXCEPT !.total = SumOf[mem.partial_sums]], End)

ParallelSum ==
    Main(<<16, 7, 7, 7>>, {}, {},
         [size |-> 0, num_threads |-> 0, i |-> 0, start |-> 0, spawned |-> {}, total |-> 0,
          range |-> <<<<0, 0>>, <<0, 0>>, <<0, 0>>, <<0, 0>>>>, partial_sums |-> <<0, 0, 0>>])

\* Asynchronous Programming/vector_parallel_sum.cpp: the sum of 1 .. n by quarters,
\* each accumulated in a float. Beyond 2^Mantissa (up to twice of it) a float has
\* the even numbers only; the code's has 24 bits.
Mantissa == 4
Float(x) == IF x <= 2 ^ Mantissa \/ x % 2 = 0 THEN x ELSE IF x % 4 = 3 THEN x + 1 ELSE x - 1

sum_over(begin, end) ==
    LET sum[i \in Nat] == IF i <= begin THEN 0 ELSE Float(sum[i - 1] + i)
    IN  sum[end]

quarter(t) ==
    LET begin == (t - 2) * mem.n
        end == (t - 1) * mem.n
    IN  Born(t, 11, [mem EXCEPT !.fut[t - 1] = sum_over(begin \div 4, end \div 4)], End)

add_parallel(t) ==
    \/ \E count \in 1 .. 2 * Length :
          Step(t, 33, [mem EXCEPT !.n = count, !.spawned = 2 .. 5], 27)
    \/ Await(t, 27, \A u \in 2 .. 5 : Ended(u), [mem EXCEPT !.sum = SumOf[mem.fut]], End)

VectorParallelSum ==
    Main(<<33, 11, 11, 11, 11>>, {}, {},
         [n |-> 0, spawned |-> {}, fut |-> <<0, 0, 0, 0>>, sum |-> 0])

-----------------------------------------------------------------------------
\* Sieve/prime_sieve.cpp: the first pass leaves the workers nothing to find. They
\* share the words of a vector<bool>: a bit is cleared by a read and a write of
\* all the bits near it, here of all there are.

Sqrt(n) == CHOOSE r \in 0 .. n : r * r <= n /\ (r + 1) * (r + 1) > n
Multiples(p, n) == {m \in p * p .. n : m % p = 0}

small_primes(n) ==
    LET sieved[i \in Nat] ==
            IF i < 2 THEN 2 .. n
            ELSE IF i \in sieved[i - 1] THEN sieved[i - 1] \ Multiples(i, n)
            ELSE sieved[i - 1]
    IN  sieved[Sqrt(n)]

sieve_block(n, num_threads, i) ==
    LET block_size == (Sqrt(n) - 2) \div num_threads + 1
        start == 2 + i * block_size
    IN  start .. (IF i + 1 = num_threads THEN Sqrt(n) ELSE start + block_size - 1)

parallel_sieve(t) ==
    \/ \E n \in Length + 2 .. 2 * Length :
          Step(t, 15, [mem EXCEPT !.n = n, !.is_prime = small_primes(n), !.spawned = 2 .. Team + 1], 60)
    \/ Await(t, 60, \A u \in mem.spawned : Ended(u), [mem EXCEPT !.primes = mem.is_prime], End)

sieve_worker(t) ==
    LET multiple == CHOOSE m \in mem.todo[t] : \A k \in mem.todo[t] : m <= k
        mine == sieve_block(mem.n, Team, t - 2) \cap mem.is_prime
    IN  \/ Born(t, 47, [mem EXCEPT !.todo[t] = UNION {Multiples(p, mem.n) : p \in mine}], 50)
        \/ mem.todo[t] # {} /\ Step(t, 50, [mem EXCEPT !.word[t] = mem.is_prime], 51)
        \/ Step(t, 51, [mem EXCEPT !.is_prime = mem.word[t] \ {multiple},
                                   !.todo[t] = @ \ {multiple}], 50)
        \/ mem.todo[t] = {} /\ Step(t, 50, mem, End)

PrimeSieve ==
    LET Each(value) == [t \in 1 .. Team + 1 |-> value]
    IN  Main([Each(47) EXCEPT ![1] = 15], {}, {},
             [n |-> 0, is_prime |-> {}, primes |-> {}, spawned |-> {},
              todo |-> Each({}), word |-> Each({})])

-----------------------------------------------------------------------------
\* Data races. What a thread read is in mem.read.

\* Threads/data_race.cpp
increment_counter(t) ==
    \/ mem.i[t] < Rounds /\ Step(t, 11, [mem EXCEPT !.read[t] = mem.counter], 111)
    \/ mem.i[t] = Rounds /\ Step(t, 11, mem, End)
    \/ Step(t, 111, [mem EXCEPT !.counter = mem.read[t] + 1, !.i[t] = @ + 1], 11)

DataRace ==
    Main(<<11, 11>>, {}, {}, [counter |-> 0, i |-> <<0, 0>>, read |-> <<0, 0>>])

\* Asynchronous Programming/exec_policies.cpp: a thread for each element; then
\* main, the last of them, goes on with the scan and the inner product.
count_position(t) ==
    \/ Step(t, 13, [mem EXCEPT !.read[t] = mem.counter], 113)
    \/ Step(t, 113, [mem EXCEPT !.v[t] = mem.read[t], !.counter = mem.read[t] + 1], End)

policies_main(t) ==
    LET v1 == <<1, 2, 3, 4>>
        x == <<1, 2, 3, 4, 5>>
        y == <<5, 4, 3, 2, 1>>
    IN  \/ Await(t, 29, \A u \in 1 .. 3 : Ended(u),
                 [mem EXCEPT !.v2 = [k \in 1 .. 4 |-> SumOf[<<-1>> \o SubSeq(v1, 1, k - 1)]]], 40)
        \/ Step(t, 40, [mem EXCEPT !.result = SumOf[[k \in 1 .. 5 |-> x[k] * y[k]]]], End)

ExecPolicies ==
    Main(<<13, 13, 13, 29>>, {}, {},
         [counter |-> 0, read |-> <<0, 0, 0>>, v |-> <<0, 0, 0>>, v2 |-> <<>>, result |-> 0])

\* Threads/basics.cpp: `action` is a plain bool, which a build may well read once
\* before the loop.
actions_lambda(t) ==
    \/ \E once \in BOOLEAN :
          Step(t, 27, [mem EXCEPT !.once[t] = once], IF mem.action THEN 29 ELSE End)
    \/ (mem.once[t] \/ mem.action) /\ Step(t, 29, mem, 30)
    \/ Step(t, 30, mem, 29)
    \/ ~mem.once[t] /\ ~mem.action /\ Step(t, 29, mem, End)

basics_main(t) ==
    Step(t, 48, [mem EXCEPT !.action = FALSE], 49) \/ Await(t, 49, Ended(1) /\ Ended(2), mem, End)

Basics == Main(<<27, 27, 48>>, {}, {}, [action |-> TRUE, once |-> <<FALSE, FALSE, FALSE>>])

\* Threads/managing_thread.cpp: the exception finds the thread joinable, and its
\* destructor ends the program. (No thread_guard is made.)
managing_main(t) == Step(t, 29, [mem EXCEPT !.terminated = TRUE], 31)
managed_thread(t) == ~mem.terminated /\ Step(t, 28, mem, End)

ManagingThread == Main(<<29, 28>>, {}, {}, [terminated |-> FALSE])

-----------------------------------------------------------------------------
\* Threads/thread_unroll.cc: a thread for each index of each dimension, here two
\* dimensions of two. The cell of a thread is the indices on the way to it.

cell(t) == <<Half(t) % 2, t % 2>>

apply(t) ==
    \/ t > 1 /\ Born(t, 17, mem, 18)
    \/ t >= 4 /\ Step(t, 18, [mem EXCEPT !.processed = Append(@, cell(t))], End)
    \/ t < 4 /\ Step(t, 18, [mem EXCEPT !.spawned = @ \cup Children(t)], 22)
    \/ Await(t, 22, \A u \in Children(t) : Ended(u), mem, End)

ThreadUnroll ==
    Main(<<18, 17, 17, 17, 17, 17, 17>>, {}, {}, [spawned |-> {}, processed |-> <<>>])

-----------------------------------------------------------------------------
\* OpenMP. Thread t of the team is number t - 1, and the first is the one that
\* goes on after the region. mem.todo[t] are the iterations it has still to do.

Share(count, t) == count \div Team + (IF count % Team > t - 1 THEN 1 ELSE 0)

\* The static schedule of iterations 1 .. count.
Schedule(count) ==
    LET first[t \in Nat] == IF t = 1 THEN 1 ELSE first[t - 1] + Share(count, t - 1)
    IN  [t \in 1 .. Team |-> [k \in 1 .. Share(count, t) |-> first[t] + k - 1]]

Region(line, memory) == Main([t \in 1 .. Team |-> line], {"critical"}, {}, memory)

Loop(t, from, Body(_), to) ==
    \/ mem.todo[t] # <<>>
       /\ Step(t, from, [Body(Head(mem.todo[t])) EXCEPT !.todo[t] = Tail(@)], from)
    \/ mem.todo[t] = <<>> /\ Step(t, from, mem, to)

Joins(t, from, new) ==
    \/ t > 1 /\ Step(t, from, mem, End)
    \/ t = 1 /\ Await(t, from, \A u \in Thread \ {1} : Ended(u), new, End)

\* OMP/for_reduction.c: a private sum, added to the shared one at the end.
for_reduction(t) ==
    LET Body(i) == [mem EXCEPT !.private[t] = @ + i]
    IN  \/ Loop(t, 10, Body, 11)
        \/ Step(t, 11, [mem EXCEPT !.sum = @ + mem.private[t]], 13)
        \/ Joins(t, 13, [mem EXCEPT !.printed = mem.sum])

ForReduction ==
    Region(10, [todo |-> Schedule(Length), private |-> [t \in 1 .. Team |-> 0],
                sum |-> 0, printed |-> 0])

\* OMP/reduction.c: the two loops are collapsed into one over i and j.
matrix_sum(t) ==
    LET Body(k) == [mem EXCEPT !.private[t] = @ + ((k - 1) \div 2) + ((k - 1) % 2)]
    IN  \/ Loop(t, 28, Body, 30)
        \/ Step(t, 30, [mem EXCEPT !.sum = @ + mem.private[t]], 32)
        \/ Joins(t, 32, [mem EXCEPT !.printed = mem.sum])

MatrixSum ==
    Region(28, [todo |-> Schedule(4), private |-> [t \in 1 .. Team |-> 0],
                sum |-> 0, printed |-> 0])

\* OMP/histogram_private_merge.c
histogram_region(t) ==
    LET Body(i) == [mem EXCEPT !.local_hist[t][mem.data[i]] = @ + 1]
    IN  \/ Loop(t, 25, Body, 26)
        \/ Await(t, 26, \A u \in Thread : mem.todo[u] = <<>>, mem, 29)
        \/ Lock(t, 29, "critical", 30)
        \/ mem.bin[t] < 2
           /\ Step(t, 30, [mem EXCEPT !.read[t] = mem.histogram[mem.bin[t]]], 32)
        \/ Step(t, 32, [mem EXCEPT !.histogram[mem.bin[t]] = mem.read[t] + mem.local_hist[t][mem.bin[t]],
                                   !.bin[t] = @ + 1], 30)
        \/ mem.bin[t] = 2 /\ At(t, 30) /\ Unlock(t, 30, {"critical"}, mem, 35)
        \/ Joins(t, 35, mem)

Histogram ==
    LET Each(value) == [t \in 1 .. Team |-> value]
    IN  Region(25, [todo |-> Schedule(Length), data |-> [i \in 1 .. Length |-> i % 2],
                    histogram |-> [b \in 0 .. 1 |-> 0], local_hist |-> Each([b \in 0 .. 1 |-> 0]),
                    bin |-> Each(0), read |-> Each(0)])

\* OMP/matrix_mutliplication.cpp, with N = 2.
A_(i, j) == i + j
B_(i, j) == i * j

multiply_region(t) ==
    LET Body(c) == LET i == (c - 1) \div 2
                       j == (c - 1) % 2
                   IN  [mem EXCEPT !.C[c] = @ + A_(i, 0) * B_(0, j) + A_(i, 1) * B_(1, j)]
    IN  Loop(t, 22, Body, 27) \/ Joins(t, 27, mem)

MatrixMultiplication == Region(22, [todo |-> Schedule(4), C |-> <<0, 0, 0, 0>>])

\* OMP/pi_monteCarlo.c: num_shots is an argument; a shot is a hit or not.
pi_region(t) ==
    \/ mem.local_shots[t] > 0
       /\ \E hit \in 0 .. 1 :
             Step(t, 23, [mem EXCEPT !.local_shots[t] = @ - 1, !.private[t] = @ + hit,
                                     !.shots = @ + 1], 23)
    \/ mem.local_shots[t] = 0
       /\ Step(t, 23, [mem EXCEPT !.num_hits = @ + mem.private[t]], 30)
    \/ Joins(t, 30, mem)

PiMonteCarlo ==
    Region(23, [local_shots |-> [t \in 1 .. Team |-> Share(Length, t)],
                private |-> [t \in 1 .. Team |-> 0], num_hits |-> 0, shots |-> 0])

\* OMP/loops.c, parallel_region.c, thread_join.c and Threads/unrolling.cc print or
\* compute once for each iteration, or once for each thread.
Handled(i) == [mem EXCEPT !.handled = Append(@, i)]

loops(t) == Loop(t, 18, Handled, 21) \/ Joins(t, 21, mem)
parallel_region(t) == Loop(t, 12, Handled, 14) \/ Joins(t, 14, mem)
unrolled(t) == Loop(t, 13, Handled, 52) \/ Joins(t, 52, mem)
thread_join(t) == Step(t, 11, Handled(t), 14) \/ Joins(t, 14, Handled("All threads joined"))

Loops(line) == Region(line, [todo |-> Schedule(Length), handled |-> <<>>])
ThreadJoin == Region(11, [handled |-> <<>>])

-----------------------------------------------------------------------------
\* A step of thread t, and the programs of this module

DataStep(t) ==
    \/ program = "merge_sort" /\ (sorting_main(t) \/ parallelMergeSort(t))
    \/ program = "parallel_accumulate" /\ parallel_accumulate(t)
    \/ program = "measure_speed" /\ (parallel_sum_(t) \/ measuring_main(t))
    \/ program = "parallel_sum" /\ (parallel_sum(t) \/ partial_sum(t))
    \/ program = "vector_parallel_sum" /\ (add_parallel(t) \/ quarter(t))
    \/ program = "prime_sieve" /\ (parallel_sieve(t) \/ sieve_worker(t))
    \/ program = "data_race" /\ increment_counter(t)
    \/ program = "exec_policies" /\ (count_position(t) \/ policies_main(t))
    \/ program = "basics" /\ (actions_lambda(t) \/ basics_main(t))
    \/ program = "managing_thread" /\ (managing_main(t) \/ managed_thread(t))
    \/ program = "thread_unroll" /\ apply(t)
    \/ program = "for_reduction" /\ for_reduction(t)
    \/ program = "reduction" /\ matrix_sum(t)
    \/ program = "histogram" /\ histogram_region(t)
    \/ program = "matrix_multiplication" /\ multiply_region(t)
    \/ program = "pi_monteCarlo" /\ pi_region(t)
    \/ program = "loops" /\ loops(t)
    \/ program = "parallel_region" /\ parallel_region(t)
    \/ program = "unrolling" /\ unrolled(t)
    \/ program = "thread_join" /\ thread_join(t)

DataMains ==
    [merge_sort |-> MergeSort,
     parallel_accumulate |-> ParallelAccumulate,
     measure_speed |-> MeasureSpeed,
     parallel_sum |-> ParallelSum,
     vector_parallel_sum |-> VectorParallelSum,
     prime_sieve |-> PrimeSieve,
     data_race |-> DataRace,
     exec_policies |-> ExecPolicies,
     basics |-> Basics,
     managing_thread |-> ManagingThread,
     thread_unroll |-> ThreadUnroll,
     for_reduction |-> ForReduction,
     reduction |-> MatrixSum,
     histogram |-> Histogram,
     matrix_multiplication |-> MatrixMultiplication,
     pi_monteCarlo |-> PiMonteCarlo,
     loops |-> Loops(18),
     parallel_region |-> Loops(12),
     unrolling |-> Loops(13),
     thread_join |-> ThreadJoin]

=============================================================================
