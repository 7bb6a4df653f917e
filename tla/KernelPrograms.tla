---------------------------- MODULE KernelPrograms ----------------------------
(***************************************************************************)
(* The programs of GPU Programming/: a host, which is thread 1, and the    *)
(* items of its launch. An item waits at its first line for the launch. A  *)
(* result whose terms matter is the sequence of them, and Unknown is what  *)
(* a buffer holds that nobody has written. The number of writes to each    *)
(* element of the result is in mem.writes.                                 *)
(***************************************************************************)
EXTENDS Threads

CONSTANTS
    Elements,       \* the N of the kernels with one element for each item
    LOCAL_SIZE,     \* 256 in parallel_reduction.cpp
    DotLength       \* the N of parallel_reduction.cpp

ASSUME KernelAssumption ==
    /\ Elements \in Nat \ {0, 1} /\ DotLength \in Nat \ {0}
    /\ \E e \in 0 .. 8 : LOCAL_SIZE = 2 ^ e

Unknown == <<>>
Items == Thread \ {1}
global_id(t) == t - 2

Grid(host, items, item, memory) ==
    Main([t \in 1 .. items + 1 |-> IF t = 1 THEN host ELSE item], {}, {}, memory)

\* enqueueNDRangeKernel() and <<<>>>; a host that returns before them, for want of
\* a device or of a kernel that builds; finish() and what the host does after it.
Launch(t, from, to) == Step(t, from, [mem EXCEPT !.launched = "yes"], to)
GiveUp(t, from) == Step(t, from, [mem EXCEPT !.launched = "never"], End)
Finish(t, from, new, to) == Await(t, from, \A u \in Items : Ended(u), new, to)

Item(t, from, new, to) ==
    \/ Await(t, from, mem.launched = "yes", new, to)
    \/ Await(t, from, mem.launched = "never", mem, End)

Write(m, i) == [m EXCEPT !.writes[i] = @ + 1]
Report(t, from, ok) ==
    Step(t, from, [mem EXCEPT !.printed = IF ok THEN "correct" ELSE "incorrect"], End)

Buffer(value) == [i \in 0 .. Elements - 1 |-> value]
Unwritten == [i \in 0 .. Elements |-> 0]

-----------------------------------------------------------------------------
\* OpenCL. The kernels guard with n, though as many items as elements are run.

\* Vector Addition/vector_add.cl and main.cpp
vector_add(t) ==
    LET gid == global_id(t)
    IN  Item(t, 2, IF gid < Elements
                   THEN [Write(mem, gid) EXCEPT !.C[gid] = <<gid, 2 * gid>>] ELSE mem, End)

vector_add_main(t) ==
    GiveUp(t, 28) \/ Launch(t, 28, 58) \/ Finish(t, 58, [mem EXCEPT !.read = mem.C], End)

VectorAdd ==
    Grid(28, Elements, 2, [launched |-> "no", writes |-> Unwritten,
                           C |-> Buffer(Unknown), read |-> Buffer(<<0>>)])

\* saxpy_kernel.cpp, with 2 for alpha: y is read and written.
alpha == 2

saxpy(t) ==
    LET i == global_id(t)
    IN  Item(t, 32, IF i < Elements
                    THEN [Write(mem, i) EXCEPT !.y[i] = alpha * 1 + @] ELSE mem, End)

saxpy_main(t) ==
    \/ GiveUp(t, 12) \/ Launch(t, 12, 66)
    \/ Finish(t, 66, [mem EXCEPT !.read = mem.y], 72)
    \/ Report(t, 72, \A i \in DOMAIN mem.read : mem.read[i] = alpha + 3)

Saxpy ==
    Grid(12, Elements, 32, [launched |-> "no", writes |-> Unwritten, printed |-> "",
                            y |-> Buffer(3), read |-> Buffer(3)])

\* non_linear_transform.cpp: the function of x is written as its name and x.
nonlinear(t) ==
    LET i == global_id(t)
    IN  Item(t, 33, IF i < Elements
                    THEN [Write(mem, i) EXCEPT !.y[i] = <<"sin+log", i>>] ELSE mem, End)

nonlinear_main(t) ==
    \/ GiveUp(t, 14) \/ Launch(t, 14, 69)
    \/ Finish(t, 69, [mem EXCEPT !.read = mem.y], 74)
    \/ Report(t, 74, \A i \in DOMAIN mem.read : mem.read[i] = <<"sin+log", i>>)

Nonlinear ==
    Grid(14, Elements, 33, [launched |-> "no", writes |-> Unwritten, printed |-> "",
                            y |-> Buffer(Unknown), read |-> Buffer(<<0>>)])

\* convolution_1d.cpp, in quarters: the first and the last item write nothing,
\* and the check begins at the second element. (It ends at the tenth.)
stencil1d(t) ==
    LET i == global_id(t)
    IN  Item(t, 31, IF i > 0 /\ i < Elements - 1
                    THEN [Write(mem, i) EXCEPT !.y[i] = <<1, 2, 1>>] ELSE mem, End)

stencil_main(t) ==
    \/ GiveUp(t, 12) \/ Launch(t, 12, 63)
    \/ Finish(t, 63, [mem EXCEPT !.read = mem.y], 68)
    \/ Report(t, 68, \A i \in 1 .. Elements - 2 : mem.read[i] = <<1, 2, 1>>)

Stencil ==
    Grid(12, Elements, 31, [launched |-> "no", writes |-> Unwritten, printed |-> "",
                            y |-> Buffer(Unknown), read |-> Buffer(<<0>>)])

\* opencl_fvm_solver.cpp: an item reads u and writes its own cell of u_new, so that
\* a launch is one step. The first u_new is never initialised. Of a value the
\* model keeps whether it is known.
nx == 9
cells == (0 .. nx - 1) \X (0 .. nx - 1)
Inner(c) == \A d \in 1 .. 2 : 0 < c[d] /\ c[d] < nx - 1
Around(c) == {c, <<c[1] + 1, c[2]>>, <<c[1] - 1, c[2]>>, <<c[1], c[2] + 1>>, <<c[1], c[2] - 1>>}

fvm_diffusion_step(u, u_new) ==
    [c \in cells |-> IF ~Inner(c) THEN u_new[c]
                     ELSE IF \E d \in Around(c) : u[d] = Unknown THEN Unknown ELSE <<"known">>]

fvm_main(t) ==
    \/ mem.s < 3 * Rounds
       /\ Step(t, 82, [mem EXCEPT !.s = @ + 1, !.u = fvm_diffusion_step(mem.u, mem.u_new),
                                  !.u_new = mem.u], 82)
    \/ mem.s = 3 * Rounds /\ Step(t, 82, mem, End)

FvmSolver ==
    Main(<<82>>, {}, {}, [s |-> 0, u |-> [c \in cells |-> <<"known">>],
                          u_new |-> [c \in cells |-> Unknown]])

-----------------------------------------------------------------------------
\* parallel_reduction.cpp: the product of element i is a power of four, so that a
\* sum tells its terms. Both kernels are run by the same items in the model.

Product[i \in Nat] == IF i = 0 THEN 1 ELSE 4 * Product[i - 1]

groups == (DotLength + LOCAL_SIZE - 1) \div LOCAL_SIZE
group_id(t) == global_id(t) \div LOCAL_SIZE
local_id(t) == global_id(t) % LOCAL_SIZE
Group(t) == {u \in Items : group_id(u) = group_id(t)}
Sum[s \in Seq(Nat)] == IF s = <<>> THEN 0 ELSE Head(s) + Sum[Tail(s)]

\* barrier(): an item arrives with the statement before it, and the one after it
\* is for those whose group has arrived as often.
Arrive(m, t) == [m EXCEPT !.barriers[t] = @ + 1]
Passed(t, members) == \A u \in members : mem.barriers[u] >= mem.barriers[t]

mul(t) ==
    LET i == global_id(t)
    IN  Item(t, 41, IF i < DotLength THEN [mem EXCEPT !.C[i] = Product[i]] ELSE mem, 51)

reduce(t) ==
    LET lid == local_id(t)
        g == group_id(t)
        half == mem.offset[t]
        value == IF global_id(t) < DotLength THEN mem.C[global_id(t)] ELSE 0
        Add == IF lid < half
               THEN [mem EXCEPT !.shared[g][lid] = @ + mem.shared[g][lid + half]] ELSE mem
    IN  \/ Await(t, 51, \A u \in Items : pc[u] # 41,
                 Arrive([mem EXCEPT !.shared[g][lid] = value], t), 61)
        \/ half > 0 /\ Passed(t, Group(t))
           /\ Step(t, 61, Arrive([Add EXCEPT !.offset[t] = half \div 2], t), 61)
        \/ half = 0 /\ Passed(t, Group(t))
           /\ Step(t, 61, IF lid = 0 THEN [mem EXCEPT !.output[g] = mem.shared[g][0]]
                          ELSE mem, End)

reduction_main(t) ==
    \/ GiveUp(t, 12) \/ Launch(t, 12, 119)
    \/ Finish(t, 119, [mem EXCEPT !.gpu_dot = Sum[[g \in 1 .. groups |-> mem.output[g - 1]]],
                                  !.cpu_dot = Sum[[i \in 1 .. DotLength |-> Product[i - 1]]]], 130)
    \/ Report(t, 130, mem.cpu_dot = mem.gpu_dot)

ParallelReduction ==
    LET items == groups * LOCAL_SIZE
        Each(value) == [t \in 1 .. items + 1 |-> value]
    IN  Grid(12, items, 41,
             [launched |-> "no", printed |-> "", cpu_dot |-> 0, gpu_dot |-> 0,
              C |-> [i \in 0 .. DotLength - 1 |-> 0],
              shared |-> [g \in 0 .. groups - 1 |-> [l \in 0 .. LOCAL_SIZE - 1 |-> 0]],
              output |-> [g \in 0 .. groups - 1 |-> 0],
              barriers |-> Each(0), offset |-> Each(LOCAL_SIZE \div 2)])

-----------------------------------------------------------------------------
\* CUDA

BlockSize == 2

\* vec_addition.cu: one block of as many threads as there are elements.
cuda_vector_add(t) ==
    LET i == global_id(t)
    IN  Item(t, 8, [Write(mem, i) EXCEPT !.C[i] = <<i, Elements - i>>], End)

vec_addition_main(t) ==
    Launch(t, 38, 41) \/ Finish(t, 41, [mem EXCEPT !.read = mem.C], End)

VecAddition ==
    Grid(38, Elements, 8, [launched |-> "no", writes |-> Unwritten,
                           C |-> Buffer(Unknown), read |-> Buffer(Unknown)])

\* block_thread_indexing.cu: where blockIdx.x * blockDim.x is meant, the three are
\* added. The last thread writes behind the last element.
indexed_vector_add(t) ==
    LET threadIdx == global_id(t) % BlockSize
        blockIdx == global_id(t) \div BlockSize
        i == threadIdx + blockIdx + BlockSize
    IN  Item(t, 9, [Write(mem, i) EXCEPT !.C[i] = <<i, 2 * BlockSize - i>>], End)

indexing_main(t) ==
    Launch(t, 39, 42) \/ Finish(t, 42, [mem EXCEPT !.read = mem.C], End)

BlockThreadIndexing ==
    LET Size == 2 * BlockSize
    IN  Grid(39, Size, 9,
             [launched |-> "no", writes |-> [i \in 0 .. Size |-> 0],
              C |-> [i \in 0 .. Size |-> Unknown], read |-> [i \in 0 .. Size |-> Unknown]])

\* double_vec.cu, zero_fill.cu, invert_rgba.cu: solve() rounds the number of
\* threads up to whole blocks, and the kernels guard.
\* Mutant: the last block is not rounded up.
Mut_blocks == Elements \div BlockSize

blocks == (Elements + BlockSize - 1) \div BlockSize

Kernel(t, from, value) ==
    LET i == global_id(t)
    IN  Item(t, from, IF i < Elements THEN [Write(mem, i) EXCEPT !.data[i] = value] ELSE mem, End)

double_kernel(t) == Kernel(t, 4, 2 * mem.data[global_id(t)])
zero_kernel(t) == Kernel(t, 4, 0)
invert_kernel(t) == Kernel(t, 4, 255 - mem.data[global_id(t)])

solve(t, launch) == Launch(t, launch, launch + 1) \/ Finish(t, launch + 1, mem, End)
double_solve(t) == solve(t, 12)
zero_solve(t) == solve(t, 12)
invert_solve(t) == solve(t, 22)

Solve(launch) ==
    Grid(launch, blocks * BlockSize, 4,
         [launched |-> "no", writes |-> Unwritten, data |-> [i \in 0 .. Elements - 1 |-> i + 1]])

\* nonlinear_tiled_matmul.cu with tiles of BlockSize for 32, one block of the
\* grid. An element of x or y is its row and column, and a sum the sequence of
\* its terms. A warp is a row of the block.
width == 2 * BlockSize
tx(t) == global_id(t) % BlockSize
ty(t) == global_id(t) \div BlockSize
lanes == 0 .. BlockSize - 1
Terms(row, column) == [k \in 1 .. width |-> <<<<row, k - 1>>, <<k - 1, column>>>>]
Warp(t) == {u \in Items : ty(u) = ty(t)}

Loaded(t, at) ==
    LET gx == mem.block[1] + tx(t)
        gy == mem.block[2] + ty(t)
    IN  [mem EXCEPT !.tile_x[ty(t)][tx(t)] = <<gy, at + tx(t)>>,
                    !.tile_y[ty(t)][tx(t)] = <<at + ty(t), gx>>]

\* Mutant: no barrier between the use of a tile and the load of the next one.
Mut_load_tile(t) ==
    mem.t[t] < width /\ Item(t, 22, Arrive(Loaded(t, mem.t[t]), t), 32)

\* Lines 22 to 41: wait, load a tile; wait, accumulate.
load_tile(t) ==
    mem.t[t] < width /\ Passed(t, Items) /\ Item(t, 22, Arrive(Loaded(t, mem.t[t]), t), 32)

use_tile(t) ==
    LET Read == [k \in 1 .. BlockSize |-> <<mem.tile_x[ty(t)][k - 1], mem.tile_y[k - 1][tx(t)]>>]
    IN  Passed(t, Items)
        /\ Step(t, 32, Arrive([mem EXCEPT !.acc[t] = @ \o Read, !.t[t] = @ + BlockSize], t), 22)

\* Lines 43 to 51: the first lane of a warp gets the sum of its lanes' sums.
shuffle(t) ==
    \/ mem.t[t] = width /\ Passed(t, Items) /\ Step(t, 22, Arrive(mem, t), 49)
    \/ Passed(t, Warp(t))
       /\ Step(t, 49, IF tx(t) = 0 /\ ty(t) = 0
                      THEN [mem EXCEPT !.z = @ \cup {mem.acc[u] : u \in Warp(t)}] ELSE mem, End)

tiled_main(t) ==
    \/ \E bx, by \in {0, BlockSize} :
          Step(t, 73, [mem EXCEPT !.launched = "yes", !.block = <<bx, by>>], 77)
    \/ Finish(t, 77, mem, End)

TiledMatmul ==
    LET Each(value) == [t \in 1 .. BlockSize * BlockSize + 1 |-> value]
        tile == [r \in lanes |-> [c \in lanes |-> Unknown]]
    IN  Grid(73, BlockSize * BlockSize, 22,
             [launched |-> "no", block |-> <<0, 0>>, z |-> {}, t |-> Each(0), acc |-> Each(<<>>),
              barriers |-> Each(0), tile_x |-> tile, tile_y |-> tile])

-----------------------------------------------------------------------------
\* Execution Policies/parallel.cpp: the first scan and then one item for each
\* element, twice with the same buffers (in main and in bench).

predicate(x) == x % 3 = 0
Kept(v, k) == Cardinality({i \in 1 .. k : predicate(v[i])})

select_scan(m) ==
    [m EXCEPT !.index = [i \in 1 .. Elements |-> Kept(m.v, i)],
              !.w = [k \in 1 .. Kept(m.v, Elements) |-> IF k \in DOMAIN @ THEN @[k] ELSE 0],
              !.todo = 1 .. Elements]

select_item(t) ==
    LET i == t - 1
    IN  \/ Await(t, 61, i \in mem.todo,
                 IF predicate(mem.v[i])
                 THEN [mem EXCEPT !.w[mem.index[i]] = mem.v[i], !.todo = @ \ {i}]
                 ELSE [mem EXCEPT !.todo = @ \ {i}], 61)
        \/ Await(t, 61, pc[1] = End, mem, End)

select_main(t) ==
    \/ \E v \in [1 .. Elements -> {1, 3, 6}] : Step(t, 88, [mem EXCEPT !.v = v], 93)
    \/ Step(t, 93, select_scan(mem), 94)
    \/ mem.todo = {} /\ Test(t, 94, mem.w = <<>> \/ \E k \in DOMAIN mem.w : ~predicate(mem.w[k]),
                             End, 126)
    \/ Step(t, 126, select_scan(mem), 128)
    \/ Await(t, 128, mem.todo = {}, mem, End)

Select ==
    Grid(88, Elements, 61, [v |-> <<>>, index |-> <<>>, w |-> <<>>, todo |-> {}])

\* Execution Policies/sequential.cpp: after the check y goes on growing.
initialize(m) == [m EXCEPT !.x = [i \in DOMAIN @ |-> i], !.y = [i \in DOMAIN @ |-> 2]]
daxpy(m) == [m EXCEPT !.y = [i \in DOMAIN @ |-> 2 * m.x[i] + @[i]]]
check(m) == \A i \in DOMAIN m.y : m.y[i] = 2 * i + 2

daxpy_main(t) ==
    \/ Step(t, 71, initialize(mem), 73)
    \/ Step(t, 73, daxpy(mem), 75)
    \/ Step(t, 75, [mem EXCEPT !.ok = check(mem)], IF check(mem) THEN 84 ELSE End)
    \/ Step(t, 84, daxpy(mem), 87)
    \/ mem.it < Rounds /\ Step(t, 87, [daxpy(mem) EXCEPT !.it = @ + 1], 87)
    \/ mem.it = Rounds /\ Step(t, 87, mem, End)

Daxpy == Main(<<71>>, {}, {}, [x |-> Buffer(0), y |-> Buffer(0), it |-> 0, ok |-> FALSE])

-----------------------------------------------------------------------------
\* A step of thread t, and the programs of this module

KernelStep(t) ==
    \/ program = "vector_add" /\ IF t = 1 THEN vector_add_main(t) ELSE vector_add(t)
    \/ program = "saxpy" /\ IF t = 1 THEN saxpy_main(t) ELSE saxpy(t)
    \/ program = "non_linear_transform" /\ IF t = 1 THEN nonlinear_main(t) ELSE nonlinear(t)
    \/ program = "convolution_1d" /\ IF t = 1 THEN stencil_main(t) ELSE stencil1d(t)
    \/ program = "fvm_solver" /\ fvm_main(t)
    \/ program = "parallel_reduction"
         /\ IF t = 1 THEN reduction_main(t) ELSE mul(t) \/ reduce(t)
    \/ program = "vec_addition" /\ IF t = 1 THEN vec_addition_main(t) ELSE cuda_vector_add(t)
    \/ program = "block_thread_indexing"
         /\ IF t = 1 THEN indexing_main(t) ELSE indexed_vector_add(t)
    \/ program = "double_vec" /\ IF t = 1 THEN double_solve(t) ELSE double_kernel(t)
    \/ program = "zero_fill" /\ IF t = 1 THEN zero_solve(t) ELSE zero_kernel(t)
    \/ program = "invert_rgba" /\ IF t = 1 THEN invert_solve(t) ELSE invert_kernel(t)
    \/ program = "tiled_matmul"
         /\ IF t = 1 THEN tiled_main(t) ELSE load_tile(t) \/ use_tile(t) \/ shuffle(t)
    \/ program = "select" /\ IF t = 1 THEN select_main(t) ELSE select_item(t)
    \/ program = "daxpy" /\ daxpy_main(t)

KernelMains ==
    [vector_add |-> VectorAdd,
     saxpy |-> Saxpy,
     non_linear_transform |-> Nonlinear,
     convolution_1d |-> Stencil,
     fvm_solver |-> FvmSolver,
     parallel_reduction |-> ParallelReduction,
     vec_addition |-> VecAddition,
     block_thread_indexing |-> BlockThreadIndexing,
     double_vec |-> Solve(12),
     zero_fill |-> Solve(12),
     invert_rgba |-> Solve(22),
     tiled_matmul |-> TiledMatmul,
     select |-> Select,
     daxpy |-> Daxpy]

=============================================================================
