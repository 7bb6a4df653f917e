------------------------- MODULE LockFreeQueueProofs -------------------------
(***************************************************************************)
(* Theorems about LockFreeQueue, for any number of threads and of calls.   *)
(*                                                                         *)
(* The inductive invariant QueueInv says that there is a sequence `list`   *)
(* of all the nodes that have ever been linked, in the order of their      *)
(* linking, which a node never leaves: `rank` is the place of a node in    *)
(* it, and 0 as long as it is not linked. The pointers that a thread has   *)
(* read, however long ago, are then numbers to compare: an old tail is     *)
(* not behind the tail, and so on.                                         *)
(***************************************************************************)
EXTENDS LockFreeQueue, FiniteSetTheorems, FunctionTheorems, WellFoundedInduction, SequenceTheorems, TLAPS

\* The field next leads from each linked node to the one that was linked after it.
Linked(list, rank) ==
    /\ list \in Seq(Node) /\ Len(list) # 0 /\ list[1] = 0
    /\ rank \in [Node -> Nat]
    /\ \A i \in 1..Len(list) : rank[list[i]] = i
    /\ \A n \in Node : rank[n] # 0 => rank[n] <= Len(list) /\ list[rank[n]] = n
    /\ \A n \in Node :
          nxt[n] = IF rank[n] \in 1..(Len(list) - 1) THEN list[rank[n] + 1] ELSE NULL

\* head is not beyond tail, and tail at most one node short of the end.
PointersInList(list, rank) ==
    /\ rank[head] # 0 /\ rank[head] <= rank[tail]
    /\ Len(list) <= rank[tail] + 1
    /\ Destroyed => rank[head] = Len(list)

\* The line that a producer has reached before it links its node.
Unlinked(p) == pc[p] \in {"p38", "p39", "p41", "p43", "p53"}

\* A node has been allocated for one value, and it is in the list or in the hands of
\* the producer that will link it.
NodesInUse(rank) ==
    /\ \A n \in Node : n >= allocated => rank[n] = 0
    /\ \A n \in 0..(allocated - 1) :
          rank[n] = 0 => \E p \in Producers : new_node[p] = n /\ Unlinked(p)
    /\ \A n \in 1..(allocated - 1) : rank[n] # 0 =>
          \E p \in Producers : \E i \in 1..sent[p] : data[n] = <<p, i>>
    /\ \A m, n \in 1..(allocated - 1) : data[m] = data[n] => m = n

\* What a producer at each line knows.
ProducerInv(rank, p) ==
    /\ pc[p] \in ProducerPC
    /\ Unlinked(p) =>
          /\ sent[p] < ProducesPer
          /\ new_node[p] \in 1..(allocated - 1) /\ rank[new_node[p]] = 0
          /\ data[new_node[p]] = <<p, sent[p] + 1>>
    /\ pc[p] \in {"p33", "end"} => new_node[p] = NULL
    /\ pc[p] = "p33" => sent[p] < ProducesPer
    /\ pc[p] \in {"p39", "p41", "p43", "p46", "p53"} =>
          old_tail[p] \in Node /\ rank[old_tail[p]] \in 1..rank[tail]
    /\ pc[p] = "p41" => next[p] \in {NULL, nxt[old_tail[p]]}
    /\ pc[p] = "p53" => next[p] # NULL /\ next[p] = nxt[old_tail[p]]
    /\ pc[p] = "p46" => new_node[p] # NULL /\ new_node[p] = nxt[old_tail[p]]

\* What a consumer at each line knows. One that has read that nothing follows the
\* head has found the queue empty.
ConsumerInv(rank, c) ==
    /\ pc[c] \in ConsumerPC
    /\ pc[c] \in {"c68", "c69", "c71", "c77", "c81", "c82", "c85"} =>
          old_head[c] \in Node /\ rank[old_head[c]] \in 1..rank[head]
    /\ pc[c] \in {"c69", "c71", "c77", "c81", "c82"} =>
          /\ old_tail[c] \in Node
          /\ rank[old_tail[c]] \in rank[old_head[c]]..rank[tail]
    /\ pc[c] = "c71" =>
          /\ next[c] \in {NULL, nxt[old_head[c]]}
          /\ next[c] = NULL => old_head[c] = old_tail[c] /\ c \in emptied
    /\ pc[c] \in {"c77", "c81", "c82"} => next[c] # NULL /\ next[c] = nxt[old_head[c]]
    /\ pc[c] = "c77" => old_head[c] = old_tail[c]
    /\ pc[c] \in {"c81", "c82"} => old_head[c] # old_tail[c]
    /\ pc[c] = "c82" => result[c] = data[next[c]]
    /\ pc[c] = "c85" => rank[old_head[c]] < rank[head]
    /\ pc[c] = "end" => c \in emptied

\* Who has taken a node out of the list and is about to delete it.
Removes(c, n) == pc[c] = "c85" /\ old_head[c] = n

\* The nodes before the head have been deleted or are about to be, by one thread.
NodesDeleted(rank) ==
    /\ \A c, d \in Consumers : \A n \in Node : Removes(c, n) /\ Removes(d, n) => c = d
    /\ \A n \in Node : n \in freed <=>
          /\ rank[n] # 0
          /\ rank[n] < rank[head] \/ Destroyed
          /\ \A c \in Consumers : ~Removes(c, n)

\* While the queue is empty, everyone in consume() has noted it.
EmptinessNoted == nxt[head] = NULL => InConsume \subseteq emptied

ListInv(list, rank) ==
    /\ Linked(list, rank)
    /\ PointersInList(list, rank)
    /\ NodesInUse(rank)
    /\ \A p \in Producers : ProducerInv(rank, p)
    /\ \A c \in Consumers : ConsumerInv(rank, c)
    /\ NodesDeleted(rank)

QueueInv ==
    /\ TypeOK
    /\ EmptinessNoted
    /\ \E list \in Seq(Node), rank \in [Node -> Nat] : ListInv(list, rank)

-----------------------------------------------------------------------------
\* The list.

LEMMA MaxNodeIsNat == MaxNode \in Nat /\ 0 \in Node /\ NULL \notin Node
<1>1. Cardinality(Producers) \in Nat
  BY QueueAssumption, FS_CardinalityType
<1> QED
  BY <1>1, QueueAssumption DEF MaxNode, Node

\* A linked node is known by its rank; next leads to the node of the next rank, from
\* all but the last.
LEMMA ListFacts ==
    ASSUME NEW list, NEW rank, Linked(list, rank)
    PROVE  /\ Len(list) \in Nat \ {0} /\ rank[0] = 1
           /\ \A i \in 1..Len(list) : list[i] \in Node /\ rank[list[i]] = i
           /\ \A n \in Node : rank[n] \in 0..Len(list)
           /\ \A m, n \in Node : rank[m] # 0 /\ rank[m] = rank[n] => m = n
           /\ \A n \in Node : nxt[n] # NULL =>
                 /\ rank[n] # 0 /\ rank[n] < Len(list)
                 /\ nxt[n] \in Node /\ rank[nxt[n]] = rank[n] + 1 /\ nxt[n] # 0
           /\ \A n \in Node : rank[n] # 0 /\ nxt[n] = NULL => rank[n] = Len(list)
<1> USE MaxNodeIsNat DEF Linked
<1>1. Len(list) \in Nat \ {0} /\ rank[0] = 1
  OBVIOUS
<1>2. \A i \in 1..Len(list) : list[i] \in Node /\ rank[list[i]] = i
  OBVIOUS
<1>3. \A n \in Node : rank[n] \in 0..Len(list)
  OBVIOUS
<1>4. \A m, n \in Node : rank[m] # 0 /\ rank[m] = rank[n] => m = n
  OBVIOUS
<1>5. ASSUME NEW n \in Node, nxt[n] # NULL
      PROVE  /\ rank[n] # 0 /\ rank[n] < Len(list)
             /\ nxt[n] \in Node /\ rank[nxt[n]] = rank[n] + 1 /\ nxt[n] # 0
  <2>1. rank[n] \in 1..(Len(list) - 1) /\ nxt[n] = list[rank[n] + 1]
    BY <1>5
  <2> QED
    BY <1>1, <1>2, <2>1
<1>6. ASSUME NEW n \in Node, rank[n] # 0, nxt[n] = NULL
      PROVE  rank[n] = Len(list)
  <2>1. rank[n] \in 1..Len(list)
    BY <1>3, <1>6
  <2>2. CASE rank[n] # Len(list)
    <3>1. nxt[n] = list[rank[n] + 1] /\ rank[n] + 1 \in 1..Len(list)
      BY <2>1, <2>2
    <3> QED
      BY <1>2, <1>6, <3>1
  <2> QED
    BY <2>2
<1> QED
  BY <1>1, <1>2, <1>3, <1>4, <1>5, <1>6

-----------------------------------------------------------------------------
\* What a step does to the others.

SameLocals(t) ==
    /\ pc'[t] = pc[t] /\ old_head'[t] = old_head[t] /\ old_tail'[t] = old_tail[t]
    /\ next'[t] = next[t] /\ new_node'[t] = new_node[t]
    /\ t \in Consumers => result'[t] = result[t]

\* The list only grows, at its end, and head and tail move on.
LEMMA OtherProducer ==
    ASSUME TypeOK, TypeOK', NEW list, NEW rank, ListInv(list, rank),
           NEW rank2 \in [Node -> Nat], \A n \in Node : rank[n] # 0 => rank2[n] = rank[n],
           \A n \in Node : nxt[n] # NULL => nxt'[n] = nxt[n],
           rank2[tail'] >= rank[tail],
           allocated' >= allocated, \A n \in 1..(allocated - 1) : data'[n] = data[n],
           NEW p \in Producers, SameLocals(p), sent'[p] = sent[p],
           Unlinked(p) => rank2[new_node[p]] = 0
    PROVE  ProducerInv(rank2, p)'
<1> USE MaxNodeIsNat
<1>1. ProducerInv(rank, p) /\ Linked(list, rank)
  BY DEF ListInv
<1>2. /\ rank \in [Node -> Nat] /\ tail \in Node /\ tail' \in Node
      /\ allocated \in Nat /\ allocated' \in Nat
  <2>1. allocated \in Nat /\ allocated' \in Nat
    BY DEF TypeOK
  <2> QED
    BY <1>1, <2>1 DEF Linked, TypeOK
<1>3. pc[p] \in {"p39", "p41", "p43", "p46", "p53"} =>
          old_tail[p] \in Node /\ rank2[old_tail[p]] \in 1..rank2[tail']
  BY <1>1, <1>2 DEF ProducerInv
<1> QED
  BY <1>1, <1>2, <1>3 DEF ProducerInv, SameLocals, Unlinked

LEMMA OtherConsumer ==
    ASSUME TypeOK, TypeOK', NEW list, NEW rank, ListInv(list, rank),
           NEW rank2 \in [Node -> Nat], \A n \in Node : rank[n] # 0 => rank2[n] = rank[n],
           \A n \in Node : nxt[n] # NULL => nxt'[n] = nxt[n] /\ data'[nxt[n]] = data[nxt[n]],
           rank2[head'] >= rank[head], rank2[tail'] >= rank[tail],
           NEW c \in Consumers, SameLocals(c), c \in emptied => c \in emptied'
    PROVE  ConsumerInv(rank2, c)'
<1> USE MaxNodeIsNat
<1>1. ConsumerInv(rank, c) /\ Linked(list, rank)
  BY DEF ListInv
<1>2. /\ rank \in [Node -> Nat] /\ tail \in Node /\ tail' \in Node
      /\ head \in Node /\ head' \in Node
  BY <1>1 DEF Linked, TypeOK
<1>3. pc[c] \in {"c68", "c69", "c71", "c77", "c81", "c82", "c85"} =>
          /\ old_head[c] \in Node /\ rank2[old_head[c]] = rank[old_head[c]]
          /\ rank2[old_head[c]] \in 1..rank2[head']
          /\ rank[old_head[c]] < rank[head] => rank2[old_head[c]] < rank2[head']
  BY <1>1, <1>2 DEF ConsumerInv
<1>4. pc[c] \in {"c69", "c71", "c77", "c81", "c82"} =>
          /\ old_tail[c] \in Node
          /\ rank2[old_tail[c]] \in rank2[old_head[c]]..rank2[tail']
  BY <1>1, <1>2, <1>3 DEF ConsumerInv
<1> QED
  BY <1>1, <1>2, <1>3, <1>4 DEF ConsumerInv, SameLocals

\* A step of t that neither links nor removes a node: tail may have moved on.
LEMMA StepFrame ==
    ASSUME TypeOK, TypeOK', NEW list, NEW rank, ListInv(list, rank),
           NEW t \in Threads, pc[t] # "end",
           UNCHANGED <<head, nxt, data, allocated, freed, sent>>,
           rank[tail'] >= rank[tail],
           \A u \in Threads \ {t} : SameLocals(u),
           t \in Producers => /\ Unlinked(t)' <=> Unlinked(t)
                              /\ Unlinked(t) => new_node'[t] = new_node[t],
           pc[t] # "c85" /\ pc'[t] # "c85",
           emptied \subseteq emptied'
    PROVE  /\ Linked(list, rank)'
           /\ PointersInList(list, rank)'
           /\ NodesInUse(rank)'
           /\ NodesDeleted(rank)'
           /\ \A p \in Producers \ {t} : ProducerInv(rank, p)'
           /\ \A c \in Consumers \ {t} : ConsumerInv(rank, c)'
<1> USE MaxNodeIsNat DEF ListInv
<1>1. Linked(list, rank)'
  BY DEF Linked
<1>2. /\ rank \in [Node -> Nat] /\ tail \in Node /\ tail' \in Node
      /\ head \in Node /\ head' \in Node /\ allocated \in Nat
      /\ Producers \subseteq Threads /\ Consumers \subseteq Threads
  BY DEF Linked, TypeOK, Threads, Node
<1>3. ~Destroyed /\ ~Destroyed' 
  <2>1. ~Destroyed /\ ~Ended
    BY DEF Destroyed, Ended
  <2>2. head \notin freed
    BY <1>2, <2>1 DEF NodesDeleted
  <2> QED
    BY <2>1, <2>2 DEF Destroyed
<1>4. PointersInList(list, rank)'
  BY <1>1, <1>2, <1>3, ListFacts DEF PointersInList
<1>5. NodesInUse(rank)'
  <2>1. \A p \in Producers : Unlinked(p) => Unlinked(p)' /\ new_node'[p] = new_node[p]
    BY <1>2 DEF SameLocals, Unlinked
  <2> QED
    BY <2>1 DEF NodesInUse
<1>6. NodesDeleted(rank)'
  <2>1. \A c \in Consumers, n \in Node : Removes(c, n)' <=> Removes(c, n)
    BY <1>2 DEF Removes, SameLocals
  <2> QED
    BY <1>3, <2>1 DEF NodesDeleted
<1>7. ASSUME NEW p \in Producers \ {t} PROVE ProducerInv(rank, p)'
  <2>1. Unlinked(p) => rank[new_node[p]] = 0
    BY DEF ProducerInv
  <2> QED
    BY <1>2, <2>1, OtherProducer
<1>8. ASSUME NEW c \in Consumers \ {t} PROVE ConsumerInv(rank, c)'
  BY <1>2, OtherConsumer
<1> QED
  BY <1>1, <1>4, <1>5, <1>6, <1>7, <1>8

-----------------------------------------------------------------------------
\* Following the list from the head.

\* A set of numbers that is not empty has a least one.
LEMMA LeastNumber ==
    ASSUME NEW T, T \subseteq Nat, T # {}
    PROVE  \E x \in T : \A y \in T : x <= y
<1>1. \E x \in T : \A y \in T : <<y, x>> \notin OpToRel(<, Nat)
  BY NatLessThanWellFounded, WFMin
<1>2. ASSUME NEW x \in T, NEW y \in T, <<y, x>> \notin OpToRel(<, Nat)
      PROVE  x <= y
  BY <1>2 DEF OpToRel
<1> QED
  BY <1>1, <1>2

\* No node is twice in the list, so it fits.
LEMMA ListFits ==
    ASSUME NEW list, NEW rank, Linked(list, rank)
    PROVE  Len(list) <= MaxNode + 1
<1>1. list \in Injection(1..Len(list), Node)
  <2>1. list \in [1..Len(list) -> Node] /\ \A i, j \in 1..Len(list) : list[i] = list[j] => i = j
    BY DEF Linked
  <2> QED
    BY <2>1, Fun_IsInj
<1>2. IsFiniteSet(Node) /\ Cardinality(Node) = MaxNode + 1
  BY MaxNodeIsNat, FS_Interval DEF Node
<1>3. Cardinality(1..Len(list)) <= Cardinality(Node)
  BY <1>1, <1>2, FS_Injection
<1> QED
  BY <1>2, <1>3, FS_Interval, ListFacts

\* The definition of AfterHead, for a head hd and a field next nx.
Follows(g, hd, nx) ==
    g = [n \in 0..MaxNode |->
           IF n = 0 THEN hd ELSE IF g[n - 1] = NULL THEN NULL ELSE nx[g[n - 1]]]

\* What is found behind the k-th node of a list.
From(list, k) == [n \in 0..MaxNode |-> IF n <= Len(list) - k THEN list[k + n] ELSE NULL]

\* The places at which something is found.
Places(g) == {n \in 1..MaxNode : g[n] # NULL}

\* One function follows the list, and it is this one.
LEMMA FollowList ==
    ASSUME NEW list \in Seq(Node), NEW k \in 1..Len(list), Len(list) <= MaxNode + 1,
           NEW nx, \A i \in k..Len(list) : nx[list[i]] = IF i < Len(list) THEN list[i + 1] ELSE NULL
    PROVE  /\ Follows(From(list, k), list[k], nx)
           /\ \A f : Follows(f, list[k], nx) => f = From(list, k)
           /\ Cardinality(Places(From(list, k))) = Len(list) - k
<1> USE MaxNodeIsNat
<1> DEFINE found == From(list, k)
<1>1. \A i \in 1..Len(list) : list[i] \in Node /\ list[i] # NULL
  OBVIOUS
<1>2. Follows(found, list[k], nx)
  <2>1. ASSUME NEW n \in 0..MaxNode, n # 0
        PROVE  found[n] = IF found[n - 1] = NULL THEN NULL ELSE nx[found[n - 1]]
    <3>1. found[n] = IF n <= Len(list) - k THEN list[k + n] ELSE NULL
      BY DEF From
    <3>2. n - 1 \in 0..MaxNode
      BY <2>1
    <3>3. found[n - 1] = IF n - 1 <= Len(list) - k THEN list[k + (n - 1)] ELSE NULL
      BY <3>2 DEF From
    <3>4. CASE n - 1 <= Len(list) - k
      <4>1. /\ k + (n - 1) \in k..Len(list) /\ k + (n - 1) \in 1..Len(list)
            /\ k + (n - 1) < Len(list) <=> n <= Len(list) - k
            /\ k + (n - 1) + 1 = k + n
        BY <2>1, <3>4
      <4> QED
        BY <1>1, <3>1, <3>3, <3>4, <4>1
    <3>5. CASE ~(n - 1 <= Len(list) - k)
      BY <2>1, <3>1, <3>3, <3>5
    <3> QED
      BY <3>4, <3>5
  <2>2. found[0] = list[k]
    BY DEF From
  <2>3. found = [n \in 0..MaxNode |-> found[n]]
    BY DEF From
  <2> HIDE DEF found
  <2> QED
    BY <2>1, <2>2, <2>3 DEF Follows
<1> HIDE DEF found
<1>3. ASSUME NEW f, Follows(f, list[k], nx) PROVE f = found
  <2>1. f = [n \in 0..MaxNode |-> f[n]] /\ found = [n \in 0..MaxNode |-> found[n]]
    BY <1>2, <1>3 DEF Follows
  <2> DEFINE Differ == {n \in 0..MaxNode : f[n] # found[n]}
  <2>2. Differ = {}
    <3> SUFFICES ASSUME Differ # {} PROVE FALSE
      OBVIOUS
    <3>0. Differ \subseteq Nat
      OBVIOUS
    <3>1. PICK n \in Differ : \A m \in Differ : n <= m
      <4> HIDE DEF Differ
      <4> QED
        BY <3>0, LeastNumber
    <3>2. n \in 0..MaxNode /\ f[n] # found[n]
      BY <3>1
    <3>3. n # 0
      <4>1. 0 \in 0..MaxNode
        OBVIOUS
      <4>2. \A g : Follows(g, list[k], nx) => g[0] = list[k]
        BY <4>1 DEF Follows
      <4> QED
        BY <1>2, <1>3, <3>2, <4>2
    <3>4. n - 1 \in 0..MaxNode /\ ~(n <= n - 1)
      BY <3>2, <3>3
    <3>5. n - 1 \notin Differ
      <4> HIDE DEF Differ
      <4> QED
        BY <3>1, <3>4
    <3>6. f[n - 1] = found[n - 1]
      BY <3>4, <3>5
    <3>7. f[n] = IF f[n - 1] = NULL THEN NULL ELSE nx[f[n - 1]]
      BY <1>3, <3>2, <3>3 DEF Follows
    <3>8. found[n] = IF found[n - 1] = NULL THEN NULL ELSE nx[found[n - 1]]
      BY <1>2, <3>2, <3>3 DEF Follows
    <3> QED
      BY <3>2, <3>6, <3>7, <3>8
  <2>3. \A n \in 0..MaxNode : f[n] = found[n]
    BY <2>2
  <2> QED
    BY <2>1, <2>3
<1>4. Places(found) = 1..(Len(list) - k)
  <2>1. ASSUME NEW n \in 1..MaxNode
        PROVE  found[n] # NULL <=> n <= Len(list) - k
    BY <1>1 DEF found, From
  <2> QED
    BY <2>1 DEF Places
<1>5. Cardinality(1..(Len(list) - k)) = Len(list) - k
  BY FS_Interval
<1> QED
  BY <1>2, <1>3, <1>4, <1>5 DEF found

\* What is behind the head now.
LEMMA BehindHead ==
    ASSUME NEW list, NEW rank, Linked(list, rank), head \in Node, rank[head] # 0
    PROVE  /\ AfterHead = From(list, rank[head])
           /\ Length = Len(list) - rank[head]
           /\ Reachable = {n \in Node : rank[n] >= rank[head]}
<1> USE MaxNodeIsNat
<1> DEFINE k == rank[head]
<1>1. /\ k \in 1..Len(list) /\ list[k] = head /\ list \in Seq(Node)
      /\ \A i \in 1..Len(list) : list[i] \in Node /\ rank[list[i]] = i
      /\ \A n \in Node : rank[n] \in 0..Len(list) /\ (rank[n] # 0 => list[rank[n]] = n)
  BY ListFacts DEF Linked
<1>2. \A i \in k..Len(list) : nxt[list[i]] = IF i < Len(list) THEN list[i + 1] ELSE NULL
  BY <1>1 DEF Linked
<1>3. AfterHead = CHOOSE g : Follows(g, list[k], nxt)
  BY <1>1 DEF AfterHead, Follows
<1> HIDE DEF k
<1>4. AfterHead = From(list, k) /\ Length = Len(list) - k
  <2>1. /\ Follows(From(list, k), list[k], nxt)
        /\ \A f : Follows(f, list[k], nxt) => f = From(list, k)
        /\ Cardinality(Places(From(list, k))) = Len(list) - k
    <3>1. Len(list) <= MaxNode + 1
      BY ListFits
    <3>2. /\ list \in Seq(Node) /\ k \in 1..Len(list)
      BY <1>1
    <3> QED
      BY <1>2, <3>1, <3>2, FollowList, Zenon
  <2>2. AfterHead = From(list, k)
    BY <1>3, <2>1
  <2> QED
    BY <2>1, <2>2 DEF Length, Places
<1>5. ASSUME NEW n \in Node, rank[n] >= k PROVE n \in Reachable
  <2>1. rank[n] - k \in 0..Length /\ AfterHead[rank[n] - k] = list[k + (rank[n] - k)]
    BY <1>1, <1>4, <1>5, ListFits DEF From
  <2>2. k + (rank[n] - k) = rank[n] /\ rank[n] # 0
    BY <1>1, <1>5
  <2> QED
    BY <1>1, <2>1, <2>2 DEF Reachable
<1>6. ASSUME NEW i \in 0..Length PROVE AfterHead[i] \in Node /\ rank[AfterHead[i]] >= k
  <2>1. i \in 0..MaxNode /\ k + i \in 1..Len(list) /\ AfterHead[i] = list[k + i]
    BY <1>1, <1>4, ListFits DEF From
  <2> QED
    BY <1>1, <2>1
<1>7. Reachable = {n \in Node : rank[n] >= k}
  BY <1>5, <1>6 DEF Reachable
<1> QED
  BY <1>4, <1>7 DEF k

\* The last of them is the last of the list; tail is it or the one before.
LEMMA ReachesEnd ==
    ASSUME NEW list, NEW rank, Linked(list, rank), head \in Node, rank[head] # 0
    PROVE  /\ Length \in 0..MaxNode
           /\ \A i \in 0..Length : AfterHead[i] = list[rank[head] + i] /\ AfterHead[i] \in Node
<1> USE MaxNodeIsNat
<1>1. /\ rank[head] \in 1..Len(list) /\ Len(list) \in Nat /\ Len(list) <= MaxNode + 1
      /\ \A i \in 1..Len(list) : list[i] \in Node
  BY ListFacts, ListFits
<1>2. Length = Len(list) - rank[head] /\ AfterHead = From(list, rank[head])
  BY BehindHead
<1>3. Length \in 0..MaxNode
  BY <1>1, <1>2
<1>4. ASSUME NEW i \in 0..Length
      PROVE  AfterHead[i] = list[rank[head] + i] /\ AfterHead[i] \in Node
  <2>1. i \in 0..MaxNode /\ i <= Len(list) - rank[head] /\ rank[head] + i \in 1..Len(list)
    BY <1>1, <1>2, <1>3
  <2> QED
    BY <1>1, <1>2, <2>1 DEF From
<1> QED
  BY <1>3, <1>4

\* There is a value that p has still to send and a node for it.
LEMMA RoomForAnother ==
    ASSUME TypeOK, NEW list, NEW rank, ListInv(list, rank),
           NEW p \in Producers, pc[p] = "p33"
    PROVE  allocated <= MaxNode /\ <<p, sent[p] + 1>> \in Values
           /\ \A n \in 1..(allocated - 1) : data[n] # <<p, sent[p] + 1>>
<1> USE MaxNodeIsNat, QueueAssumption
<1>1. sent \in [Producers -> 0..ProducesPer] /\ sent[p] < ProducesPer /\ allocated \in Nat \ {0}
  BY DEF ListInv, ProducerInv, TypeOK
<1>2. <<p, sent[p] + 1>> \in Values
  BY <1>1 DEF Values
<1>3. ASSUME NEW n \in 1..(allocated - 1)
      PROVE  data[n] \in Values /\ data[n] # <<p, sent[p] + 1>>
  <2>0. n \in Node
    BY DEF TypeOK, Node
  <2>1. CASE rank[n] # 0
    <3>1. PICK o \in Producers : \E i \in 1..sent[o] : data[n] = <<o, i>>
      BY <2>1 DEF ListInv, NodesInUse
    <3> QED
      BY <1>1, <3>1 DEF Values
  <2>2. CASE rank[n] = 0
    <3>1. PICK o \in Producers : new_node[o] = n /\ Unlinked(o)
      BY <1>1, <2>2 DEF ListInv, NodesInUse
    <3>2. data[n] = <<o, sent[o] + 1>> /\ sent[o] < ProducesPer
      BY <3>1 DEF ListInv, ProducerInv
    <3>3. o # p
      BY <3>1 DEF Unlinked
    <3> QED
      BY <1>1, <3>2, <3>3 DEF Values
  <2> QED
    BY <2>1, <2>2
<1>4. IsFiniteSet(Values) /\ Cardinality(Values) = MaxNode
  <2>1. IsFiniteSet(1..ProducesPer) /\ Cardinality(1..ProducesPer) = ProducesPer
    BY FS_Interval
  <2> QED
    BY <2>1, FS_Product DEF Values, MaxNode
<1>5. /\ IsFiniteSet(Values \ {<<p, sent[p] + 1>>})
      /\ Cardinality(Values \ {<<p, sent[p] + 1>>}) = MaxNode - 1
  <2>1. \A v \in Values : Cardinality(Values \ {v}) = MaxNode - 1 /\ IsFiniteSet(Values \ {v})
    BY <1>4, FS_RemoveElement
  <2> QED
    BY <1>2, <2>1
<1> DEFINE f == [n \in 1..(allocated - 1) |-> data[n]]
<1>6. f \in Injection(1..(allocated - 1), Values \ {<<p, sent[p] + 1>>})
  <2>1. f \in [1..(allocated - 1) -> Values \ {<<p, sent[p] + 1>>}]
    BY <1>3
  <2>2. \A m, n \in 1..(allocated - 1) : f[m] = f[n] => m = n
    BY DEF ListInv, NodesInUse
  <2> QED
    BY <2>1, <2>2, Fun_IsInj
<1>7. Cardinality(1..(allocated - 1)) <= MaxNode - 1
  BY <1>5, <1>6, FS_Injection
<1>8. Cardinality(1..(allocated - 1)) = allocated - 1
  BY <1>1, FS_Interval
<1> QED
  BY <1>1, <1>2, <1>3, <1>7, <1>8

-----------------------------------------------------------------------------
\* Each step keeps the types.

\* What a thread knows of the nodes that it is about to use.
LEMMA NodesKnown ==
    ASSUME TypeOK, NEW list, NEW rank, ListInv(list, rank)
    PROVE  /\ \A p \in Producers :
                 /\ pc[p] \in {"p39", "p41", "p43", "p46", "p53"} => old_tail[p] \in Node
                 /\ Unlinked(p) => new_node[p] \in Node \ {0} /\ sent[p] < ProducesPer
                 /\ pc[p] = "p46" => new_node[p] \in Node \ {0}
                 /\ pc[p] = "p53" => next[p] \in Node \ {0}
           /\ \A c \in Consumers :
                 /\ pc[c] \in {"c68", "c69", "c71", "c77", "c81", "c82", "c85"} => old_head[c] \in Node
                 /\ pc[c] \in {"c69", "c71", "c77", "c81", "c82"} => old_tail[c] \in Node
                 /\ pc[c] \in {"c77", "c81", "c82"} => next[c] \in Node \ {0} /\ data[next[c]] \in Values
<1> USE MaxNodeIsNat
<1>1. /\ Linked(list, rank) /\ NodesInUse(rank)
      /\ \A p \in Producers : ProducerInv(rank, p)
      /\ \A c \in Consumers : ConsumerInv(rank, c)
  BY DEF ListInv
<1>2. allocated \in 1..(MaxNode + 1)
  BY DEF TypeOK
<1>3. \A n \in Node : nxt[n] # NULL => nxt[n] \in Node \ {0} /\ rank[nxt[n]] # 0
  BY <1>1, ListFacts
<1>4. \A n \in Node \ {0} : rank[n] # 0 => data[n] \in Values
  <2> SUFFICES ASSUME NEW n \in Node \ {0}, rank[n] # 0 PROVE data[n] \in Values
    OBVIOUS
  <2>1. n \in 1..(allocated - 1)
    BY <1>1, <1>2 DEF NodesInUse, Node
  <2>2. PICK p \in Producers : \E i \in 1..sent[p] : data[n] = <<p, i>>
    BY <1>1, <2>1 DEF NodesInUse
  <2>3. sent[p] \in 0..ProducesPer
    BY DEF TypeOK
  <2> QED
    BY <2>2, <2>3, QueueAssumption DEF Values
<1>5. ASSUME NEW p \in Producers
      PROVE  /\ pc[p] \in {"p39", "p41", "p43", "p46", "p53"} => old_tail[p] \in Node
             /\ Unlinked(p) => new_node[p] \in Node \ {0} /\ sent[p] < ProducesPer
             /\ pc[p] = "p46" => new_node[p] \in Node \ {0}
             /\ pc[p] = "p53" => next[p] \in Node \ {0}
  BY <1>1, <1>2, <1>3 DEF ProducerInv, Node
<1>6. ASSUME NEW c \in Consumers
      PROVE  /\ pc[c] \in {"c68", "c69", "c71", "c77", "c81", "c82", "c85"} => old_head[c] \in Node
             /\ pc[c] \in {"c69", "c71", "c77", "c81", "c82"} => old_tail[c] \in Node
             /\ pc[c] \in {"c77", "c81", "c82"} => next[c] \in Node \ {0} /\ data[next[c]] \in Values
  BY <1>1, <1>3, <1>4 DEF ConsumerInv
<1> QED
  BY <1>5, <1>6

LEMMA TypeRetry ==
    ASSUME TypeOK, NEW t \in Threads, NEW from, NEW to \in ProducerPC \cup ConsumerPC,
           Retry(t, from, to), result' \in [Consumers -> Values \cup {NULL}]
    PROVE  TypeOK'
  BY DEF Retry, Goto, Forget, shared, history, TypeOK, NodeOrNull

LEMMA TypeStep ==
    ASSUME TypeOK, NEW list, NEW rank, ListInv(list, rank), [Next]_vars
    PROVE  TypeOK'
<1> USE MaxNodeIsNat
<1> USE DEF shared, locals, history, vars, Goto, Forget, Retry, SwingTail
<1>0. Producers \subseteq Threads /\ Consumers \subseteq Threads /\ NULL \in NodeOrNull
      /\ Node \subseteq NodeOrNull
  BY DEF Threads, NodeOrNull
<1>1. ASSUME NEW p \in Producers, Allocate(p) PROVE TypeOK'
  <2>1. allocated <= MaxNode /\ <<p, sent[p] + 1>> \in Values
    BY <1>1, RoomForAnother DEF Allocate
  <2>2. allocated \in Node
    BY <2>1 DEF TypeOK, Node
  <2> QED
    BY <1>0, <1>1, <2>1, <2>2 DEF Allocate, TypeOK, ProducerPC
<1>2. ASSUME NEW p \in Producers, LoadTail(p) PROVE TypeOK'
  BY <1>0, <1>2 DEF LoadTail, TypeOK, ProducerPC
<1>3. ASSUME NEW p \in Producers, LoadTailNext(p) PROVE TypeOK'
  <2>1. old_tail[p] \in Node
    BY <1>3, NodesKnown DEF LoadTailNext
  <2> QED
    BY <1>0, <1>3, <2>1 DEF LoadTailNext, TypeOK, ProducerPC
<1>4. ASSUME NEW p \in Producers, TailStill(p) PROVE TypeOK'
  BY <1>0, <1>4 DEF TailStill, TypeOK, ProducerPC
<1>5. ASSUME NEW p \in Producers, TailMoved(p) \/ LinkFails(p) PROVE TypeOK'
  <2>1. Retry(p, "p41", "p38") \/ Retry(p, "p43", "p38")
    BY <1>5 DEF TailMoved, LinkFails
  <2>2. result' \in [Consumers -> Values \cup {NULL}]
    BY <1>5 DEF TailMoved, LinkFails, TypeOK
  <2> QED
    BY <1>0, <2>1, <2>2, TypeRetry DEF ProducerPC
<1>6. ASSUME NEW p \in Producers, Link(p) PROVE TypeOK'
  <2>1. old_tail[p] \in Node /\ new_node[p] \in Node /\ sent[p] < ProducesPer
    BY <1>6, NodesKnown DEF Link, Unlinked
  <2> QED
    BY <1>0, <1>6, <2>1, QueueAssumption DEF Link, TypeOK, ProducerPC
<1>7. ASSUME NEW p \in Producers, TailAfterLink(p) PROVE TypeOK'
  <2>1. new_node[p] \in Node
    BY <1>7, NodesKnown DEF TailAfterLink
  <2> QED
    BY <1>0, <1>7, <2>1 DEF TailAfterLink, TypeOK, ProducerPC
<1>8. ASSUME NEW p \in Producers, ProducerHelps(p) PROVE TypeOK'
  <2>1. next[p] \in Node
    BY <1>8, NodesKnown DEF ProducerHelps
  <2>2. tail' \in Node
    BY <1>8, <2>1 DEF ProducerHelps, TypeOK
  <2> QED
    BY <1>0, <1>8, <2>2 DEF ProducerHelps, TypeOK, ProducerPC
<1>9. ASSUME NEW c \in Consumers, Enter(c) PROVE TypeOK'
  BY <1>0, <1>9 DEF Enter, TypeOK, ConsumerPC
<1>10. ASSUME NEW c \in Consumers, LoadHead(c) \/ LoadTailToo(c) PROVE TypeOK'
  <2>1. CASE LoadHead(c)
    BY <1>0, <2>1 DEF LoadHead, TypeOK, ConsumerPC
  <2>2. CASE LoadTailToo(c)
    BY <1>0, <2>2 DEF LoadTailToo, TypeOK, ConsumerPC
  <2> QED
    BY <1>10, <2>1, <2>2
<1>11. ASSUME NEW c \in Consumers, LoadHeadNext(c) PROVE TypeOK'
  <2>1. old_head[c] \in Node
    BY <1>11, NodesKnown DEF LoadHeadNext
  <2> QED
    BY <1>0, <1>11, <2>1 DEF LoadHeadNext, TypeOK, ConsumerPC
<1>12. ASSUME NEW c \in Consumers, HeadMoved(c) \/ ReturnsEmpty(c) PROVE TypeOK'
  <2>1. Retry(c, "c71", "c67") \/ Retry(c, "c71", "end")
    BY <1>12 DEF HeadMoved, ReturnsEmpty
  <2>2. result' \in [Consumers -> Values \cup {NULL}]
    BY <1>12 DEF HeadMoved, ReturnsEmpty, TypeOK
  <2> QED
    BY <1>0, <2>1, <2>2, TypeRetry DEF ConsumerPC
<1>13. ASSUME NEW c \in Consumers, HeadStill(c) PROVE TypeOK'
  BY <1>0, <1>13 DEF HeadStill, TypeOK, ConsumerPC
<1>14. ASSUME NEW c \in Consumers, ConsumerHelps(c) PROVE TypeOK'
  <2>1. next[c] \in Node
    BY <1>14, NodesKnown DEF ConsumerHelps
  <2> QED
    BY <1>0, <1>14, <2>1 DEF ConsumerHelps, TypeOK, ConsumerPC
<1>15. ASSUME NEW c \in Consumers, ReadData(c) PROVE TypeOK'
  <2>1. next[c] \in Node /\ data[next[c]] \in Values
    BY <1>15, NodesKnown DEF ReadData
  <2> QED
    BY <1>0, <1>15, <2>1 DEF ReadData, TypeOK, ConsumerPC
<1>16. ASSUME NEW c \in Consumers, SwingHead(c) PROVE TypeOK'
  <2>1. next[c] \in Node /\ result[c] \in Values
    <3>1. result[c] = data[next[c]]
      BY <1>16 DEF SwingHead, ListInv, ConsumerInv
    <3> QED
      BY <1>16, <3>1, NodesKnown DEF SwingHead
  <2>2. received' \in [Consumers -> Seq(Values)]
    <3>1. Append(received[c], result[c]) \in Seq(Values)
      BY <2>1 DEF TypeOK
    <3> QED
      BY <1>16, <3>1 DEF SwingHead, TypeOK
  <2>3. emptied' \subseteq Consumers
    BY <1>16 DEF SwingHead, TypeOK, InConsume
  <2> QED
    BY <1>0, <1>16, <2>1, <2>2, <2>3 DEF SwingHead, TypeOK, ConsumerPC
<1>17. ASSUME NEW c \in Consumers, SwingHeadFails(c) PROVE TypeOK'
  BY <1>0, <1>17 DEF SwingHeadFails, TypeOK, ConsumerPC
<1>18. ASSUME NEW c \in Consumers, Delete(c) PROVE TypeOK'
  <2>1. old_head[c] \in Node
    BY <1>18, NodesKnown DEF Delete
  <2> QED
    BY <1>0, <1>18, <2>1 DEF Delete, TypeOK, ConsumerPC
<1>19. ASSUME Drain \/ Destroy PROVE TypeOK'
  <2>1. head \in Node /\ freed' = freed \cup {head}
    BY <1>19 DEF Drain, Destroy, TypeOK
  <2>2. CASE Drain
    <3>1. nxt[head] \in Node
      BY <2>2, MaxNodeIsNat DEF Drain, TypeOK, NodeOrNull
    <3> QED
      BY <2>1, <2>2, <3>1 DEF Drain, TypeOK
  <2>3. CASE Destroy
    BY <2>1, <2>3 DEF Destroy, TypeOK
  <2> QED
    BY <1>19, <2>2, <2>3
<1>20. ASSUME UNCHANGED vars PROVE TypeOK'
  BY <1>20 DEF TypeOK
<1>21. ASSUME NEW p \in Producers, produce(p) PROVE TypeOK'
  BY <1>1, <1>2, <1>3, <1>4, <1>5, <1>6, <1>7, <1>8, <1>21 DEF produce
<1>22. ASSUME NEW c \in Consumers, consume(c) PROVE TypeOK'
  BY <1>9, <1>10, <1>11, <1>12, <1>13, <1>14, <1>15, <1>16, <1>17, <1>18, <1>22 DEF consume
<1> HIDE DEF shared, locals, history, vars
<1> QED
  BY <1>19, <1>20, <1>21, <1>22 DEF Next, Terminated

-----------------------------------------------------------------------------
\* The steps of produce().

\* To move tail from a node to the one behind it is to move it on.
LEMMA TailMovesOn ==
    ASSUME TypeOK, TypeOK', NEW list, NEW rank, ListInv(list, rank),
           NEW t \in Threads, NEW node, old_tail[t] \in Node,
           node # NULL, node = nxt[old_tail[t]], SwingTail(t, node)
    PROVE  rank[tail'] >= rank[tail] /\ rank[tail] \in Nat /\ rank[tail'] \in Nat
<1>1. Linked(list, rank)
  BY DEF ListInv
<1>2. rank[node] = rank[old_tail[t]] + 1
  BY <1>1, ListFacts
<1>3. tail \in Node /\ tail' \in Node /\ rank \in [Node -> Nat]
  BY <1>1 DEF TypeOK, Linked
<1> QED
  BY <1>2, <1>3 DEF SwingTail

\* A step of a producer other than the link or the allocation.
LEMMA ProducerFrame ==
    ASSUME TypeOK, TypeOK', NEW list, NEW rank, ListInv(list, rank),
           NEW p \in Producers, pc[p] \in ProducerPC \ {"end"}, pc'[p] \in ProducerPC,
           UNCHANGED <<head, nxt, data, allocated, freed, sent, emptied>>,
           rank[tail'] >= rank[tail],
           \A u \in Threads \ {p} : SameLocals(u),
           Unlinked(p)' <=> Unlinked(p), Unlinked(p) => new_node'[p] = new_node[p],
           ProducerInv(rank, p)'
    PROVE  ListInv(list, rank)'
<1>1. p \in Threads /\ p \notin Consumers /\ pc[p] # "end" /\ pc[p] # "c85" /\ pc'[p] # "c85"
  BY QueueAssumption DEF Threads, ProducerPC
<1>2. /\ Linked(list, rank)'
      /\ PointersInList(list, rank)'
      /\ NodesInUse(rank)'
      /\ NodesDeleted(rank)'
      /\ \A q \in Producers \ {p} : ProducerInv(rank, q)'
      /\ \A c \in Consumers \ {p} : ConsumerInv(rank, c)'
  BY <1>1, StepFrame
<1> QED
  BY <1>1, <1>2 DEF ListInv

LEMMA QuietProducerStep ==
    ASSUME TypeOK, TypeOK', NEW list, NEW rank, ListInv(list, rank), NEW p \in Producers,
           \/ LoadTail(p) \/ LoadTailNext(p) \/ TailStill(p) \/ TailMoved(p) \/ LinkFails(p)
           \/ TailAfterLink(p) \/ ProducerHelps(p)
    PROVE  ListInv(list, rank)'
<1> USE MaxNodeIsNat
<1>1. /\ ProducerInv(rank, p) /\ PointersInList(list, rank)
      /\ rank \in [Node -> Nat] /\ tail \in Node /\ head \in Node /\ p \in Threads
      /\ allocated \in Nat
  <2>1. allocated \in Nat
    BY DEF TypeOK
  <2> QED
    BY <2>1 DEF ListInv, Linked, TypeOK, Threads
<1>2. rank[tail] \in Nat \ {0}
  BY <1>1 DEF PointersInList
<1> USE DEF Goto, Forget, shared, locals, history
<1> DEFINE Framed ==
      /\ pc[p] \in ProducerPC \ {"end"} /\ pc'[p] \in ProducerPC
      /\ UNCHANGED <<head, nxt, data, allocated, freed, sent, emptied>>
      /\ \A u \in Threads \ {p} : SameLocals(u)
      /\ Unlinked(p)' <=> Unlinked(p)
      /\ Unlinked(p) => new_node'[p] = new_node[p]
<1>3. CASE LoadTail(p)
  <2>1. Framed /\ tail' = tail
    BY <1>1, <1>3 DEF LoadTail, SameLocals, Unlinked, ProducerPC, TypeOK
  <2>2. ProducerInv(rank, p)'
    BY <1>1, <1>2, <1>3, <2>1 DEF LoadTail, ProducerInv, Unlinked, TypeOK
  <2> QED
    BY <1>2, <2>1, <2>2, ProducerFrame
<1>4. CASE LoadTailNext(p)
  <2>1. Framed /\ tail' = tail
    BY <1>1, <1>4 DEF LoadTailNext, SameLocals, Unlinked, ProducerPC, TypeOK
  <2>2. ProducerInv(rank, p)'
    BY <1>1, <1>2, <1>4, <2>1 DEF LoadTailNext, ProducerInv, Unlinked, TypeOK
  <2> QED
    BY <1>2, <2>1, <2>2, ProducerFrame
<1>5. CASE TailStill(p)
  <2>1. Framed /\ tail' = tail
    BY <1>1, <1>5 DEF TailStill, SameLocals, Unlinked, ProducerPC, TypeOK
  <2>2. ProducerInv(rank, p)'
    BY <1>1, <1>2, <1>5, <2>1 DEF TailStill, ProducerInv, Unlinked, TypeOK
  <2> QED
    BY <1>2, <2>1, <2>2, ProducerFrame
<1>6. CASE TailMoved(p) \/ LinkFails(p)
  <2>1. (Retry(p, "p41", "p38") \/ Retry(p, "p43", "p38")) /\ UNCHANGED result
    BY <1>6 DEF TailMoved, LinkFails
  <2>2. Framed /\ tail' = tail
    BY <1>1, <2>1 DEF Retry, SameLocals, Unlinked, ProducerPC, TypeOK
  <2>3. ProducerInv(rank, p)'
    BY <1>1, <1>2, <2>1, <2>2 DEF Retry, ProducerInv, Unlinked, TypeOK
  <2> QED
    BY <1>2, <2>2, <2>3, ProducerFrame
<1>7. CASE TailAfterLink(p)
  <2>1. Framed
    BY <1>1, <1>7 DEF TailAfterLink, SameLocals, Unlinked, ProducerPC, TypeOK
  <2>2. rank[tail'] >= rank[tail]
    <3>1. SwingTail(p, new_node[p]) /\ pc[p] = "p46"
      BY <1>7 DEF TailAfterLink
    <3>2. old_tail[p] \in Node /\ new_node[p] # NULL /\ new_node[p] = nxt[old_tail[p]]
      BY <1>1, <3>1 DEF ProducerInv
    <3> QED
      BY <1>1, <3>1, <3>2, TailMovesOn
  <2>3. ProducerInv(rank, p)'
    BY <1>1, <1>7, <2>1 DEF TailAfterLink, ProducerInv, Unlinked, TypeOK
  <2> QED
    BY <2>1, <2>2, <2>3, ProducerFrame
<1>8. CASE ProducerHelps(p)
  <2>1. Framed
    BY <1>1, <1>8 DEF ProducerHelps, SameLocals, Unlinked, ProducerPC, TypeOK
  <2>2. rank[tail'] >= rank[tail]
    <3>1. SwingTail(p, next[p]) /\ pc[p] = "p53"
      BY <1>8 DEF ProducerHelps
    <3>2. old_tail[p] \in Node /\ next[p] # NULL /\ next[p] = nxt[old_tail[p]]
      BY <1>1, <3>1 DEF ProducerInv
    <3> QED
      BY <1>1, <3>1, <3>2, TailMovesOn
  <2>3. ProducerInv(rank, p)'
    BY <1>1, <1>8, <2>1 DEF ProducerHelps, ProducerInv, Unlinked, TypeOK
  <2> QED
    BY <2>1, <2>2, <2>3, ProducerFrame
<1> QED
  BY <1>3, <1>4, <1>5, <1>6, <1>7, <1>8

-----------------------------------------------------------------------------
\* The steps of consume().

\* A step of a consumer that neither takes a node nor deletes one.
LEMMA ConsumerFrame ==
    ASSUME TypeOK, TypeOK', NEW list, NEW rank, ListInv(list, rank),
           NEW c \in Consumers, pc[c] \in ConsumerPC \ {"c85", "end"}, pc'[c] # "c85",
           UNCHANGED <<head, nxt, data, allocated, freed, sent>>,
           rank[tail'] >= rank[tail], emptied \subseteq emptied',
           \A u \in Threads \ {c} : SameLocals(u),
           ConsumerInv(rank, c)'
    PROVE  ListInv(list, rank)'
<1>1. c \in Threads /\ c \notin Producers /\ pc[c] # "end" /\ pc[c] # "c85"
  BY QueueAssumption DEF Threads
<1>2. /\ Linked(list, rank)'
      /\ PointersInList(list, rank)'
      /\ NodesInUse(rank)'
      /\ NodesDeleted(rank)'
      /\ \A p \in Producers \ {c} : ProducerInv(rank, p)'
      /\ \A d \in Consumers \ {c} : ConsumerInv(rank, d)'
  BY <1>1, StepFrame
<1> QED
  BY <1>1, <1>2 DEF ListInv

\* Who finds nothing behind the head that it has read has read the last node, which is
\* both head and tail: the queue is empty at this moment.
LEMMA NothingBehind ==
    ASSUME TypeOK, EmptinessNoted, NEW list, NEW rank, ListInv(list, rank),
           NEW c \in Consumers, pc[c] = "c69", nxt[old_head[c]] = NULL
    PROVE  old_head[c] = old_tail[c] /\ c \in emptied
<1>1. Linked(list, rank) /\ ConsumerInv(rank, c) /\ PointersInList(list, rank)
  BY DEF ListInv
<1>2. /\ head \in Node /\ tail \in Node /\ old_head[c] \in Node /\ old_tail[c] \in Node
      /\ rank[old_head[c]] \in 1..rank[head]
      /\ rank[old_tail[c]] \in rank[old_head[c]]..rank[tail]
  BY <1>1 DEF ConsumerInv, TypeOK
<1>3. /\ Len(list) \in Nat
      /\ \A n \in Node : rank[n] \in 0..Len(list)
      /\ \A m, n \in Node : rank[m] # 0 /\ rank[m] = rank[n] => m = n
      /\ \A n \in Node : rank[n] # 0 /\ nxt[n] = NULL => rank[n] = Len(list)
  BY <1>1, ListFacts
<1>4. rank[old_head[c]] = Len(list)
  BY <1>2, <1>3
<1>5. old_head[c] = head
  <2>1. rank[head] = Len(list) /\ Len(list) # 0
    BY <1>2, <1>3, <1>4
  <2> QED
    BY <1>2, <1>3, <1>4, <2>1
<1>6. old_head[c] = old_tail[c]
  <2>1. rank[old_tail[c]] = Len(list) /\ Len(list) # 0
    BY <1>2, <1>3, <1>4
  <2> QED
    BY <1>2, <1>3, <1>4, <2>1
<1>7. c \in InConsume
  BY DEF InConsume
<1> QED
  BY <1>5, <1>6, <1>7 DEF EmptinessNoted

LEMMA QuietConsumerStep ==
    ASSUME TypeOK, TypeOK', EmptinessNoted, NEW list, NEW rank, ListInv(list, rank),
           NEW c \in Consumers,
           \/ Enter(c) \/ LoadHead(c) \/ LoadTailToo(c) \/ LoadHeadNext(c) \/ HeadMoved(c)
           \/ ReturnsEmpty(c) \/ HeadStill(c) \/ ConsumerHelps(c) \/ ReadData(c)
           \/ SwingHeadFails(c)
    PROVE  ListInv(list, rank)'
<1> USE MaxNodeIsNat
<1>1. /\ ConsumerInv(rank, c) /\ PointersInList(list, rank)
      /\ rank \in [Node -> Nat] /\ tail \in Node /\ head \in Node /\ c \in Threads
  BY DEF ListInv, Linked, TypeOK, Threads
<1>2. rank[tail] \in Nat \ {0} /\ rank[head] \in Nat \ {0} /\ rank[head] <= rank[tail]
  BY <1>1 DEF PointersInList
<1> USE DEF Goto, Forget, shared, locals, history
<1> DEFINE Framed ==
      /\ pc[c] \in ConsumerPC \ {"c85", "end"} /\ pc'[c] # "c85"
      /\ UNCHANGED <<head, nxt, data, allocated, freed, sent>>
      /\ emptied \subseteq emptied'
      /\ \A u \in Threads \ {c} : SameLocals(u)
<1>3. CASE Enter(c)
  <2>1. Framed /\ tail' = tail
    BY <1>1, <1>3 DEF Enter, SameLocals, ConsumerPC, TypeOK
  <2>2. ConsumerInv(rank, c)'
    BY <1>1, <1>2, <1>3, <2>1 DEF Enter, ConsumerInv, ConsumerPC, TypeOK
  <2> QED
    BY <1>2, <2>1, <2>2, ConsumerFrame
<1>4. CASE LoadHead(c)
  <2>1. Framed /\ tail' = tail
    BY <1>1, <1>4 DEF LoadHead, SameLocals, ConsumerPC, TypeOK
  <2>2. ConsumerInv(rank, c)'
    BY <1>1, <1>2, <1>4, <2>1 DEF LoadHead, ConsumerInv, ConsumerPC, TypeOK
  <2> QED
    BY <1>2, <2>1, <2>2, ConsumerFrame
<1>5. CASE LoadTailToo(c)
  <2>1. Framed /\ tail' = tail
    BY <1>1, <1>5 DEF LoadTailToo, SameLocals, ConsumerPC, TypeOK
  <2>2. ConsumerInv(rank, c)'
    BY <1>1, <1>2, <1>5, <2>1 DEF LoadTailToo, ConsumerInv, ConsumerPC, TypeOK
  <2> QED
    BY <1>2, <2>1, <2>2, ConsumerFrame
<1>6. CASE LoadHeadNext(c)
  <2>1. Framed /\ tail' = tail
    BY <1>1, <1>6 DEF LoadHeadNext, SameLocals, ConsumerPC, TypeOK
  <2>2. nxt[old_head[c]] = NULL => old_head[c] = old_tail[c] /\ c \in emptied
    BY <1>6, NothingBehind DEF LoadHeadNext
  <2>3. ConsumerInv(rank, c)'
    BY <1>1, <1>2, <1>6, <2>1, <2>2 DEF LoadHeadNext, ConsumerInv, ConsumerPC, TypeOK
  <2> QED
    BY <1>2, <2>1, <2>3, ConsumerFrame
<1>7. CASE HeadMoved(c) \/ ReturnsEmpty(c)
  <2>1. /\ Retry(c, "c71", "c67") \/ (Retry(c, "c71", "end") /\ next[c] = NULL)
        /\ UNCHANGED result
    BY <1>7 DEF HeadMoved, ReturnsEmpty
  <2>2. Framed /\ tail' = tail
    BY <1>1, <2>1 DEF Retry, SameLocals, ConsumerPC, TypeOK
  <2>3. ConsumerInv(rank, c)'
    BY <1>1, <1>2, <2>1, <2>2 DEF Retry, ConsumerInv, ConsumerPC, TypeOK
  <2> QED
    BY <1>2, <2>2, <2>3, ConsumerFrame
<1>8. CASE HeadStill(c)
  <2>1. Framed /\ tail' = tail
    BY <1>1, <1>8 DEF HeadStill, SameLocals, ConsumerPC, TypeOK
  <2>2. ConsumerInv(rank, c)'
    BY <1>1, <1>2, <1>8, <2>1 DEF HeadStill, ConsumerInv, ConsumerPC, TypeOK
  <2> QED
    BY <1>2, <2>1, <2>2, ConsumerFrame
<1>9. CASE ConsumerHelps(c)
  <2>1. Framed
    BY <1>1, <1>9 DEF ConsumerHelps, SameLocals, ConsumerPC, TypeOK
  <2>2. rank[tail'] >= rank[tail]
    <3>1. SwingTail(c, next[c]) /\ pc[c] = "c77"
      BY <1>9 DEF ConsumerHelps
    <3>2. old_tail[c] \in Node /\ next[c] # NULL /\ next[c] = nxt[old_tail[c]]
      BY <1>1, <3>1 DEF ConsumerInv
    <3> QED
      BY <1>1, <3>1, <3>2, TailMovesOn
  <2>3. ConsumerInv(rank, c)'
    BY <1>1, <1>9, <2>1 DEF ConsumerHelps, ConsumerInv, ConsumerPC, TypeOK
  <2> QED
    BY <2>1, <2>2, <2>3, ConsumerFrame
<1>10. CASE ReadData(c)
  <2>1. Framed /\ tail' = tail
    BY <1>1, <1>10 DEF ReadData, SameLocals, ConsumerPC, TypeOK
  <2>2. ConsumerInv(rank, c)'
    BY <1>1, <1>2, <1>10, <2>1 DEF ReadData, ConsumerInv, ConsumerPC, TypeOK
  <2> QED
    BY <1>2, <2>1, <2>2, ConsumerFrame
<1>11. CASE SwingHeadFails(c)
  <2>1. Framed /\ tail' = tail
    BY <1>1, <1>11 DEF SwingHeadFails, Retry, SameLocals, ConsumerPC, TypeOK
  <2>2. ConsumerInv(rank, c)'
    BY <1>1, <1>2, <1>11, <2>1 DEF SwingHeadFails, Retry, ConsumerInv, ConsumerPC, TypeOK
  <2> QED
    BY <1>2, <2>1, <2>2, ConsumerFrame
<1> QED
  BY <1>3, <1>4, <1>5, <1>6, <1>7, <1>8, <1>9, <1>10, <1>11

-----------------------------------------------------------------------------
\* The steps that change what the list or the threads own.

LEMMA AllocateStep ==
    ASSUME TypeOK, TypeOK', NEW list, NEW rank, ListInv(list, rank),
           NEW p \in Producers, Allocate(p)
    PROVE  ListInv(list, rank)'
<1> USE MaxNodeIsNat
<1>1. /\ Linked(list, rank) /\ PointersInList(list, rank) /\ NodesInUse(rank) /\ NodesDeleted(rank)
      /\ \A q \in Producers : ProducerInv(rank, q)
      /\ \A c \in Consumers : ConsumerInv(rank, c)
  BY DEF ListInv
<1>2. /\ rank \in [Node -> Nat] /\ allocated \in Nat \ {0} /\ sent[p] \in Nat
      /\ p \in Threads /\ p \notin Consumers
      /\ Producers \subseteq Threads /\ Consumers \subseteq Threads
  <2>1. allocated \in Nat \ {0} /\ sent[p] \in Nat
    BY QueueAssumption DEF TypeOK
  <2> QED
    BY <1>1, <2>1, QueueAssumption DEF Linked, Threads
<1>3. /\ allocated \in Node /\ rank[allocated] = 0
      /\ \A n \in 1..(allocated - 1) : n \in Node /\ data[n] # <<p, sent[p] + 1>>
  <2>1. /\ allocated <= MaxNode
        /\ \A n \in 1..(allocated - 1) : data[n] # <<p, sent[p] + 1>>
    BY RoomForAnother DEF Allocate, Goto
  <2> QED
    BY <1>1, <1>2, <2>1 DEF NodesInUse, Node
<1>4. /\ pc[p] = "p33" /\ pc'[p] = "p38" /\ new_node'[p] = allocated
      /\ data' = [data EXCEPT ![allocated] = <<p, sent[p] + 1>>]
      /\ data'[allocated] = <<p, sent[p] + 1>>
      /\ \A n \in 1..(allocated - 1) : data'[n] = data[n]
      /\ allocated' = allocated + 1
      /\ UNCHANGED <<head, tail, nxt, freed, sent, received, emptied>>
      /\ \A t \in Threads \ {p} : SameLocals(t)
  BY <1>2, <1>3 DEF Allocate, Goto, SameLocals, history, TypeOK
<1>5. ~Destroyed /\ ~Destroyed'
  BY <1>2, <1>4 DEF Destroyed, Ended
<1>6. Linked(list, rank)'
  BY <1>1, <1>4 DEF Linked
<1>7. PointersInList(list, rank)'
  BY <1>1, <1>4, <1>5 DEF PointersInList
<1>8. NodesInUse(rank)'
  <2>1. \A n \in Node : n >= allocated' => rank[n] = 0
    BY <1>1, <1>2, <1>4 DEF NodesInUse, Node
  <2>2. ASSUME NEW n \in 0..(allocated' - 1), rank[n] = 0
        PROVE  \E q \in Producers : new_node'[q] = n /\ Unlinked(q)'
    <3>1. CASE n = allocated
      BY <1>4, <3>1 DEF Unlinked
    <3>2. CASE n # allocated
      <4>1. n \in 0..(allocated - 1)
        BY <1>2, <1>4, <3>2
      <4>2. PICK q \in Producers : new_node[q] = n /\ Unlinked(q)
        BY <1>1, <2>2, <4>1 DEF NodesInUse
      <4>3. q # p
        BY <1>4, <4>2 DEF Unlinked
      <4> QED
        BY <1>2, <1>4, <4>2, <4>3 DEF SameLocals, Unlinked
    <3> QED
      BY <3>1, <3>2
  <2>3. ASSUME NEW n \in 1..(allocated' - 1), rank[n] # 0
        PROVE  \E q \in Producers : \E i \in 1..sent'[q] : data'[n] = <<q, i>>
    <3>1. n \in 1..(allocated - 1)
      BY <1>2, <1>3, <1>4, <2>3
    <3> QED
      BY <1>1, <1>4, <2>3, <3>1 DEF NodesInUse
  <2>4. ASSUME NEW m \in 1..(allocated' - 1), NEW n \in 1..(allocated' - 1), data'[m] = data'[n]
        PROVE  m = n
    <3>1. (m = allocated \/ m \in 1..(allocated - 1)) /\ (n = allocated \/ n \in 1..(allocated - 1))
      BY <1>2, <1>4
    <3> QED
      BY <1>1, <1>3, <1>4, <2>4, <3>1 DEF NodesInUse
  <2> QED
    BY <2>1, <2>2, <2>3, <2>4 DEF NodesInUse
<1>9. NodesDeleted(rank)'
  <2>1. \A c \in Consumers, n \in Node : Removes(c, n)' <=> Removes(c, n)
    BY <1>2, <1>4 DEF Removes, SameLocals
  <2> QED
    BY <1>1, <1>4, <1>5, <2>1 DEF NodesDeleted
<1>10. ASSUME NEW q \in Producers PROVE ProducerInv(rank, q)'
  <2>1. CASE q = p
    <3>1. /\ pc'[p] = "p38" /\ sent'[p] < ProducesPer
          /\ new_node'[p] \in 1..(allocated' - 1) /\ rank[new_node'[p]] = 0
          /\ data'[new_node'[p]] = <<p, sent'[p] + 1>>
      BY <1>1, <1>2, <1>3, <1>4 DEF ProducerInv
    <3> QED
      BY <2>1, <3>1 DEF ProducerInv, Unlinked, ProducerPC
  <2>2. CASE q # p
    <3>1. Unlinked(q) => rank[new_node[q]] = 0
      BY <1>1 DEF ProducerInv
    <3>2. rank[tail'] >= rank[tail] /\ allocated' >= allocated /\ sent'[q] = sent[q]
          /\ SameLocals(q)
      BY <1>2, <1>4, <2>2 DEF TypeOK
    <3> QED
      BY <1>2, <1>4, <3>1, <3>2, OtherProducer
  <2> QED
    BY <2>1, <2>2
<1>11. ASSUME NEW c \in Consumers PROVE ConsumerInv(rank, c)'
  <2>1. \A n \in Node : nxt[n] # NULL => nxt'[n] = nxt[n] /\ data'[nxt[n]] = data[nxt[n]]
    <3>1. \A n \in Node : nxt[n] # NULL => rank[nxt[n]] # 0 /\ nxt[n] \in Node
      BY <1>1, ListFacts
    <3> QED
      BY <1>3, <1>4, <3>1 DEF TypeOK
  <2>2. rank[tail'] >= rank[tail] /\ rank[head'] >= rank[head] /\ SameLocals(c)
    BY <1>2, <1>4 DEF TypeOK
  <2> QED
    BY <1>2, <1>4, <2>1, <2>2, OtherConsumer
<1> QED
  BY <1>6, <1>7, <1>8, <1>9, <1>10, <1>11 DEF ListInv

LEMMA LinkNewNode ==
    ASSUME TypeOK, TypeOK', NEW list \in Seq(Node), NEW rank, ListInv(list, rank),
           NEW p \in Producers, Link(p),
           NEW o, o = old_tail[p], NEW m, m = new_node[p], NEW L, L = Len(list),
           NEW list2, list2 = Append(list, m),
           NEW rank2, rank2 = [rank EXCEPT ![m] = L + 1]
    PROVE  list2 \in Seq(Node) /\ rank2 \in [Node -> Nat] /\ ListInv(list2, rank2)'
<1> USE MaxNodeIsNat
<1>1. /\ Linked(list, rank) /\ PointersInList(list, rank) /\ NodesInUse(rank) /\ NodesDeleted(rank)
      /\ \A q \in Producers : ProducerInv(rank, q)
      /\ \A c \in Consumers : ConsumerInv(rank, c)
  BY DEF ListInv
<1>2. /\ rank \in [Node -> Nat] /\ sent[p] \in Nat
      /\ allocated \in Nat /\ 1..(allocated - 1) \subseteq Node \ {0}
      /\ head \in Node /\ tail \in Node /\ p \in Threads /\ p \notin Consumers
      /\ Producers \subseteq Threads /\ Consumers \subseteq Threads
  <2>1. sent[p] \in Nat /\ allocated \in Nat /\ 1..(allocated - 1) \subseteq Node \ {0}
    BY QueueAssumption DEF TypeOK, Node
  <2> QED
    BY <1>1, <2>1, QueueAssumption DEF Linked, Threads, TypeOK
<1>3. /\ pc[p] = "p43" /\ pc'[p] = "p46" /\ nxt[o] = NULL
      /\ o \in Node /\ m \in Node \ {0} /\ m < allocated /\ rank[m] = 0
      /\ rank[o] \in 1..rank[tail]
      /\ data[m] = <<p, sent[p] + 1>>
  <2>1. pc[p] = "p43" /\ pc'[p] = "p46" /\ nxt[o] = NULL
    BY <1>2 DEF Link, Goto, TypeOK
  <2>2. m \in 1..(allocated - 1) /\ rank[m] = 0 /\ data[m] = <<p, sent[p] + 1>>
    BY <1>1, <2>1 DEF ProducerInv, Unlinked
  <2>3. o \in Node /\ rank[o] \in 1..rank[tail]
    BY <1>1, <2>1 DEF ProducerInv
  <2> QED
    BY <1>2, <2>1, <2>2, <2>3
<1>4. /\ nxt' = [nxt EXCEPT ![o] = m] /\ nxt \in [Node -> NodeOrNull]
      /\ sent' = [sent EXCEPT ![p] = @ + 1] /\ sent \in [Producers -> 0..ProducesPer]
      /\ sent'[p] = sent[p] + 1
      /\ UNCHANGED <<head, tail, data, allocated, freed, locals, received, emptied>>
      /\ \A t \in Threads \ {p} : SameLocals(t)
  BY <1>2 DEF Link, Goto, SameLocals, locals, TypeOK
<1>5. /\ L \in Nat \ {0} /\ rank[0] = 1
      /\ \A i \in 1..L : list[i] \in Node /\ rank[list[i]] = i
      /\ \A n \in Node : rank[n] \in 0..L /\ (rank[n] # 0 => list[rank[n]] = n)
      /\ \A n, k \in Node : rank[n] # 0 /\ rank[n] = rank[k] => n = k
      /\ rank[o] = L
      /\ \A n \in Node : nxt[n] = IF rank[n] \in 1..(L - 1) THEN list[rank[n] + 1] ELSE NULL
  <2>1. \A n \in Node : rank[n] # 0 /\ nxt[n] = NULL => rank[n] = L
    BY <1>1, ListFacts
  <2>2. rank[o] = L
    BY <1>2, <1>3, <2>1
  <2>3. /\ L \in Nat \ {0} /\ rank[0] = 1
        /\ \A i \in 1..L : list[i] \in Node /\ rank[list[i]] = i
        /\ \A n \in Node : rank[n] \in 0..L
        /\ \A n, k \in Node : rank[n] # 0 /\ rank[n] = rank[k] => n = k
    BY <1>1, ListFacts
  <2> QED
    BY <1>1, <2>2, <2>3 DEF Linked
<1>6. rank[tail] = L
  BY <1>2, <1>3, <1>5
<1>7. /\ list2 \in Seq(Node) /\ Len(list2) = L + 1 /\ list2[L + 1] = m
      /\ \A i \in 1..L : list2[i] = list[i]
  BY <1>3, <1>5
<1>8. /\ rank2 \in [Node -> Nat] /\ rank2[m] = L + 1
      /\ \A n \in Node \ {m} : rank2[n] = rank[n]
  BY <1>2, <1>3, <1>5
<1>9. o # m /\ m \notin {head, tail}
  BY <1>1, <1>3, <1>5, <1>6 DEF PointersInList
<1>10. ~Destroyed /\ ~Destroyed'
  BY <1>2, <1>3 DEF Destroyed, Ended
<1>11. Linked(list2, rank2)'
  <2>1. list2[1] = 0
    BY <1>1, <1>5, <1>7 DEF Linked
  <2>2. ASSUME NEW i \in 1..(L + 1) PROVE rank2[list2[i]] = i
    <3>1. CASE i = L + 1
      BY <1>7, <1>8, <3>1
    <3>2. CASE i # L + 1
      <4>1. i \in 1..L /\ list2[i] = list[i] /\ list[i] \in Node /\ rank[list[i]] = i
        BY <1>5, <1>7, <3>2
      <4>2. list[i] # m
        BY <1>3, <4>1
      <4> QED
        BY <1>8, <4>1, <4>2
    <3> QED
      BY <3>1, <3>2
  <2>3. ASSUME NEW n \in Node, rank2[n] # 0 PROVE rank2[n] <= L + 1 /\ list2[rank2[n]] = n
    <3>1. CASE n = m
      BY <1>5, <1>7, <1>8, <3>1
    <3>2. CASE n # m
      BY <1>5, <1>7, <1>8, <2>3, <3>2
    <3> QED
      BY <3>1, <3>2
  <2>4. ASSUME NEW n \in Node
        PROVE  nxt'[n] = IF rank2[n] \in 1..(L + 1 - 1) THEN list2[rank2[n] + 1] ELSE NULL
    <3>1. CASE n = o
      <4>1. rank2[n] = L /\ nxt'[n] = m
        BY <1>3, <1>4, <1>5, <1>8, <1>9, <3>1
      <4>2. L \in 1..(L + 1 - 1)
        BY <1>5
      <4> QED
        BY <1>7, <4>1, <4>2
    <3>2. CASE n = m
      <4>1. nxt'[n] = NULL
        BY <1>3, <1>4, <1>5, <1>9, <3>2
      <4>2. ~(rank2[n] \in 1..(L + 1 - 1))
        BY <1>5, <1>8, <3>2
      <4> QED
        BY <4>1, <4>2
    <3>3. CASE n # o /\ n # m
      <4>1. nxt'[n] = nxt[n] /\ rank2[n] = rank[n] /\ rank[n] # L
        BY <1>3, <1>4, <1>5, <1>8, <3>3
      <4>2. rank[n] \in 1..(L - 1) <=> rank[n] \in 1..(L + 1 - 1)
        BY <1>5, <4>1
      <4>3. rank[n] \in 1..(L - 1) => rank[n] + 1 \in 1..L
        BY <1>5
      <4> QED
        BY <1>5, <1>7, <4>1, <4>2, <4>3
    <3> QED
      BY <3>1, <3>2, <3>3
  <2> QED
    BY <1>5, <1>7, <1>8, <2>1, <2>2, <2>3, <2>4 DEF Linked
<1>12. PointersInList(list2, rank2)'
  BY <1>1, <1>2, <1>4, <1>5, <1>6, <1>7, <1>8, <1>9, <1>10 DEF PointersInList
<1>13. NodesInUse(rank2)'
  <2>1. \A n \in Node : n >= allocated' => rank2[n] = 0
    <3>1. \A n \in Node : n >= allocated => rank[n] = 0
      BY <1>1 DEF NodesInUse
    <3>2. \A n \in Node : n >= allocated => n # m
      BY <1>2, <1>3 DEF Node
    <3> QED
      BY <1>4, <1>8, <3>1, <3>2
  <2>2. ASSUME NEW n \in 0..(allocated' - 1), rank2[n] = 0
        PROVE  \E q \in Producers : new_node'[q] = n /\ Unlinked(q)'
    <3>1. n \in Node /\ n # m /\ rank[n] = 0
      <4>1. n \in Node
        BY <1>4 DEF TypeOK, Node
      <4> QED
        BY <1>5, <1>8, <2>2, <4>1
    <3>2. PICK q \in Producers : new_node[q] = n /\ Unlinked(q)
      BY <1>1, <1>4, <3>1 DEF NodesInUse
    <3>3. q # p
      BY <3>1, <3>2
    <3> QED
      BY <1>2, <1>4, <3>2, <3>3 DEF SameLocals, Unlinked
  <2>3. ASSUME NEW n \in 1..(allocated' - 1), rank2[n] # 0
        PROVE  \E q \in Producers : \E i \in 1..sent'[q] : data'[n] = <<q, i>>
    <3>1. CASE n = m
      <4>1. data'[n] = <<p, sent[p] + 1>> /\ sent[p] + 1 \in 1..sent'[p]
        BY <1>2, <1>3, <1>4, <3>1
      <4> QED
        BY <4>1
    <3>2. CASE n # m
      <4>1. n \in Node /\ rank[n] # 0
        <5>1. n \in Node
          BY <1>4 DEF TypeOK, Node
        <5> QED
          BY <1>8, <2>3, <3>2, <5>1
      <4>2. PICK q \in Producers : \E i \in 1..sent[q] : data[n] = <<q, i>>
        BY <1>1, <1>4, <4>1 DEF NodesInUse
      <4>3. sent'[q] >= sent[q] /\ sent[q] \in Nat /\ sent'[q] \in Nat
        BY <1>4, QueueAssumption
      <4> QED
        BY <1>4, <4>2, <4>3
    <3> QED
      BY <3>1, <3>2
  <2>4. \A k, n \in 1..(allocated' - 1) : data'[k] = data'[n] => k = n
    BY <1>1, <1>4 DEF NodesInUse
  <2> QED
    BY <2>1, <2>2, <2>3, <2>4 DEF NodesInUse
<1>14. NodesDeleted(rank2)'
  <2>1. \A c \in Consumers, n \in Node : Removes(c, n)' <=> Removes(c, n)
    BY <1>2, <1>4 DEF Removes, SameLocals
  <2>2. rank2[head'] = rank[head] /\ rank[head] \in Nat /\ rank[head] <= L
    BY <1>2, <1>4, <1>5, <1>8, <1>9
  <2>3. \A n \in Node : rank2[n] # 0 /\ rank2[n] < rank2[head'] <=> rank[n] # 0 /\ rank[n] < rank[head]
    BY <1>2, <1>3, <1>5, <1>8, <2>2
  <2> QED
    BY <1>1, <1>4, <1>10, <2>1, <2>3 DEF NodesDeleted
<1>15. \A n \in Node : rank[n] # 0 => rank2[n] = rank[n]
  BY <1>3, <1>8
<1>16. \A n \in Node : nxt[n] # NULL => nxt'[n] = nxt[n]
  BY <1>3, <1>4
<1>17. rank2[tail'] = rank[tail] /\ rank2[head'] = rank[head]
  BY <1>2, <1>4, <1>8, <1>9
<1>18. ASSUME NEW q \in Producers PROVE ProducerInv(rank2, q)'
  <2>1. CASE q = p
    <3>1. old_tail'[p] = o /\ new_node'[p] = m /\ nxt'[o] = m /\ m # NULL /\ rank2[o] = L
      BY <1>3, <1>4, <1>5, <1>8, <1>9 DEF locals
    <3>2. rank2[o] \in 1..rank2[tail']
      BY <1>5, <1>6, <1>17, <3>1
    <3> QED
      BY <1>3, <2>1, <3>1, <3>2 DEF ProducerInv, Unlinked, ProducerPC
  <2>2. CASE q # p
    <3>1. Unlinked(q) => rank2[new_node[q]] = 0
      <4> SUFFICES ASSUME Unlinked(q) PROVE rank2[new_node[q]] = 0
        OBVIOUS
      <4>1. rank[new_node[q]] = 0 /\ data[new_node[q]] = <<q, sent[q] + 1>>
            /\ new_node[q] \in Node
        <5>1. new_node[q] \in 1..(allocated - 1)
          BY <1>1 DEF ProducerInv
        <5> QED
          BY <1>1, <1>2, <5>1 DEF ProducerInv
      <4>2. new_node[q] # m
        BY <1>3, <2>2, <4>1
      <4> QED
        BY <1>8, <4>1, <4>2
    <3>2. rank2[tail'] >= rank[tail] /\ allocated' >= allocated /\ sent'[q] = sent[q]
          /\ SameLocals(q)
      BY <1>2, <1>4, <1>5, <1>6, <1>17, <2>2
    <3> QED
      BY <1>4, <1>8, <1>15, <1>16, <3>1, <3>2, OtherProducer
  <2> QED
    BY <2>1, <2>2
<1>19. ASSUME NEW c \in Consumers PROVE ConsumerInv(rank2, c)'
  <2>1. \A n \in Node : nxt[n] # NULL => nxt'[n] = nxt[n] /\ data'[nxt[n]] = data[nxt[n]]
    BY <1>4, <1>16
  <2>2. rank2[tail'] >= rank[tail] /\ rank2[head'] >= rank[head] /\ SameLocals(c)
    BY <1>2, <1>4, <1>17
  <2> QED
    BY <1>4, <1>8, <1>15, <2>1, <2>2, OtherConsumer
<1>20. ListInv(list2, rank2)'
  BY <1>11, <1>12, <1>13, <1>14, <1>18, <1>19 DEF ListInv
<1> QED
  BY <1>7, <1>8, <1>20

LEMMA LinkStep ==
    ASSUME TypeOK, TypeOK', NEW list \in Seq(Node), NEW rank, ListInv(list, rank),
           NEW p \in Producers, Link(p)
    PROVE  \E list2 \in Seq(Node), rank2 \in [Node -> Nat] : ListInv(list2, rank2)'
<1>1. PICK o, m : o = old_tail[p] /\ m = new_node[p]
  OBVIOUS
<1>2. PICK list2, rank2 :
          list2 = Append(list, m) /\ rank2 = [rank EXCEPT ![m] = Len(list) + 1]
  OBVIOUS
<1>3. list2 \in Seq(Node) /\ rank2 \in [Node -> Nat] /\ ListInv(list2, rank2)'
  BY <1>1, <1>2, LinkNewNode
<1> QED
  BY <1>3

\* head moves on to the next node, whose value the consumer has read.
LEMMA SwingHeadStep ==
    ASSUME TypeOK, TypeOK', NEW list, NEW rank, ListInv(list, rank),
           NEW c \in Consumers, SwingHead(c)
    PROVE  /\ ListInv(list, rank)'
           /\ rank[head'] = rank[head] + 1 /\ head' = nxt[head] /\ result[c] = data[head']
<1> USE MaxNodeIsNat
<1>1. /\ Linked(list, rank) /\ PointersInList(list, rank) /\ NodesInUse(rank) /\ NodesDeleted(rank)
      /\ \A q \in Producers : ProducerInv(rank, q)
      /\ \A d \in Consumers : ConsumerInv(rank, d)
  BY DEF ListInv
<1>2. /\ rank \in [Node -> Nat] /\ allocated \in Nat
      /\ head \in Node /\ head' \in Node /\ tail \in Node /\ c \in Threads /\ c \notin Producers
      /\ Producers \subseteq Threads /\ Consumers \subseteq Threads
  <2>1. allocated \in Nat
    BY DEF TypeOK
  <2> QED
    BY <1>1, <2>1, QueueAssumption DEF Linked, Threads, TypeOK
<1>3. /\ pc[c] = "c82" /\ pc'[c] = "c85" /\ head = old_head[c] /\ head' = next[c]
      /\ UNCHANGED <<tail, nxt, data, allocated, freed, locals, sent>>
      /\ emptied \subseteq emptied'
      /\ \A t \in Threads \ {c} : SameLocals(t)
  BY <1>2 DEF SwingHead, Goto, SameLocals, locals, TypeOK
<1>4. /\ next[c] # NULL /\ next[c] = nxt[head] /\ result[c] = data[next[c]]
      /\ head # old_tail[c] /\ old_tail[c] \in Node
      /\ rank[old_tail[c]] \in rank[head]..rank[tail]
  BY <1>1, <1>3 DEF ConsumerInv
<1>5. rank[head'] = rank[head] + 1 /\ rank[head] \in Nat \ {0} /\ rank[tail] \in Nat
  BY <1>1, <1>2, <1>3, <1>4, ListFacts
<1>6. rank[old_tail[c]] # rank[head]
  <2>1. \A m, n \in Node : rank[m] # 0 /\ rank[m] = rank[n] => m = n
    BY <1>1, ListFacts
  <2> QED
    BY <1>2, <1>4, <1>5, <2>1
<1>7. rank[head'] <= rank[tail]
  BY <1>4, <1>5, <1>6
<1>8. ~Destroyed /\ ~Destroyed'
  BY <1>2, <1>3 DEF Destroyed, Ended
<1>9. Linked(list, rank)'
  BY <1>1, <1>3 DEF Linked
<1>10. PointersInList(list, rank)'
  BY <1>1, <1>3, <1>5, <1>7, <1>8 DEF PointersInList
<1>11. NodesInUse(rank)'
  <2>1. \A p \in Producers : new_node'[p] = new_node[p] /\ (Unlinked(p)' <=> Unlinked(p))
    BY <1>2, <1>3 DEF SameLocals, Unlinked
  <2> QED
    BY <1>1, <1>3, <2>1 DEF NodesInUse
<1>12. NodesDeleted(rank)'
  <2>1. \A d \in Consumers \ {c}, n \in Node : Removes(d, n)' <=> Removes(d, n)
    BY <1>2, <1>3 DEF Removes, SameLocals
  <2>2. \A n \in Node : (Removes(c, n)' <=> n = head) /\ ~Removes(c, n)
    BY <1>2, <1>3 DEF Removes, locals
  <2>3. \A d \in Consumers : ~Removes(d, head)
    BY <1>1, <1>2 DEF Removes, ConsumerInv
  <2>4. \A d, e \in Consumers : \A n \in Node : Removes(d, n)' /\ Removes(e, n)' => d = e
    BY <1>1, <2>1, <2>2, <2>3 DEF NodesDeleted
  <2>5. ASSUME NEW n \in Node
        PROVE  n \in freed' <=> /\ rank[n] # 0 /\ rank[n] < rank[head']
                                /\ \A d \in Consumers : ~Removes(d, n)'
    <3>1. n \in freed <=> rank[n] # 0 /\ rank[n] < rank[head] /\ \A d \in Consumers : ~Removes(d, n)
      BY <1>1, <1>8 DEF NodesDeleted
    <3>2. CASE n = head
      <4>1. n \notin freed /\ Removes(c, n)'
        BY <1>2, <2>2, <3>1, <3>2
      <4> QED
        BY <1>3, <4>1
    <3>3. CASE n # head
      <4>1. rank[n] # 0 => rank[n] # rank[head]
        BY <1>1, <1>2, <3>3, ListFacts
      <4>2. rank[n] # 0 /\ rank[n] < rank[head'] <=> rank[n] # 0 /\ rank[n] < rank[head]
        BY <1>2, <1>5, <4>1
      <4>3. \A d \in Consumers : Removes(d, n)' <=> Removes(d, n)
        BY <2>1, <2>2, <3>3
      <4> QED
        BY <1>3, <3>1, <4>2, <4>3
    <3> QED
      BY <3>2, <3>3
  <2> QED
    BY <1>8, <2>4, <2>5 DEF NodesDeleted
<1>13. \A n \in Node : nxt[n] # NULL => nxt'[n] = nxt[n] /\ data'[nxt[n]] = data[nxt[n]]
  BY <1>3
<1>14. rank[tail'] >= rank[tail] /\ rank[head'] >= rank[head] /\ allocated' >= allocated
  BY <1>2, <1>3, <1>5
<1>15. ASSUME NEW q \in Producers PROVE ProducerInv(rank, q)'
  <2>1. Unlinked(q) => rank[new_node[q]] = 0
    BY <1>1 DEF ProducerInv
  <2>2. SameLocals(q) /\ sent'[q] = sent[q]
    BY <1>2, <1>3
  <2> QED
    BY <1>2, <1>3, <1>14, <2>1, <2>2, OtherProducer
<1>16. ASSUME NEW d \in Consumers PROVE ConsumerInv(rank, d)'
  <2>1. CASE d = c
    <3>1. old_head'[c] = head /\ rank[head] \in 1..rank[head'] /\ rank[head] < rank[head']
      BY <1>3, <1>5 DEF locals
    <3> QED
      BY <1>2, <1>3, <2>1, <3>1 DEF ConsumerInv, ConsumerPC
  <2>2. CASE d # c
    <3>1. SameLocals(d)
      BY <1>2, <1>3, <2>2
    <3> QED
      BY <1>2, <1>3, <1>13, <1>14, <3>1, OtherConsumer
  <2> QED
    BY <2>1, <2>2
<1> QED
  BY <1>3, <1>4, <1>5, <1>9, <1>10, <1>11, <1>12, <1>15, <1>16 DEF ListInv

\* The node that was taken out is deleted.
LEMMA DeleteStep ==
    ASSUME TypeOK, TypeOK', NEW list, NEW rank, ListInv(list, rank),
           NEW c \in Consumers, Delete(c)
    PROVE  ListInv(list, rank)'
<1> USE MaxNodeIsNat
<1>1. /\ Linked(list, rank) /\ PointersInList(list, rank) /\ NodesInUse(rank) /\ NodesDeleted(rank)
      /\ \A q \in Producers : ProducerInv(rank, q)
      /\ \A d \in Consumers : ConsumerInv(rank, d)
  BY DEF ListInv
<1>2. /\ rank \in [Node -> Nat] /\ allocated \in Nat
      /\ head \in Node /\ tail \in Node /\ c \in Threads /\ c \notin Producers
      /\ Producers \subseteq Threads /\ Consumers \subseteq Threads
  <2>1. allocated \in Nat
    BY DEF TypeOK
  <2> QED
    BY <1>1, <2>1, QueueAssumption DEF Linked, Threads, TypeOK
<1>3. /\ pc[c] = "c85" /\ pc'[c] = "c61" /\ freed' = freed \cup {old_head[c]}
      /\ UNCHANGED <<head, tail, nxt, data, allocated, new_node, sent>>
      /\ emptied' = emptied \ {c}
      /\ \A t \in Threads \ {c} : SameLocals(t)
  BY <1>2 DEF Delete, Goto, Forget, SameLocals, TypeOK
<1>4. old_head[c] \in Node /\ rank[old_head[c]] # 0 /\ rank[old_head[c]] < rank[head]
  BY <1>1, <1>3 DEF ConsumerInv
<1>5. ~Destroyed /\ ~Destroyed'
  BY <1>2, <1>3 DEF Destroyed, Ended
<1>6. Linked(list, rank)'
  BY <1>1, <1>3 DEF Linked
<1>7. PointersInList(list, rank)'
  BY <1>1, <1>3, <1>5 DEF PointersInList
<1>8. NodesInUse(rank)'
  <2>1. \A p \in Producers : Unlinked(p)' <=> Unlinked(p)
    BY <1>2, <1>3 DEF SameLocals, Unlinked
  <2> QED
    BY <1>1, <1>3, <2>1 DEF NodesInUse
<1>9. NodesDeleted(rank)'
  <2>1. \A d \in Consumers \ {c}, n \in Node : Removes(d, n)' <=> Removes(d, n)
    BY <1>2, <1>3 DEF Removes, SameLocals
  <2>2. \A n \in Node : (Removes(c, n) <=> n = old_head[c]) /\ ~Removes(c, n)'
    BY <1>2, <1>3 DEF Removes
  <2>3. \A d, e \in Consumers : \A n \in Node : Removes(d, n)' /\ Removes(e, n)' => d = e
    BY <1>1, <2>1, <2>2 DEF NodesDeleted
  <2>4. ASSUME NEW n \in Node
        PROVE  n \in freed' <=> /\ rank[n] # 0 /\ rank[n] < rank[head']
                                /\ \A d \in Consumers : ~Removes(d, n)'
    <3>1. n \in freed <=> rank[n] # 0 /\ rank[n] < rank[head] /\ \A d \in Consumers : ~Removes(d, n)
      BY <1>1, <1>5 DEF NodesDeleted
    <3>2. CASE n = old_head[c]
      <4>1. \A d \in Consumers \ {c} : ~Removes(d, n)
        BY <1>1, <2>2, <3>2 DEF NodesDeleted
      <4> QED
        BY <1>3, <1>4, <2>1, <2>2, <3>2, <4>1
    <3>3. CASE n # old_head[c]
      BY <1>3, <2>1, <2>2, <3>1, <3>3
    <3> QED
      BY <3>2, <3>3
  <2> QED
    BY <1>5, <2>3, <2>4 DEF NodesDeleted
<1>10. rank[tail'] >= rank[tail] /\ rank[head'] >= rank[head] /\ allocated' >= allocated
  BY <1>2, <1>3
<1>11. ASSUME NEW q \in Producers PROVE ProducerInv(rank, q)'
  <2>1. Unlinked(q) => rank[new_node[q]] = 0
    BY <1>1 DEF ProducerInv
  <2>2. SameLocals(q) /\ sent'[q] = sent[q]
    BY <1>2, <1>3
  <2> QED
    BY <1>2, <1>3, <1>10, <2>1, <2>2, OtherProducer
<1>12. ASSUME NEW d \in Consumers PROVE ConsumerInv(rank, d)'
  <2>1. CASE d = c
    BY <1>3, <2>1 DEF ConsumerInv, ConsumerPC
  <2>2. CASE d # c
    <3>1. SameLocals(d) /\ (d \in emptied => d \in emptied')
      BY <1>2, <1>3, <2>2
    <3> QED
      BY <1>2, <1>3, <1>10, <3>1, OtherConsumer
  <2> QED
    BY <2>1, <2>2
<1> QED
  BY <1>6, <1>7, <1>8, <1>9, <1>11, <1>12 DEF ListInv

\* A step that only main takes, in the destructor, when no thread holds a node: the nodes
\* before the head have been deleted, and nothing else has.
LEMMA DestructorStep ==
    ASSUME TypeOK, TypeOK', NEW list, NEW rank, ListInv(list, rank), Ended,
           UNCHANGED <<nxt, data, allocated, locals, pc, history>>,
           rank[head'] >= rank[head], rank[tail'] >= rank[tail],
           PointersInList(list, rank)',
           \A n \in Node : n \in freed' <=>
               rank[n] # 0 /\ (rank[n] < rank[head'] \/ Destroyed')
    PROVE  ListInv(list, rank)'
<1> USE MaxNodeIsNat
<1>1. /\ Linked(list, rank) /\ NodesInUse(rank)
      /\ \A q \in Producers : ProducerInv(rank, q)
      /\ \A d \in Consumers : ConsumerInv(rank, d)
  BY DEF ListInv
<1>2. /\ Producers \subseteq Threads /\ Consumers \subseteq Threads
      /\ \A t \in Threads : pc[t] = "end"
  BY DEF Threads, Ended
<1>3. Linked(list, rank)'
  BY <1>1 DEF Linked
<1>4. NodesInUse(rank)'
  BY <1>1 DEF NodesInUse, Unlinked, locals, history
<1>5. NodesDeleted(rank)'
  <2>1. \A c \in Consumers, n \in Node : ~Removes(c, n)'
    BY <1>2 DEF Removes
  <2> QED
    BY <2>1 DEF NodesDeleted
<1>6. ASSUME NEW q \in Producers PROVE ProducerInv(rank, q)'
  BY <1>1, <1>2 DEF ProducerInv, Unlinked, locals
<1>7. ASSUME NEW d \in Consumers PROVE ConsumerInv(rank, d)'
  BY <1>1, <1>2 DEF ConsumerInv, history
<1> QED
  BY <1>3, <1>4, <1>5, <1>6, <1>7 DEF ListInv

\* What the destructor finds.
LEMMA DestructorFinds ==
    ASSUME TypeOK, NEW list, NEW rank, ListInv(list, rank), Ended, ~Destroyed
    PROVE  /\ Linked(list, rank) /\ PointersInList(list, rank)
           /\ rank \in [Node -> Nat] /\ head \in Node /\ tail \in Node
           /\ \A n \in Node : n \in freed <=> rank[n] # 0 /\ rank[n] < rank[head]
<1>1. /\ Linked(list, rank) /\ PointersInList(list, rank) /\ NodesDeleted(rank)
      /\ rank \in [Node -> Nat] /\ head \in Node /\ tail \in Node
  BY DEF ListInv, Linked, TypeOK
<1>2. \A c \in Consumers, n \in Node : ~Removes(c, n)
  BY DEF Removes, Ended, Threads
<1> QED
  BY <1>1, <1>2 DEF NodesDeleted

\* The destructor deletes the node that head passes.
LEMMA DrainStep ==
    ASSUME TypeOK, TypeOK', NEW list, NEW rank, ListInv(list, rank), Drain
    PROVE  ListInv(list, rank)' /\ rank[head'] = rank[head] + 1 /\ head' = nxt[head]
<1> USE MaxNodeIsNat
<1>1. /\ Ended /\ ~Destroyed /\ nxt[head] # NULL /\ head' = nxt[head]
      /\ tail' = (IF tail = head THEN nxt[head] ELSE tail) /\ freed' = freed \cup {head}
      /\ UNCHANGED <<nxt, data, allocated, locals, pc, history>>
      /\ head' \in Node
  BY DEF Drain, TypeOK
<1>2. /\ Linked(list, rank) /\ PointersInList(list, rank)
      /\ rank \in [Node -> Nat] /\ head \in Node /\ tail \in Node
      /\ \A n \in Node : n \in freed <=> rank[n] # 0 /\ rank[n] < rank[head]
  BY <1>1, DestructorFinds
<1>3. /\ rank[head] # 0 /\ rank[head] <= rank[tail] /\ Len(list) <= rank[tail] + 1
      /\ rank[head'] = rank[head] + 1 /\ Len(list) \in Nat /\ rank[tail] \in Nat
      /\ rank[head] \in Nat
  BY <1>1, <1>2, ListFacts DEF PointersInList
<1>4. tail # head => rank[tail] # rank[head]
  BY <1>2, <1>3, ListFacts
<1>5. rank[head'] <= rank[tail'] /\ rank[tail'] >= rank[tail]
  BY <1>1, <1>3, <1>4
<1>6. head' \notin freed /\ head' # head
  BY <1>1, <1>2, <1>3
<1>7. ~Destroyed'
  BY <1>1, <1>6 DEF Destroyed
<1>8. rank[tail'] \in Nat
  BY <1>1, <1>3
<1>9. PointersInList(list, rank)'
  BY <1>3, <1>5, <1>7, <1>8 DEF PointersInList
<1>10. ASSUME NEW n \in Node
       PROVE  n \in freed' <=> rank[n] # 0 /\ (rank[n] < rank[head'] \/ Destroyed')
  <2>1. CASE n = head
    BY <1>1, <1>3, <2>1
  <2>2. CASE n # head
    <3>1. rank[n] # rank[head] /\ rank[n] \in Nat
      BY <1>2, <1>3, <2>2, ListFacts
    <3>2. rank[n] < rank[head'] <=> rank[n] < rank[head]
      BY <1>3, <3>1
    <3> QED
      BY <1>1, <1>2, <1>7, <2>2, <3>2
  <2> QED
    BY <2>1, <2>2
<1>11. rank[head'] >= rank[head]
  BY <1>3
<1>12. ListInv(list, rank)'
  BY <1>1, <1>5, <1>9, <1>10, <1>11, DestructorStep
<1> QED
  BY <1>1, <1>3, <1>12

\* The destructor deletes the last sentinel, behind which there is nothing.
LEMMA DestroyStep ==
    ASSUME TypeOK, TypeOK', NEW list, NEW rank, ListInv(list, rank), Destroy
    PROVE  ListInv(list, rank)'
<1> USE MaxNodeIsNat
<1>1. /\ Ended /\ ~Destroyed /\ nxt[head] = NULL /\ freed' = freed \cup {head}
      /\ UNCHANGED <<head, tail, nxt, data, allocated, locals, pc, history>>
  BY DEF Destroy
<1>2. /\ Linked(list, rank) /\ PointersInList(list, rank)
      /\ rank \in [Node -> Nat] /\ head \in Node /\ tail \in Node
      /\ \A n \in Node : n \in freed <=> rank[n] # 0 /\ rank[n] < rank[head]
  BY <1>1, DestructorFinds
<1>3. /\ Len(list) \in Nat /\ rank[head] \in 1..Len(list)
      /\ \A n \in Node : rank[n] \in 0..Len(list)
  BY <1>2, ListFacts DEF PointersInList, Linked
<1>4. rank[head] = Len(list)
  BY <1>1, <1>2, <1>3, ListFacts
<1>5. Destroyed'
  BY <1>1 DEF Destroyed, Ended
<1>6. PointersInList(list, rank)'
  BY <1>1, <1>2, <1>4 DEF PointersInList
<1>7. ASSUME NEW n \in Node PROVE n \in freed' <=> rank[n] # 0
  <2>1. CASE n = head
    BY <1>1, <1>3, <2>1
  <2>2. CASE n # head
    <3>1. rank[n] # 0 => rank[n] # rank[head]
      BY <1>2, <2>2, ListFacts
    <3>2. rank[n] # 0 => rank[n] < rank[head]
      BY <1>3, <1>4, <3>1
    <3> QED
      BY <1>1, <1>2, <2>2, <3>2
  <2> QED
    BY <2>1, <2>2
<1>8. rank[head'] >= rank[head] /\ rank[tail'] >= rank[tail]
  BY <1>1, <1>2
<1> QED
  BY <1>1, <1>5, <1>6, <1>7, <1>8, DestructorStep

LEMMA ListStutter ==
    ASSUME NEW list, NEW rank, ListInv(list, rank), UNCHANGED vars
    PROVE  ListInv(list, rank)'
  BY DEF vars, shared, locals, history, ListInv, Linked, PointersInList, NodesInUse,
         ProducerInv, ConsumerInv, NodesDeleted, Removes, Unlinked, Destroyed, Ended

\* The emptiness that someone notes. Only the consumer that takes the last value makes
\* the queue empty, and it notes that for all.
LEMMA EmptinessStep ==
    ASSUME TypeOK, TypeOK', EmptinessNoted, NEW list, NEW rank, ListInv(list, rank), [Next]_vars
    PROVE  EmptinessNoted'
<1> USE DEF Goto, Forget, Retry, shared, locals, history, vars
<1>1. /\ head \in Node /\ pc \in [Threads -> ProducerPC \cup ConsumerPC]
      /\ Producers \subseteq Threads /\ Consumers \subseteq Threads
      /\ Producers \cap Consumers = {}
  BY QueueAssumption DEF TypeOK, Threads
<1> DEFINE Same == UNCHANGED <<head, nxt, emptied>> /\ InConsume' \subseteq InConsume
<1>2. ASSUME NEW p \in Producers, produce(p), ~Link(p) PROVE Same
  BY <1>1, <1>2 DEF produce, Allocate, LoadTail, LoadTailNext, TailStill, TailMoved, LinkFails,
                    TailAfterLink, ProducerHelps, InConsume
<1>3. ASSUME NEW p \in Producers, Link(p) PROVE EmptinessNoted'
  <2>1. UNCHANGED <<head, emptied>> /\ InConsume' \subseteq InConsume
    BY <1>1, <1>3 DEF Link, InConsume
  <2>2. new_node[p] # NULL
    <3>1. pc[p] = "p43"
      BY <1>3 DEF Link
    <3>2. new_node[p] \in Node
      BY <3>1, NodesKnown DEF Unlinked
    <3> QED
      BY <3>2, MaxNodeIsNat
  <2>3. nxt'[head] = NULL => nxt[head] = NULL
    BY <1>3, <2>2 DEF Link, TypeOK
  <2> QED
    BY <2>1, <2>3 DEF EmptinessNoted
<1>4. ASSUME NEW c \in Consumers, consume(c), ~Enter(c), ~SwingHead(c), ~Delete(c) PROVE Same
  BY <1>1, <1>4 DEF consume, LoadHead, LoadTailToo, LoadHeadNext, HeadMoved, ReturnsEmpty,
                    HeadStill, ConsumerHelps, ReadData, SwingHeadFails, InConsume
<1>5. ASSUME NEW c \in Consumers, Enter(c) PROVE EmptinessNoted'
  BY <1>1, <1>5 DEF Enter, InConsume, EmptinessNoted
<1>6. ASSUME NEW c \in Consumers, SwingHead(c) PROVE EmptinessNoted'
  BY <1>1, <1>6 DEF SwingHead, InConsume, EmptinessNoted
<1>7. ASSUME NEW c \in Consumers, Delete(c) PROVE EmptinessNoted'
  BY <1>1, <1>7 DEF Delete, InConsume, EmptinessNoted
<1>8. ASSUME Drain \/ Destroy PROVE EmptinessNoted'
  BY <1>1, <1>8 DEF Drain, Destroy, Ended, InConsume, EmptinessNoted
<1>9. ASSUME UNCHANGED vars PROVE Same
  BY <1>9 DEF InConsume
<1>10. Same => EmptinessNoted'
  BY DEF EmptinessNoted
<1> HIDE DEF Same
<1> QED
  BY <1>2, <1>3, <1>4, <1>5, <1>6, <1>7, <1>8, <1>9, <1>10 DEF Next, Terminated

-----------------------------------------------------------------------------

LEMMA ListInit ==
    ASSUME Init
    PROVE  \E list \in Seq(Node), rank \in [Node -> Nat] : ListInv(list, rank) /\ Len(list) = rank[head]
<1> USE MaxNodeIsNat
<1> DEFINE list == <<0>>
           rank == [n \in Node |-> IF n = 0 THEN 1 ELSE 0]
<1>1. /\ list \in Seq(Node) /\ Len(list) = 1 /\ list[1] = 0
      /\ rank \in [Node -> Nat] /\ rank[0] = 1 /\ \A n \in Node : n # 0 <=> rank[n] = 0
  BY DEF Node
<1>2. /\ head = 0 /\ tail = 0 /\ allocated = 1 /\ freed = {}
      /\ \A n \in Node : nxt[n] = NULL
      /\ \A p \in Producers : pc[p] = "p33" /\ new_node[p] = NULL /\ sent[p] = 0
      /\ \A c \in Consumers : pc[c] = "c61"
  BY QueueAssumption DEF Init, Threads
<1> HIDE DEF list, rank
<1>3. Linked(list, rank)
  BY <1>1, <1>2 DEF Linked
<1>4. PointersInList(list, rank)
  <2>1. ~Destroyed
    BY <1>2 DEF Destroyed
  <2> QED
    BY <1>1, <1>2, <2>1 DEF PointersInList
<1>5. NodesInUse(rank)
  <2>1. /\ \A n \in Node : n >= allocated => rank[n] = 0
        /\ \A n \in 0..(allocated - 1) : n = 0
        /\ \A n \in 1..(allocated - 1) : FALSE
    BY <1>1, <1>2 DEF Node
  <2> QED
    BY <1>1, <2>1 DEF NodesInUse
<1>6. ASSUME NEW p \in Producers PROVE ProducerInv(rank, p)
  BY <1>2, QueueAssumption DEF ProducerInv, Unlinked, ProducerPC
<1>7. ASSUME NEW c \in Consumers PROVE ConsumerInv(rank, c)
  BY <1>2 DEF ConsumerInv, ConsumerPC
<1>8. NodesDeleted(rank)
  <2>1. /\ \A c \in Consumers, n \in Node : ~Removes(c, n)
        /\ ~Destroyed
        /\ \A n \in Node : ~(rank[n] # 0 /\ rank[n] < rank[head])
    BY <1>1, <1>2 DEF Removes, Destroyed
  <2> QED
    BY <1>2, <2>1 DEF NodesDeleted
<1>9. ListInv(list, rank) /\ Len(list) = rank[head]
  BY <1>1, <1>2, <1>3, <1>4, <1>5, <1>6, <1>7, <1>8 DEF ListInv
<1> QED
  BY <1>1, <1>9

LEMMA QueueInit == Init => QueueInv
<1> SUFFICES ASSUME Init PROVE QueueInv
  OBVIOUS
<1> USE MaxNodeIsNat
<1>1. TypeOK
  BY QueueAssumption DEF Init, TypeOK, Node, NodeOrNull, Threads, ProducerPC, ConsumerPC
<1>2. EmptinessNoted
  BY QueueAssumption DEF Init, EmptinessNoted, InConsume, Threads
<1> QED
  BY <1>1, <1>2, ListInit DEF QueueInv

\* A step other than a link keeps the list as it is.
LEMMA SameListStep ==
    ASSUME TypeOK, TypeOK', EmptinessNoted, NEW list, NEW rank, ListInv(list, rank),
           [Next]_vars, \A p \in Producers : ~Link(p)
    PROVE  ListInv(list, rank)'
<1>1. ASSUME NEW p \in Producers, produce(p) PROVE ListInv(list, rank)'
  BY <1>1, AllocateStep, QuietProducerStep DEF produce
<1>2. ASSUME NEW c \in Consumers, consume(c) PROVE ListInv(list, rank)'
  BY <1>2, SwingHeadStep, DeleteStep, QuietConsumerStep DEF consume
<1>3. ASSUME Drain \/ Destroy PROVE ListInv(list, rank)'
  BY <1>3, DrainStep, DestroyStep
<1>4. ASSUME UNCHANGED vars PROVE ListInv(list, rank)'
  BY <1>4, ListStutter
<1> QED
  BY <1>1, <1>2, <1>3, <1>4 DEF Next, Terminated

LEMMA QueueStep == QueueInv /\ [Next]_vars => QueueInv'
<1> SUFFICES ASSUME QueueInv, [Next]_vars PROVE QueueInv'
  OBVIOUS
<1>1. TypeOK /\ EmptinessNoted
  BY DEF QueueInv
<1>2. PICK list \in Seq(Node), rank \in [Node -> Nat] : ListInv(list, rank)
  BY DEF QueueInv
<1>3. TypeOK'
  BY <1>1, <1>2, TypeStep
<1>4. EmptinessNoted'
  BY <1>1, <1>2, <1>3, EmptinessStep
<1>5. \E list2 \in Seq(Node), rank2 \in [Node -> Nat] : ListInv(list2, rank2)'
  <2>1. CASE \E p \in Producers : Link(p)
    BY <1>1, <1>2, <1>3, <2>1, LinkStep
  <2>2. CASE \A p \in Producers : ~Link(p)
    BY <1>1, <1>2, <1>3, <2>2, SameListStep
  <2> QED
    BY <2>1, <2>2
<1> QED
  BY <1>3, <1>4, <1>5 DEF QueueInv

\* The list of the nodes that have been linked, in the order of their linking, and what
\* each thread knows of the pointers it has read (lock_free_queue.cc:32-95), for any
\* number of producers, consumers and values.
THEOREM QueueInvariant == Spec => []QueueInv
<1>1. Init => QueueInv
  BY QueueInit
<1>2. QueueInv /\ [Next]_vars => QueueInv'
  BY QueueStep
<1> QED
  BY <1>1, <1>2, PTL DEF Spec

\* The types of the pointers and local variables of lock_free_queue.cc: a thread that
\* goes through a pointer finds a node there.
THEOREM QueueTypeCorrect == Spec => []TypeOK
<1>1. QueueInv => TypeOK
  BY DEF QueueInv
<1> QED
  BY <1>1, QueueInvariant, PTL

LEMMA TailIsNear == QueueInv => TailNearEnd
<1> SUFFICES ASSUME QueueInv PROVE TailNearEnd
  OBVIOUS
<1>1. PICK list \in Seq(Node), rank \in [Node -> Nat] : ListInv(list, rank)
  BY DEF QueueInv
<1>2. /\ Linked(list, rank) /\ rank[head] # 0 /\ rank[head] <= rank[tail]
      /\ Len(list) <= rank[tail] + 1 /\ head \in Node /\ tail \in Node
  BY <1>1 DEF ListInv, PointersInList, QueueInv, TypeOK
<1>3. /\ Len(list) \in Nat /\ rank[head] \in 1..Len(list) /\ rank[tail] \in 1..Len(list)
      /\ list[rank[tail]] = tail
  BY <1>2, ListFacts DEF Linked
<1>4. Length = Len(list) - rank[head] /\ Length \in Nat
  BY <1>2, <1>3, BehindHead
<1>5. \A i \in 0..Length : AfterHead[i] = list[rank[head] + i]
  BY <1>2, ReachesEnd
<1>6. CASE rank[tail] = Len(list)
  <2>1. rank[head] + Length = Len(list) /\ Length \in 0..Length
    BY <1>3, <1>4
  <2> QED
    BY <1>3, <1>5, <1>6, <2>1 DEF TailNearEnd
<1>7. CASE rank[tail] # Len(list)
  <2> DEFINE h == rank[head]
             t == rank[tail]
             L == Len(list)
             n == Length
  <2>1. n # 0 /\ n - 1 \in 0..n /\ h + (n - 1) = t
    <3>1. L \in Nat /\ h \in 1..L /\ t \in 1..L /\ h <= t /\ L <= t + 1 /\ t # L /\ n = L - h
      BY <1>2, <1>3, <1>4, <1>7
    <3> HIDE DEF h, t, L, n
    <3>2. t = L - 1 /\ n # 0
      BY <3>1
    <3> QED
      BY <3>1, <3>2
  <2>2. AfterHead[Length - 1] = tail
    BY <1>3, <1>5, <2>1
  <2> QED
    BY <2>1, <2>2 DEF TailNearEnd
<1> QED
  BY <1>6, <1>7

\* tail stays within one node of the end of the list and is never overtaken by head,
\* whatever stale compare-and-swaps and helpers do (lock_free_queue.cc:43-53,71-79).
THEOREM TailStaysNear == Spec => []TailNearEnd
  BY QueueInvariant, TailIsNear, PTL

\* Who was told that the queue is empty was told the truth: it was empty at a moment of
\* the call (lock_free_queue.cc:73).
THEOREM EmptyIsTrue == Spec => []EmptyMeansEmpty
<1>1. QueueInv => EmptyMeansEmpty
  BY DEF QueueInv, ListInv, ConsumerInv, EmptyMeansEmpty
<1> QED
  BY <1>1, QueueInvariant, PTL

\* The four places that a node can be in exclude one another.
LEMMA NodesHaveAPlace == QueueInv => NodesAccounted
<1> SUFFICES ASSUME QueueInv, NEW n \in 0..(allocated - 1)
             PROVE  \E v :
                      {"list" : x \in (IF Destroyed THEN {} ELSE Reachable) \cap {n}}
                      \cup {"freed" : x \in freed \cap {n}}
                      \cup {p \in Producers : n \in {k \in {new_node[p]} \ {NULL} : pc[p] # "p46"}}
                      \cup {c \in Consumers : n \in {k \in {old_head[c]} : pc[c] = "c85"}}
                      = {v}
  BY FS_Singleton DEF NodesAccounted
<1> USE MaxNodeIsNat
<1>1. PICK list \in Seq(Node), rank \in [Node -> Nat] : ListInv(list, rank)
  BY DEF QueueInv
<1>2. /\ Linked(list, rank) /\ rank[head] # 0 /\ head \in Node
      /\ NodesInUse(rank) /\ NodesDeleted(rank)
      /\ \A p \in Producers : ProducerInv(rank, p)
      /\ \A c \in Consumers : ConsumerInv(rank, c)
  BY <1>1 DEF ListInv, PointersInList, QueueInv, TypeOK
<1>3. n \in Node /\ n # NULL /\ rank[n] \in Nat /\ rank[head] \in Nat
  <2>1. allocated \in 1..(MaxNode + 1)
    BY DEF QueueInv, TypeOK
  <2> QED
    BY <1>2, <2>1 DEF Node
<1> DEFINE inList == (IF Destroyed THEN {} ELSE Reachable) \cap {n}
           inFreed == freed \cap {n}
           makers == {p \in Producers : n \in {k \in {new_node[p]} \ {NULL} : pc[p] # "p46"}}
           takers == {c \in Consumers : n \in {k \in {old_head[c]} : pc[c] = "c85"}}
<1>4. inList = IF ~Destroyed /\ rank[n] >= rank[head] THEN {n} ELSE {}
  BY <1>2, <1>3, BehindHead
<1>5. inFreed = IF /\ rank[n] # 0 /\ (rank[n] < rank[head] \/ Destroyed)
                   /\ \A c \in Consumers : ~Removes(c, n)
                THEN {n} ELSE {}
  BY <1>2, <1>3 DEF NodesDeleted
<1>6. makers = {p \in Producers : Unlinked(p) /\ new_node[p] = n}
  <2>1. \A p \in Producers : new_node[p] = n /\ pc[p] # "p46" <=> Unlinked(p) /\ new_node[p] = n
    BY <1>2, <1>3 DEF ProducerInv, Unlinked, ProducerPC
  <2> QED
    BY <1>3, <2>1
<1>7. takers = {c \in Consumers : Removes(c, n)}
  BY DEF Removes
<1>8. \A c \in Consumers : Removes(c, n) => rank[n] # 0 /\ rank[n] < rank[head] /\ ~Destroyed
  BY <1>2, <1>3 DEF Removes, ConsumerInv, Destroyed, Ended, Threads
<1>9. \A p \in Producers : Unlinked(p) /\ new_node[p] = n => rank[n] = 0
  BY <1>2 DEF ProducerInv
<1> HIDE DEF inList, inFreed, makers, takers
<1>10. \E v : {"list" : x \in inList} \cup {"freed" : x \in inFreed} \cup makers \cup takers = {v}
  <2>1. CASE rank[n] = 0
    <3>1. PICK p \in Producers : new_node[p] = n /\ Unlinked(p)
      BY <1>2, <2>1 DEF NodesInUse
    <3>2. ASSUME NEW q \in Producers, Unlinked(q), new_node[q] = n PROVE q = p
      <4>1. data[n] = <<q, sent[q] + 1>> /\ data[n] = <<p, sent[p] + 1>>
        BY <1>2, <3>1, <3>2 DEF ProducerInv
      <4> QED
        BY <4>1
    <3>3. makers = {p}
      BY <1>6, <3>1, <3>2
    <3>4. inList = {} /\ inFreed = {} /\ takers = {}
      BY <1>2, <1>3, <1>4, <1>5, <1>7, <1>8, <2>1
    <3> QED
      BY <3>3, <3>4
  <2>2. CASE rank[n] # 0 /\ \E c \in Consumers : Removes(c, n)
    <3>1. PICK c \in Consumers : Removes(c, n)
      BY <2>2
    <3>2. takers = {c}
      BY <1>2, <1>3, <1>7, <3>1 DEF NodesDeleted
    <3>3. inList = {} /\ inFreed = {} /\ makers = {}
      BY <1>3, <1>4, <1>5, <1>6, <1>8, <1>9, <2>2
    <3> QED
      BY <3>2, <3>3
  <2>3. CASE rank[n] # 0 /\ \A c \in Consumers : ~Removes(c, n)
    <3>1. makers = {} /\ takers = {}
      BY <1>6, <1>7, <1>9, <2>3
    <3>2. (inList = {n} /\ inFreed = {}) \/ (inList = {} /\ inFreed = {n})
      BY <1>3, <1>4, <1>5, <2>3
    <3> QED
      BY <3>1, <3>2
  <2> QED
    BY <2>1, <2>2, <2>3
<1> QED
  BY <1>10 DEF inList, inFreed, makers, takers

\* Each node is in the list, with its producer, with the consumer that deletes it, or
\* deleted, and in one place only: nothing leaks and nothing is deleted twice, the nodes
\* that the destructor finds included (lock_free_queue.cc:19-24,85).
THEOREM NodesStayAccounted == Spec => []NodesAccounted
  BY QueueInvariant, NodesHaveAPlace, PTL

-----------------------------------------------------------------------------
\* The queue implements the first-in first-out buffer.

\* The values of the buffer, by the list.
Buffer == [i \in 1..Length |-> data[AfterHead[i]]]
Contents(list, rank) ==
    [i \in 1..(Len(list) - rank[head]) |-> data[list[rank[head] + i]]]

LEMMA BufferIsContents ==
    ASSUME NEW list, NEW rank
    PROVE  Linked(list, rank) /\ head \in Node /\ rank[head] # 0 => Buffer = Contents(list, rank)
<1> SUFFICES ASSUME Linked(list, rank), head \in Node, rank[head] # 0
             PROVE  Buffer = Contents(list, rank)
  OBVIOUS
<1>1. Length = Len(list) - rank[head]
  BY BehindHead
<1>2. \A i \in 1..Length : AfterHead[i] = list[rank[head] + i]
  <2>1. Length \in Nat /\ \A i \in 0..Length : AfterHead[i] = list[rank[head] + i]
    BY ReachesEnd, MaxNodeIsNat
  <2> QED
    BY <2>1
<1> QED
  BY <1>1, <1>2 DEF Buffer, Contents

\* The same after a step.
LEMMA BufferIsContentsNext ==
    ASSUME NEW list, NEW rank
    PROVE  (Linked(list, rank) /\ head \in Node /\ rank[head] # 0
              => Buffer = Contents(list, rank))'
<1>1. Linked(list, rank) /\ head \in Node /\ rank[head] # 0 => Buffer = Contents(list, rank)
  BY BufferIsContents
<1> QED
  BY <1>1, PTL

\* What the buffer does not contain may change.
LEMMA SameContents ==
    ASSUME NEW list, NEW rank, ListInv(list, rank), TypeOK, TypeOK', ListInv(list, rank)',
           UNCHANGED head, \A n \in Node : rank[n] # 0 /\ n # 0 => data'[n] = data[n]
    PROVE  Buffer' = Buffer
<1>1. Linked(list, rank) /\ Linked(list, rank)' /\ head \in Node /\ rank[head] # 0
  BY DEF ListInv, PointersInList, TypeOK
<1>2. Buffer = Contents(list, rank) /\ Buffer' = Contents(list, rank)'
  <2>1. rank[head'] # 0 /\ head' \in Node
    BY <1>1
  <2> QED
    BY <1>1, <2>1, BufferIsContents, BufferIsContentsNext
<1>3. ASSUME NEW i \in 1..(Len(list) - rank[head])
      PROVE  data'[list[rank[head] + i]] = data[list[rank[head] + i]]
  <2>1. rank[head] + i \in 1..Len(list) /\ rank[head] + i # 1
    BY <1>1, ListFacts
  <2>2. list[rank[head] + i] \in Node /\ rank[list[rank[head] + i]] = rank[head] + i
        /\ list[rank[head] + i] # 0
    BY <1>1, <2>1, ListFacts
  <2> QED
    BY <2>1, <2>2
<1> QED
  BY <1>2, <1>3 DEF Contents

\* Sequences by their elements.
LEMMA SeqAppend ==
    ASSUME NEW S, NEW n \in Nat, NEW s, NEW t, NEW v, v \in S,
           s \in [1..n -> S], t \in [1..(n + 1) -> S],
           \A i \in 1..n : t[i] = s[i], t[n + 1] = v
    PROVE  t = Append(s, v)
<1>1. s \in Seq(S) /\ Len(s) = n /\ t \in Seq(S) /\ Len(t) = n + 1
  OBVIOUS
<1>2. Append(s, v) \in Seq(S) /\ Len(Append(s, v)) = n + 1
  BY <1>1
<1>3. \A i \in 1..(n + 1) : t[i] = Append(s, v)[i]
  BY <1>1
<1> QED
  BY <1>1, <1>2, <1>3, SeqEqual

LEMMA SeqTail ==
    ASSUME NEW S, NEW n \in Nat \ {0}, NEW s, NEW t,
           s \in [1..n -> S], t \in [1..(n - 1) -> S],
           \A i \in 1..(n - 1) : t[i] = s[i + 1]
    PROVE  s # <<>> /\ t = Tail(s) /\ Head(s) = s[1]
<1>1. s \in Seq(S) /\ Len(s) = n /\ t \in Seq(S) /\ Len(t) = n - 1 /\ s # <<>>
  OBVIOUS
<1>2. Tail(s) \in Seq(S) /\ Len(Tail(s)) = n - 1
      /\ \A i \in 1..Len(Tail(s)) : Tail(s)[i] = s[i + 1]
  BY <1>1, HeadTailProperties
<1>3. t = Tail(s)
  BY <1>1, <1>2, SeqEqual
<1> QED
  BY <1>1, <1>3

LEMMA LinkPuts ==
    ASSUME TypeOK, TypeOK', NEW list \in Seq(Node), NEW rank, ListInv(list, rank),
           NEW p \in Producers, Link(p)
    PROVE  Buffer' = Append(Buffer, <<p, sent'[p]>>)
<1> USE MaxNodeIsNat
<1>1. PICK o, m : o = old_tail[p] /\ m = new_node[p]
  OBVIOUS
<1>2. PICK list2, rank2 :
          list2 = Append(list, m) /\ rank2 = [rank EXCEPT ![m] = Len(list) + 1]
  OBVIOUS
<1>3. ListInv(list2, rank2)'
  BY <1>1, <1>2, LinkNewNode
<1>4. /\ Linked(list, rank) /\ Linked(list2, rank2)'
      /\ head \in Node /\ head' = head /\ rank[head] # 0 /\ rank2[head'] # 0
      /\ rank \in [Node -> Nat] /\ data' = data
  BY <1>3 DEF ListInv, Linked, PointersInList, TypeOK, Link
<1>5. Buffer = Contents(list, rank) /\ Buffer' = Contents(list2, rank2)'
  BY <1>4, BufferIsContents, BufferIsContentsNext
<1>6. m \in Node /\ rank[m] = 0 /\ data[m] = <<p, sent'[p]>>
  <2>1. ProducerInv(rank, p) /\ pc[p] = "p43" /\ sent' = [sent EXCEPT ![p] = @ + 1]
    BY DEF ListInv, Link, Goto
  <2>2. Unlinked(p)
    BY <2>1 DEF Unlinked
  <2>3. m \in Node
    BY <1>1, <2>2, NodesKnown
  <2> QED
    BY <1>1, <2>1, <2>2, <2>3 DEF ProducerInv, TypeOK
<1> DEFINE h == rank[head]
           n == Len(list) - h
<1>7. n \in Nat /\ Len(list2) - h = n + 1 /\ rank2[head'] = h /\ Len(list) \in Nat /\ h \in Nat \ {0}
  <2>1. Len(list) \in Nat /\ h \in 1..Len(list)
    BY <1>4, ListFacts
  <2>2. rank2[head'] = h
    BY <1>2, <1>4, <1>6
  <2>3. Len(list2) = Len(list) + 1
    BY <1>2
  <2> QED
    BY <2>1, <2>2, <2>3
<1>8. /\ \A i \in 1..n : list2[h + i] = list[h + i]
      /\ list2[h + (n + 1)] = m
  <2>1. \A i \in 1..n : h + i \in 1..Len(list)
    BY <1>7
  <2>2. h + (n + 1) = Len(list) + 1
    BY <1>7
  <2> QED
    BY <1>2, <2>1, <2>2
<1>9. Buffer = [i \in 1..n |-> data[list[h + i]]]
      /\ Buffer' = [i \in 1..(n + 1) |-> data[list2[h + i]]]
  BY <1>4, <1>5, <1>7 DEF Contents
<1> HIDE DEF h, n
<1>10. /\ <<p, sent'[p]>> \in Values \cup {NULL}
       /\ \A x \in Node : data[x] \in Values \cup {NULL}
  BY <1>6 DEF TypeOK
<1>11. /\ Buffer \in [1..n -> Values \cup {NULL}]
       /\ Buffer' \in [1..(n + 1) -> Values \cup {NULL}]
  <2>1. \A i \in 1..n : list[h + i] \in Node
    <3>1. \A i \in 1..n : h + i \in 1..Len(list)
      BY <1>7 DEF n
    <3> QED
      BY <3>1
  <2>2. \A i \in 1..(n + 1) : list2[h + i] \in Node
    <3> SUFFICES ASSUME NEW i \in 1..(n + 1) PROVE list2[h + i] \in Node
      OBVIOUS
    <3>1. i = n + 1 \/ i \in 1..n
      BY <1>7
    <3> QED
      BY <1>6, <1>8, <2>1, <3>1
  <2> QED
    BY <1>9, <1>10, <2>1, <2>2
<1>12. \A i \in 1..n : Buffer'[i] = Buffer[i]
  BY <1>7, <1>8, <1>9
<1>13. Buffer'[n + 1] = <<p, sent'[p]>>
  <2>1. n + 1 \in 1..(n + 1)
    BY <1>7
  <2> QED
    BY <1>6, <1>8, <1>9, <2>1
<1>14. PICK S, old, new, v : /\ S = Values \cup {NULL} /\ v = <<p, sent'[p]>>
                             /\ old = Buffer /\ new = Buffer'
  OBVIOUS
<1>15. /\ n \in Nat /\ v \in S
       /\ old \in [1..n -> S] /\ new \in [1..(n + 1) -> S]
       /\ \A i \in 1..n : new[i] = old[i]
       /\ new[n + 1] = v
  BY <1>7, <1>10, <1>11, <1>12, <1>13, <1>14
<1>16. new = Append(old, v)
  BY <1>15, SeqAppend, Zenon
<1> QED
  BY <1>14, <1>16

LEMMA SwingTakes ==
    ASSUME TypeOK, TypeOK', NEW list, NEW rank, ListInv(list, rank),
           NEW c \in Consumers, SwingHead(c)
    PROVE  Buffer # <<>> /\ Buffer' = Tail(Buffer) /\ result[c] = Head(Buffer)
<1> USE MaxNodeIsNat
<1>1. ListInv(list, rank)' /\ rank[head'] = rank[head] + 1 /\ head' = nxt[head]
      /\ result[c] = data[head']
  BY SwingHeadStep
<1>2. /\ Linked(list, rank) /\ Linked(list, rank)' /\ head \in Node /\ rank[head] # 0
      /\ head' \in Node /\ rank[head'] # 0 /\ data' = data
  BY <1>1 DEF ListInv, PointersInList, TypeOK, SwingHead
<1>3. Buffer = Contents(list, rank) /\ Buffer' = Contents(list, rank)'
  BY <1>2, BufferIsContents, BufferIsContentsNext
<1> DEFINE h == rank[head]
           n == Len(list) - h
<1>4. /\ Len(list) \in Nat /\ h \in Nat \ {0} /\ rank[head'] = h + 1 /\ rank[head'] \in 1..Len(list)
      /\ list[h + 1] = head'
  <2>1. rank[head'] \in 1..Len(list) /\ Len(list) \in Nat /\ h \in Nat \ {0}
    BY <1>2, ListFacts
  <2>2. list[rank[head']] = head'
    BY <1>2 DEF Linked
  <2> QED
    BY <1>1, <2>1, <2>2
<1>5. Buffer = [i \in 1..n |-> data[list[h + i]]]
      /\ Buffer' = [i \in 1..(n - 1) |-> data[list[(h + 1) + i]]]
  <2>1. Len(list) - (h + 1) = n - 1
    BY <1>4
  <2> QED
    BY <1>2, <1>3, <1>4, <2>1 DEF Contents
<1>6. n \in Nat \ {0}
  BY <1>4
<1> HIDE DEF h, n
<1>7. /\ Buffer \in [1..n -> Values \cup {NULL}]
      /\ Buffer' \in [1..(n - 1) -> Values \cup {NULL}]
  <2>1. \A i \in 1..Len(list) : data[list[i]] \in Values \cup {NULL}
    BY <1>2, ListFacts DEF TypeOK
  <2>2. /\ \A i \in 1..n : h + i \in 1..Len(list)
        /\ \A i \in 1..(n - 1) : (h + 1) + i \in 1..Len(list)
    BY <1>4 DEF n
  <2> QED
    BY <1>5, <2>1, <2>2
<1>8. \A i \in 1..(n - 1) : Buffer'[i] = Buffer[i + 1]
  <2> SUFFICES ASSUME NEW i \in 1..(n - 1) PROVE Buffer'[i] = Buffer[i + 1]
    OBVIOUS
  <2>1. i + 1 \in 1..n /\ h + (i + 1) = (h + 1) + i
    BY <1>4, <1>6
  <2> QED
    BY <1>5, <2>1
<1>9. Buffer[1] = result[c]
  <2>1. 1 \in 1..n
    BY <1>6
  <2> QED
    BY <1>1, <1>4, <1>5, <2>1
<1>10. \A s, t, S : /\ s \in [1..n -> S] /\ t \in [1..(n - 1) -> S]
                    /\ \A i \in 1..(n - 1) : t[i] = s[i + 1]
                    => s # <<>> /\ t = Tail(s) /\ Head(s) = s[1]
  BY <1>6, SeqTail, Zenon
<1> QED
  BY <1>7, <1>8, <1>9, <1>10, Zenon

\* What each step is in FifoQueue.
LEMMA FifoStep ==
    ASSUME QueueInv, QueueInv', [Next]_vars
    PROVE  [Fifo!FifoNext \/ Drain]_(Fifo!fifoVars)
<1> USE MaxNodeIsNat
<1>1. TypeOK /\ TypeOK' /\ EmptinessNoted
  BY DEF QueueInv
<1>2. PICK list \in Seq(Node), rank \in [Node -> Nat] : ListInv(list, rank)
  BY DEF QueueInv
<1>3. Buffer = [i \in 1..Length |-> data[AfterHead[i]]]
  BY DEF Buffer
<1>4. ASSUME NEW p \in Producers, Link(p) PROVE Fifo!Put(p)
  <2>1. Buffer' = Append(Buffer, <<p, sent'[p]>>)
    BY <1>1, <1>2, <1>4, LinkPuts
  <2> QED
    BY <1>4, <2>1 DEF Link, Fifo!Put, Buffer
<1>5. ASSUME NEW c \in Consumers, SwingHead(c) PROVE Fifo!Take(c)
  <2>1. Buffer # <<>> /\ Buffer' = Tail(Buffer) /\ result[c] = Head(Buffer)
    BY <1>1, <1>2, <1>5, SwingTakes
  <2> QED
    BY <1>5, <2>1 DEF SwingHead, Fifo!Take, Buffer
<1>6. ASSUME [Next]_vars, \A p \in Producers : ~Link(p), \A c \in Consumers : ~SwingHead(c), ~Drain
      PROVE  UNCHANGED Fifo!fifoVars
  <2>1. UNCHANGED <<head, sent, received>>
    <3>1. ASSUME NEW p \in Producers, produce(p) PROVE UNCHANGED <<head, sent, received>>
      BY <1>6, <3>1 DEF produce, Allocate, LoadTail, LoadTailNext, TailStill, TailMoved, LinkFails,
           TailAfterLink, ProducerHelps, Retry, shared, history
    <3>2. ASSUME NEW c \in Consumers, consume(c) PROVE UNCHANGED <<head, sent, received>>
      BY <1>6, <3>2 DEF consume, Enter, LoadHead, LoadTailToo, LoadHeadNext, HeadMoved,
           ReturnsEmpty, HeadStill, ConsumerHelps, ReadData, SwingHeadFails, Delete, Retry, shared, history
    <3> QED
      BY <1>6, <3>1, <3>2 DEF Next, Destroy, Terminated, vars, shared, history
  <2>2. \A n \in Node : rank[n] # 0 /\ n # 0 => data'[n] = data[n]
    <3>1. ASSUME NEW p \in Producers, Allocate(p) PROVE \A n \in Node : rank[n] # 0 => data'[n] = data[n]
      <4>1. rank[allocated] = 0 /\ data' = [data EXCEPT ![allocated] = <<p, sent[p] + 1>>]
        <5>1. allocated \in Node
          BY <1>1, <1>2, <3>1, RoomForAnother DEF Allocate, Goto, TypeOK, Node
        <5> QED
          BY <1>2, <3>1, <5>1 DEF ListInv, NodesInUse, Allocate, Node
      <4> QED
        BY <1>1, <4>1 DEF TypeOK
    <3>2. ASSUME NEW p \in Producers, produce(p), ~Allocate(p) PROVE data' = data
      BY <1>6, <3>2 DEF produce, LoadTail, LoadTailNext, TailStill, TailMoved, LinkFails,
           TailAfterLink, ProducerHelps, Retry, shared
    <3>3. ASSUME NEW c \in Consumers, consume(c) PROVE data' = data
      BY <1>6, <3>3 DEF consume, Enter, LoadHead, LoadTailToo, LoadHeadNext, HeadMoved,
           ReturnsEmpty, HeadStill, ConsumerHelps, ReadData, SwingHeadFails, Delete, Retry, shared
    <3> QED
      BY <1>6, <3>1, <3>2, <3>3 DEF Next, Destroy, Terminated, vars, shared
  <2>3. ListInv(list, rank)'
    BY <1>1, <1>2, <1>6, SameListStep
  <2>4. Buffer' = Buffer
    BY <1>1, <1>2, <2>1, <2>2, <2>3, SameContents
  <2> QED
    BY <2>1, <2>4 DEF Fifo!fifoVars, Buffer
<1> QED
  BY <1>4, <1>5, <1>6 DEF Fifo!FifoNext

LEMMA FifoStart == Init => Fifo!FifoInit
<1> SUFFICES ASSUME Init PROVE Fifo!FifoInit
  OBVIOUS
<1>1. PICK list \in Seq(Node), rank \in [Node -> Nat] : ListInv(list, rank) /\ Len(list) = rank[head]
  BY ListInit
<1>2. Linked(list, rank) /\ head \in Node /\ rank[head] # 0 /\ rank \in [Node -> Nat]
  BY <1>1, MaxNodeIsNat DEF ListInv, PointersInList, Init
<1>3. Length = 0
  BY <1>1, <1>2, BehindHead
<1>4. [i \in 1..Length |-> data[AfterHead[i]]] = <<>>
  BY <1>3
<1> QED
  BY <1>4 DEF Init, Fifo!FifoInit

\* The queue of lock_free_queue.cc is a first-in first-out buffer for any number of
\* producers and consumers: what a producer adds takes its place when its node is linked
\* (line 43), and is delivered, the oldest first and once, when head passes it (line 82).
THEOREM QueueImplementsFifo == Spec => ImplementsFifo
<1>1. Init => Fifo!FifoInit
  BY FifoStart
<1>2. QueueInv /\ QueueInv' /\ [Next]_vars => [Fifo!FifoNext \/ Drain]_(Fifo!fifoVars)
  BY FifoStep
<1> QED
  BY <1>1, <1>2, QueueInvariant, PTL DEF Spec, ImplementsFifo
=============================================================================
