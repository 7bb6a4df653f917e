---------------------------- MODULE LockFreeQueue ----------------------------
(***************************************************************************)
(* LockFreeQueue<T> of lock_free_queue.cc, a linked queue in the manner of *)
(* Michael and Scott, and the threads of its main(): producers that call   *)
(* produce() and consumers that call consume() until it returns false.     *)
(*                                                                         *)
(* Each access to head, tail or a node's next is a step of its own; a weak *)
(* compare-and-swap may fail for no reason. Memory accesses are            *)
(* sequentially consistent. A node is known by the order of its            *)
(* allocation; one that has been deleted stays as it was, which is the     *)
(* mildest of the outcomes a program that reads it may see.                *)
(***************************************************************************)
EXTENDS Naturals, Sequences, FiniteSets

CONSTANTS
    Producers, Consumers,
    ProducesPer,    \* the values a producer adds (1 in main())
    NULL

ASSUME QueueAssumption ==
    /\ IsFiniteSet(Producers)
    /\ Producers \cap Consumers = {}
    /\ ProducesPer \in Nat \ {0}
    /\ NULL \notin Nat

Threads == Producers \cup Consumers

\* The sentinel of the constructor is node 0.
MaxNode == Cardinality(Producers) * ProducesPer
Node == 0..MaxNode
NodeOrNull == Node \cup {NULL}
Values == Producers \X (1..ProducesPer)

VARIABLES
    head, tail,     \* the two atomic pointers
    nxt,            \* [Node -> NodeOrNull]: the field next
    data,           \* [Node -> Values]: the field data (NULL in the sentinel)
    allocated,      \* how many nodes have been allocated
    freed,          \* the nodes that have been deleted
    pc,             \* the source line a thread is at
    old_head, old_tail, next, new_node,     \* the local variables
    result,         \* what consume() has read for its caller
    sent,           \* [Producers -> Nat]: the values linked so far
    received,       \* [Consumers -> Seq(Values)]: the values consumed
    emptied         \* the consumers whose call has overlapped an empty queue

shared == <<head, tail, nxt, data, allocated, freed>>
locals == <<old_head, old_tail, next, new_node, result>>
history == <<sent, received, emptied>>
vars == <<shared, locals, pc, history>>

ProducerPC == {"p33", "p38", "p39", "p41", "p43", "p46", "p53", "end"}
ConsumerPC == {"c61", "c67", "c68", "c69", "c71", "c77", "c81", "c82", "c85", "end"}

TypeOK ==
    /\ head \in Node /\ tail \in Node
    /\ nxt \in [Node -> NodeOrNull]
    /\ data \in [Node -> Values \cup {NULL}]
    /\ allocated \in 1..(MaxNode + 1)
    /\ freed \subseteq Node
    /\ pc \in [Threads -> ProducerPC \cup ConsumerPC]
    /\ \A v \in {old_head, old_tail, next, new_node} : v \in [Threads -> NodeOrNull]
    /\ result \in [Consumers -> Values \cup {NULL}]
    /\ sent \in [Producers -> 0..ProducesPer]
    /\ received \in [Consumers -> Seq(Values)]
    /\ emptied \subseteq Consumers

Init ==
    /\ head = 0 /\ tail = 0
    /\ nxt = [n \in Node |-> NULL]
    /\ data = [n \in Node |-> NULL]
    /\ allocated = 1
    /\ freed = {}
    /\ pc = [t \in Threads |-> IF t \in Producers THEN "p33" ELSE "c61"]
    /\ old_head = [t \in Threads |-> NULL]
    /\ old_tail = [t \in Threads |-> NULL]
    /\ next = [t \in Threads |-> NULL]
    /\ new_node = [t \in Threads |-> NULL]
    /\ result = [c \in Consumers |-> NULL]
    /\ sent = [p \in Producers |-> 0]
    /\ received = [c \in Consumers |-> <<>>]
    /\ emptied = {}

\* t goes on at line `to`.
Goto(t, from, to) == pc[t] = from /\ pc' = [pc EXCEPT ![t] = to]

\* The local variables are dead once a round of the loop is over.
Forget(t) ==
    /\ old_head' = [old_head EXCEPT ![t] = NULL]
    /\ old_tail' = [old_tail EXCEPT ![t] = NULL]
    /\ next' = [next EXCEPT ![t] = NULL]

\* A step that only evaluates local variables, or a failed compare-and-swap.
Retry(t, from, to) ==
    /\ Goto(t, from, to)
    /\ Forget(t)
    /\ UNCHANGED <<shared, new_node, history>>

\* tail.store(node) in place of the compare-and-swap.
Mut_SwingTailStore(t, node) == tail' = node

\* tail.compare_exchange_weak(old_tail, node): succeeds, or leaves tail.
SwingTail(t, node) ==
    tail' \in {tail} \cup (IF tail = old_tail[t] THEN {node} ELSE {})

-----------------------------------------------------------------------------
\* produce()

Allocate(p) ==
    /\ Goto(p, "p33", "p38")
    /\ new_node' = [new_node EXCEPT ![p] = allocated]
    /\ data' = [data EXCEPT ![allocated] = <<p, sent[p] + 1>>]
    /\ allocated' = allocated + 1
    /\ UNCHANGED <<head, tail, nxt, freed, old_head, old_tail, next, result, history>>

LoadTail(p) ==
    /\ Goto(p, "p38", "p39")
    /\ old_tail' = [old_tail EXCEPT ![p] = tail]
    /\ UNCHANGED <<shared, old_head, next, new_node, result, history>>

LoadTailNext(p) ==
    /\ Goto(p, "p39", "p41")
    /\ next' = [next EXCEPT ![p] = nxt[old_tail[p]]]
    /\ UNCHANGED <<shared, old_head, old_tail, new_node, result, history>>

\* Tail has not moved: link the node after it, or help it forward.
TailStill(p) ==
    /\ old_tail[p] = tail
    /\ Goto(p, "p41", IF next[p] = NULL THEN "p43" ELSE "p53")
    /\ UNCHANGED <<shared, locals, history>>

TailMoved(p) ==
    /\ old_tail[p] # tail
    /\ Retry(p, "p41", "p38")
    /\ UNCHANGED result

\* A link that does not test that the node is still the last one.
Mut_LinkStore(p) ==
    /\ Goto(p, "p43", "p46")
    /\ nxt' = [nxt EXCEPT ![old_tail[p]] = new_node[p]]
    /\ sent' = [sent EXCEPT ![p] = @ + 1]
    /\ UNCHANGED <<head, tail, data, allocated, freed, locals, received, emptied>>

\* The compare-and-swap of line 43: the node is in the queue.
Link(p) ==
    /\ Goto(p, "p43", "p46")
    /\ nxt[old_tail[p]] = NULL
    /\ nxt' = [nxt EXCEPT ![old_tail[p]] = new_node[p]]
    /\ sent' = [sent EXCEPT ![p] = @ + 1]
    /\ UNCHANGED <<head, tail, data, allocated, freed, locals, received, emptied>>

LinkFails(p) == Retry(p, "p43", "p38") /\ UNCHANGED result

\* A producer that makes one call too many.
Mut_OneMoreCall(p) ==
    /\ Goto(p, "p46", IF sent[p] <= ProducesPer THEN "p33" ELSE "end")
    /\ SwingTail(p, new_node[p])
    /\ new_node' = [new_node EXCEPT ![p] = NULL]
    /\ Forget(p)
    /\ UNCHANGED <<head, nxt, data, allocated, freed, result, history>>

\* Line 46; produce() returns whatever the outcome.
TailAfterLink(p) ==
    /\ Goto(p, "p46", IF sent[p] < ProducesPer THEN "p33" ELSE "end")
    /\ SwingTail(p, new_node[p])
    /\ new_node' = [new_node EXCEPT ![p] = NULL]
    /\ Forget(p)
    /\ UNCHANGED <<head, nxt, data, allocated, freed, result, history>>

ProducerHelps(p) ==
    /\ Goto(p, "p53", "p38")
    /\ SwingTail(p, next[p])
    /\ Forget(p)
    /\ UNCHANGED <<head, nxt, data, allocated, freed, new_node, result, history>>

produce(p) ==
    \/ Allocate(p) \/ LoadTail(p) \/ LoadTailNext(p) \/ TailStill(p) \/ TailMoved(p)
    \/ Link(p) \/ LinkFails(p) \/ TailAfterLink(p) \/ ProducerHelps(p)

-----------------------------------------------------------------------------
\* consume()

\* The call begins; it may find the queue empty.
Enter(c) ==
    /\ Goto(c, "c61", "c67")
    /\ emptied' = IF nxt[head] = NULL THEN emptied \cup {c} ELSE emptied
    /\ UNCHANGED <<shared, locals, sent, received>>

LoadHead(c) ==
    /\ Goto(c, "c67", "c68")
    /\ old_head' = [old_head EXCEPT ![c] = head]
    /\ UNCHANGED <<shared, old_tail, next, new_node, result, history>>

LoadTailToo(c) ==
    /\ Goto(c, "c68", "c69")
    /\ old_tail' = [old_tail EXCEPT ![c] = tail]
    /\ UNCHANGED <<shared, old_head, next, new_node, result, history>>

LoadHeadNext(c) ==
    /\ Goto(c, "c69", "c71")
    /\ next' = [next EXCEPT ![c] = nxt[old_head[c]]]
    /\ UNCHANGED <<shared, old_head, old_tail, new_node, result, history>>

HeadMoved(c) ==
    /\ old_head[c] # head
    /\ Retry(c, "c71", "c67")
    /\ UNCHANGED result

\* consume() that takes a lagging tail for an empty queue.
Mut_EmptyWithoutNext(c) ==
    /\ old_head[c] = head
    /\ old_head[c] = old_tail[c]
    /\ Retry(c, "c71", "end")
    /\ UNCHANGED result

\* Nothing after the sentinel: return false, and the thread ends.
ReturnsEmpty(c) ==
    /\ old_head[c] = head
    /\ old_head[c] = old_tail[c]
    /\ next[c] = NULL
    /\ Retry(c, "c71", "end")
    /\ UNCHANGED result

\* Something is there: help tail forward, or take the value.
HeadStill(c) ==
    /\ old_head[c] = head
    /\ ~(old_head[c] = old_tail[c] /\ next[c] = NULL)
    /\ Goto(c, "c71", IF old_head[c] = old_tail[c] THEN "c77" ELSE "c81")
    /\ UNCHANGED <<shared, locals, history>>

ConsumerHelps(c) ==
    /\ Goto(c, "c77", "c67")
    /\ SwingTail(c, next[c])
    /\ Forget(c)
    /\ UNCHANGED <<head, nxt, data, allocated, freed, new_node, result, history>>

ReadData(c) ==
    /\ Goto(c, "c81", "c82")
    /\ result' = [result EXCEPT ![c] = data[next[c]]]
    /\ UNCHANGED <<shared, old_head, old_tail, next, new_node, history>>

InConsume == {c \in Consumers : pc[c] \notin {"c61", "end"}}

\* head.store(next) in place of the compare-and-swap.
Mut_SwingHeadStore(c) ==
    /\ Goto(c, "c82", "c85")
    /\ head' = next[c]
    /\ received' = [received EXCEPT ![c] = Append(@, result[c])]
    /\ emptied' = IF nxt[next[c]] = NULL THEN emptied \cup InConsume ELSE emptied
    /\ UNCHANGED <<tail, nxt, data, allocated, freed, locals, sent>>

\* The compare-and-swap of line 82: the value is the consumer's.
SwingHead(c) ==
    /\ Goto(c, "c82", "c85")
    /\ head = old_head[c]
    /\ head' = next[c]
    /\ received' = [received EXCEPT ![c] = Append(@, result[c])]
    /\ emptied' = IF nxt[next[c]] = NULL THEN emptied \cup InConsume ELSE emptied
    /\ UNCHANGED <<tail, nxt, data, allocated, freed, locals, sent>>

SwingHeadFails(c) ==
    /\ Retry(c, "c82", "c67")
    /\ result' = [result EXCEPT ![c] = NULL]

\* A consumer that deletes the node it has read instead of the old sentinel.
Mut_DeleteNext(c) ==
    /\ Goto(c, "c85", "c61")
    /\ freed' = freed \cup {next[c]}
    /\ Forget(c)
    /\ result' = [result EXCEPT ![c] = NULL]
    /\ emptied' = emptied \ {c}
    /\ UNCHANGED <<head, tail, nxt, data, allocated, new_node, sent, received>>

\* delete old_head; consume() returns true and is called again.
Delete(c) ==
    /\ Goto(c, "c85", "c61")
    /\ freed' = freed \cup {old_head[c]}
    /\ Forget(c)
    /\ result' = [result EXCEPT ![c] = NULL]
    /\ emptied' = emptied \ {c}
    /\ UNCHANGED <<head, tail, nxt, data, allocated, new_node, sent, received>>

consume(c) ==
    \/ Enter(c) \/ LoadHead(c) \/ LoadTailToo(c) \/ LoadHeadNext(c) \/ HeadMoved(c)
    \/ ReturnsEmpty(c) \/ HeadStill(c) \/ ConsumerHelps(c) \/ ReadData(c)
    \/ SwingHead(c) \/ SwingHeadFails(c) \/ Delete(c)

-----------------------------------------------------------------------------

\* The n-th node after head, or NULL.
AfterHead[n \in 0..MaxNode] ==
    IF n = 0 THEN head
    ELSE IF AfterHead[n - 1] = NULL THEN NULL ELSE nxt[AfterHead[n - 1]]

\* The length of the list behind the sentinel.
Length == Cardinality({n \in 1..MaxNode : AfterHead[n] # NULL})

Reachable == {AfterHead[n] : n \in 0..Length}

Ended == \A t \in Threads : pc[t] = "end"

Destroyed == Ended /\ head \in freed

\* ~LockFreeQueue(), when main has joined its threads: main alone calls consume()
\* until nothing is left. A call that returns true first moves a tail that lags
\* behind, and deletes the node that head passes.
Drain ==
    /\ Ended
    /\ ~Destroyed
    /\ nxt[head] # NULL
    /\ head' = nxt[head]
    /\ tail' = IF tail = head THEN nxt[head] ELSE tail
    /\ freed' = freed \cup {head}
    /\ UNCHANGED <<nxt, data, allocated, locals, pc, history>>

\* consume() has returned false: the last sentinel is deleted.
Destroy ==
    /\ Ended
    /\ ~Destroyed
    /\ nxt[head] = NULL
    /\ freed' = freed \cup {head}
    /\ UNCHANGED <<head, tail, nxt, data, allocated, locals, pc, history>>

Terminated == Destroyed /\ UNCHANGED vars

Next ==
    \/ \E p \in Producers : produce(p)
    \/ \E c \in Consumers : consume(c)
    \/ Drain
    \/ Destroy
    \/ Terminated

Spec == Init /\ [][Next]_vars

-----------------------------------------------------------------------------

\* tail is in the list and at most one node short of its end, whatever helpers
\* and stale compare-and-swaps do: head never overtakes it.
TailNearEnd ==
    tail \in {AfterHead[Length], AfterHead[IF Length = 0 THEN 0 ELSE Length - 1]}

\* Each node is in exactly one place: in the list, in the hands of a producer
\* that has not linked it or of a consumer that will delete it, or deleted. So
\* nothing leaks, nothing is deleted twice, and no deleted node is in the list
\* while the threads run and while the destructor drains it.
NodesAccounted ==
    LET unlinked(p) == {n \in {new_node[p]} \ {NULL} : pc[p] # "p46"}
        removed(c) == {n \in {old_head[c]} : pc[c] = "c85"}
        owner(n) == {"list" : x \in (IF Destroyed THEN {} ELSE Reachable) \cap {n}}
                    \cup {"freed" : x \in freed \cap {n}}
                    \cup {p \in Producers : n \in unlinked(p)}
                    \cup {c \in Consumers : n \in removed(c)}
    IN  \A n \in 0..(allocated - 1) : Cardinality(owner(n)) = 1

\* consume() that returned false did not miss anything: at some moment of the
\* call the queue was empty, however far tail lagged behind.
EmptyMeansEmpty == \A c \in Consumers : pc[c] = "end" => c \in emptied

\* The queue implements the first-in first-out buffer of FifoQueue: a value is
\* accepted when its node is linked and delivered when head passes it. What the
\* destructor drains is delivered to nobody.
Fifo == INSTANCE FifoQueue WITH
            Writers <- Producers,
            Readers <- Consumers,
            Capacities <- {0},
            capacity <- 0,
            shut <- FALSE,
            buf <- [i \in 1..Length |-> data[AfterHead[i]]]

ImplementsFifo == Fifo!FifoInit /\ [][Fifo!FifoNext \/ Drain]_(Fifo!fifoVars)

\* The node a thread is about to dereference.
Dereferenced(t) ==
    CASE pc[t] \in {"p39", "p43"} -> {old_tail[t]}
      [] pc[t] = "c69" -> {old_head[t]}
      [] pc[t] = "c81" -> {next[t]}
      [] OTHER -> {}

\* "Safe to delete old dummy/head", the comment of lock_free_queue.cc:85: no
\* thread still has a use for a deleted node.
NoUseAfterFree == \A t \in Threads : Dereferenced(t) \cap freed = {}
=============================================================================
