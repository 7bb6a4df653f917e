\* Two writers and two readers, unbounded, capacity 1 and capacity 2.
SPECIFICATION Spec
CONSTANTS
    Writers = {w1, w2}
    Readers = {r1, r2}
    Closer = main
    PushesPer = 2
    PopsPer = 2
    Capacities = {0, 1, 2}
    conc_queue = conc_queue
    NoItem = NoItem
    Threads <- MCThreads
    Queues <- MCQueues
    Items <- MCItems
INVARIANTS
    TypeOK
    NoLostWakeup
    CapacityRespected
    EndIsFinal
PROPERTIES
    Completes
    ImplementsFifo
\* A bounded queue may stop for good: see the run queue_test_bounded.
CHECK_DEADLOCK FALSE
