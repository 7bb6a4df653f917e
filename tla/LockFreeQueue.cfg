\* Two producers of one value each and two draining consumers.
SPECIFICATION Spec
CONSTANTS
    Producers = {p1, p2}
    Consumers = {c1, c2}
    ProducesPer = 1
    NULL = NULL
INVARIANTS
    TypeOK
    TailNearEnd
    NodesAccounted
    EmptyMeansEmpty
PROPERTIES
    ImplementsFifo
