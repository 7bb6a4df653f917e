\* As in LockFreeQueue.cfg.
SPECIFICATION Spec
CONSTANTS
    Producers = {p1, p2}
    Consumers = {c1, c2}
    ProducesPer = 1
    NULL = NULL
INVARIANTS
    NoUseAfterFree
