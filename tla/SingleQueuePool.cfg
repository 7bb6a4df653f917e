\* Two workers (thread_count = 2) and three tasks.
SPECIFICATION Spec
CONSTANTS
    Workers = {w1, w2}
    Main = main
    Tasks = {t1, t2, t3}
    Dummy = dummy
    NoItem = NoItem
    work_queue = work_queue
    Threads <- MCThreads
    Queues <- MCQueues
    Items <- MCItems
INVARIANTS
    TypeOK
    NobodyLeftAsleep
    ShutdownCovered
PROPERTIES
    ImplementsTaskPool
    ShutdownCompletes
    AcceptedTasksRun
