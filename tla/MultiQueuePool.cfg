\* Two workers and two tasks, none of which waits for another.
SPECIFICATION Spec
CONSTANTS
    thread_count = 2
    Main = main
    Tasks = {t1, t2}
    Awaiting = {}
    Dummy = dummy
    NoItem = NoItem
    Threads <- MCThreads
    Queues <- Workers
    Items <- MCItems
INVARIANTS
    TypeOK
    MissedOnlyIfRobbed
PROPERTIES
    ImplementsTaskPool
    ShutdownUnlessRobbed
    AcceptedTasksRun
\* The destructor may wait for ever: see the run multi_pool_shutdown.
CHECK_DEADLOCK FALSE
