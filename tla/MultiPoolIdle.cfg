\* Three workers; the task final waits for t1, as the last task of main.cpp does.
SPECIFICATION Spec
CONSTANTS
    thread_count = 3
    Main = main
    Tasks = {t1, final}
    Awaiting = {final}
    Dummy = dummy
    NoItem = NoItem
    Threads <- MCThreads
    Queues <- Workers
    Items <- MCItems
PROPERTIES
    IdleWorkersSteal
CHECK_DEADLOCK FALSE
