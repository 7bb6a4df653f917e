\* Two workers and one task: the destructor does not return.
SPECIFICATION Spec
CONSTANTS
    thread_count = 2
    Main = main
    Tasks = {t1}
    Awaiting = {}
    Dummy = dummy
    NoItem = NoItem
    Threads <- MCThreads
    Queues <- Workers
    Items <- MCItems
PROPERTIES
    ShutdownCompletes
CHECK_DEADLOCK FALSE
