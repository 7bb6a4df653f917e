\* TEST_QUEUE of main.cpp, with its own capacity and its own numbers of calls.
SPECIFICATION Spec
CONSTANTS
    Writers = {writer1}
    Readers = {reader1}
    Closer = main
    PushesPer = 15
    PopsPer = 15
    Capacities = {10}
    conc_queue = conc_queue
    NoItem = NoItem
    Threads <- MCThreads
    Queues <- MCQueues
    Items <- MCItems
PROPERTIES
    QueueTestCompletes
CHECK_DEADLOCK FALSE
