\* Three closures, two threads, two queues, in every order.
CONSTANTS
    client = client
    hal = hal
    streamQueue = streamQueue
    contextQueue = contextQueue
    t1 = t1
    t2 = t2
    t3 = t3
    NoTask = NoTask
    Threads <- MCThreads
    Queues <- MCQueues
    Tasks <- MCTasks
SPECIFICATION FairSpec
PROPERTIES
    ImplementsContract
    SyncCallerReturns
\* Every closure may have been executed: nothing is left to do.
CHECK_DEADLOCK FALSE
