\* two producers, two threads that may become the sink, bare wake-ups
\* allowed; each owner loop of MCModes
CONSTANTS
    p1 = p1
    p2 = p2
    t1 = t1
    t2 = t2
    Producers <- MCProducers
    Threads <- MCSinkThreads
    MaxPosts = 2
    NullPosts = TRUE
    OwnThread = t1
    Modes <- MCModes
SPECIFICATION Spec
INVARIANT NoLostWakeup
PROPERTY ImplementsMailbox
CHECK_DEADLOCK FALSE
