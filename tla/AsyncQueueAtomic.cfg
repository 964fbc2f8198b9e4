\* Each call of os_async_queue.c is atomic, spurious wake-ups or not.
SPECIFICATION Spec
CONSTANTS
    p = p
    m = m
    c1 = c1
    c2 = c2
    NULL = NULL
    NoThread = NoThread
    SpuriousWakeups = TRUE
    QueueBound = 3
    Producers <- MCProducers
    Consumers <- MCConsumers
    Data = {d1, d2}
INVARIANTS
    TypeOK
    MutualExclusion
PROPERTIES
    ImplementsCondQueue
    ImplementsPolled
\* Every consumer may be waiting while no producer has anything to push.
CHECK_DEADLOCK FALSE
