\* pthread_cond_wait may return without a signal, as POSIX lets it.
SPECIFICATION Spec
CONSTANTS
    p = p
    m = m
    c1 = c1
    c2 = c2
    NULL = NULL
    NoThread = NoThread
    SpuriousWakeups = TRUE
    QueueBound = 2
    Producers <- MCProducers
    Consumers <- MCConsumers
    Data = {d1}
INVARIANTS
    NoNullPop
CHECK_DEADLOCK FALSE
