\* What a pop is sure to find when only a signal wakes it, what it leaves, and
\* that it returns.
SPECIFICATION FairSpec
CONSTANTS
    p = p
    m = m
    c1 = c1
    c2 = c2
    NULL = NULL
    NoThread = NoThread
    SpuriousWakeups = FALSE
    QueueBound = 4
    Producers <- MCProducers
    Consumers <- MCConsumers
    Data = {d1, d2}
INVARIANTS
    WokenHasElement
    NoNullPop
PROPERTIES
    ImplementsFifo
    BacklogNeverShrinks
    BacklogGrowsOnlyBySignal
    WokenReturns
\* Every consumer may be waiting while no producer has anything to push.
CHECK_DEADLOCK FALSE
