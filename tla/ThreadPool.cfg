\* Every interleaving of owner, adders and workers, spurious wake-ups included.
SPECIFICATION FairSpec
CONSTANTS
    MaxThreads = 2
    Tasks = {k1, k2, k3}
    NULL = NULL
    SpuriousWakeups = TRUE
INVARIANTS
    TypeOK
    OnePlace
    QueueOutlivesWorkers
PROPERTIES
    CatchesUpOnlyBySpuriousWake
    ReturnsOnlyWithoutWorkers
    SignalledTaskTaken
\* A pool whose workers all wait does nothing until an add.
CHECK_DEADLOCK FALSE
