\* A connection that was queued while no worker waited.
SPECIFICATION FairSpec
CONSTANTS
    MaxThreads = 2
    NThreads = 2
    Conns = {c1, c2}
    NULL = NULL
    MallocCanFail = FALSE
    SpuriousWakeups = FALSE
PROPERTIES
    WrittenIsAnswered
\* The accept task may wait for clients.
CHECK_DEADLOCK FALSE
