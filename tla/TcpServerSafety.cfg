\* A server, its pool and three clients, the race with create included.
SPECIFICATION Spec
CONSTANTS
    MaxThreads = 2
    NThreads = 2
    Conns = {c1, c2, c3}
    NULL = NULL
    MallocCanFail = TRUE
    SpuriousWakeups = TRUE
SYMMETRY SameConnections
INVARIANTS
    TypeOK
    ServerOutlivesAcceptTask
    OneHolder
    NoClientForgotten
\* The accept task may wait for clients, and a wild jump ends the run.
CHECK_DEADLOCK FALSE
