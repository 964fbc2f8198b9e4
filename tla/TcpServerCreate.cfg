\* The accept task reads the server before create has filled it in.
SPECIFICATION Spec
CONSTANTS
    MaxThreads = 2
    NThreads = 2
    Conns = {c1}
    NULL = NULL
    MallocCanFail = FALSE
    SpuriousWakeups = FALSE
INVARIANTS
    CreatedServerServes
\* The accept task may wait for clients, and a wild jump ends the run.
CHECK_DEADLOCK FALSE
