\* A send racing with the end of the task it sends to, as in task_broadcast.c.
SPECIFICATION Spec
CONSTANTS
    Tasks = {t1, t2}
    Main = main
    Names = {a, b}
    MainName = process
    Tids = {x, y}
    MainTid = z
    Msgs = {m1, m2}
    NULL = NULL
    SpuriousWakeups = TRUE
SYMMETRY Interchangeable
INVARIANTS
    NoUseAfterFree
CHECK_DEADLOCK FALSE
