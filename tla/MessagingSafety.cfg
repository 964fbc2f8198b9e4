\* Sends, receives, creations and ends of tasks in every order.
SPECIFICATION Spec
CONSTANTS
    Tasks = {t1, t2, t3}
    Main = main
    Names = {a, b}
    MainName = process
    Tids = {x, y}
    MainTid = z
    Msgs = {m1, m2}
    NULL = NULL
    SpuriousWakeups = TRUE
SYMMETRY Interchangeable
INVARIANTS
    TypeOK
    RegistryValid
    ReceivesFromOwnQueue
    OneOwner
    DeliveredToName
\* Every task may wait for a message, and a use of freed memory ends the run.
CHECK_DEADLOCK FALSE
