\* The lists of klist.h with list_splice_init_rcu.
SPECIFICATION KListRcuSpec
CONSTANTS
    Heads = {g, h}
    Nodes = {a, b}
    Poison = Poison
PROPERTY RcuSplices
CHECK_DEADLOCK FALSE
