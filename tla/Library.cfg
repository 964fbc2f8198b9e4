\* parson.c by its table, ownership, texts and characters; lists, the
\* allocation trace, files and descriptors: each by itself.
SPECIFICATION Spec
CONSTANTS
    NULL = NULL
    Free = Free
    Addrs = {1, 2, 3, 4, 5, 6}
    Names = {x}
    MaxItems = 2
    MaxHeld = 2
    MaxLive = 3
    Keys = {"a", "b", "c"}
    Values = {v, w}
    Nothing = Nothing
    Hash <- MCHash
    StartingCapacity = 4
    CanFail = TRUE
    ClearThenUse = FALSE
    EscapeSlashes = TRUE
    TestBytes <- MCTestBytes
    MaxLength <- MCMaxLength
    Threads = {p, q}
    MaxAllocs = 4
    Unset = Unset
    Heads = {g, h}
    Nodes = {a, b, c}
    Poison = Poison
    Buckets = {g, h}
    Entries = {a, b, c}
    Nil = Nil
    MaxBytes = 2
    MaxCalls = 3
    Fds = {0, 1, 2, 3}
    MaxNodes = 3
INVARIANTS CellsMatchItems OneOwner ParentIsOwner EqualsValidateAlike
           StringsSurvive CommentsRemoved Utf8Accepted
           ShowIsSnapshot FileKeepsBytes OneOwnerEach
PROPERTIES ImplementsNameMap FailureChangesNothing CopyIsEqual LoadReturnsSaved
           ListsAreSequences
\* the parts with a bound on their calls or inputs end when it is reached
CHECK_DEADLOCK FALSE
