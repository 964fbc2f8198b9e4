\* An object that is used after pjson_object_clear.
SPECIFICATION JsonSpec
CONSTANTS
    NULL = NULL
    Free = Free
    Addrs = {1, 2, 3, 4, 5, 6}
    Names = {x}
    MaxItems = 2
    MaxHeld = 2
    MaxLive = 3
    Keys = {"a", "b", "c"}
    Values = {v, w}
    Nothing = Nothing
    Hash <- MCHash
    StartingCapacity = 4
    EscapeSlashes = TRUE
    TestBytes <- MCTestBytes
    MaxLength <- MCMaxLength
    CanFail = TRUE
    ClearThenUse = TRUE
INVARIANT ClearedStaysSound
CHECK_DEADLOCK FALSE
