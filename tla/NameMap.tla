------------------------------ MODULE NameMap ------------------------------
(***************************************************************************)
(* What parson.h promises of a JSON object: a map from names to values.    *)
(* A call that cannot allocate fails and changes nothing.                  *)
(***************************************************************************)
CONSTANTS Names,    \* the names members may have
          Values,   \* the values members may have
          NULL,     \* what a lookup of an absent name returns
          CanFail   \* whether malloc may fail

VARIABLES map,      \* the members
          ret       \* what the last call returned: a value, a status

mapVars == <<map, ret>>

Empty == [n \in {} |-> NULL]

MapInit == map = Empty /\ ret = "success"

Succeed(m) == map' = m /\ ret' = "success"
Fail == UNCHANGED map /\ ret' = "failure"

Get(n) ==
    /\ ret' = IF n \in DOMAIN map THEN map[n] ELSE NULL
    /\ UNCHANGED map

With(n, v) == [m \in DOMAIN map \cup {n} |-> IF m = n THEN v ELSE map[m]]

Set(n, v) == Succeed(With(n, v)) \/ (CanFail /\ n \notin DOMAIN map /\ Fail)

Add(n, v) ==
    \/ n \notin DOMAIN map /\ Set(n, v)
    \/ n \in DOMAIN map /\ Fail

Remove(n) ==
    \/ n \in DOMAIN map /\ Succeed([x \in DOMAIN map \ {n} |-> map[x]])
    \/ n \notin DOMAIN map /\ Fail

Clear == Succeed(Empty)

MapNext ==
    \/ Clear
    \/ \E n \in Names : Get(n) \/ Remove(n)
    \/ \E n \in Names, v \in Values : Set(n, v) \/ Add(n, v)

MapSpec == MapInit /\ [][MapNext]_mapVars
=============================================================================
