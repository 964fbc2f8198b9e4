------------------------------ MODULE ListSeq ------------------------------
(***************************************************************************)
(* What the lists of klist.h are to their callers: sequences of nodes, a   *)
(* node in one list at most.  `call` is the last call and its arguments.   *)
(***************************************************************************)
EXTENDS Naturals, SequencesExt

CONSTANTS Heads, Nodes

VARIABLES lists,   \* lists[h]: the nodes from the head h on
          call

seqVars == <<lists, call>>

SeqInit ==
    /\ lists = [h \in Heads |-> <<>>]
    /\ call = <<"init">>

In(h) == ToSet(lists[h])
Linked == UNION {In(h) : h \in Heads}
Position(n, s) == CHOOSE i \in DOMAIN s : s[i] = n
Place(n, h) == Position(n, lists[h])
Without(n, s) == IF n \in ToSet(s) THEN RemoveAt(s, Position(n, s)) ELSE s
AllWithout(n) == [h \in Heads |-> Without(n, lists[h])]

AddFront(n, h) ==
    /\ call' = <<"add", n, h>>
    /\ n \notin Linked
    /\ lists' = [lists EXCEPT ![h] = <<n>> \o @]

AddTail(n, h) ==
    /\ call' = <<"add_tail", n, h>>
    /\ n \notin Linked
    /\ lists' = [lists EXCEPT ![h] = Append(@, n)]

AddBefore(n, h, at) ==
    /\ call' = <<"add_before", n, at>>
    /\ n \notin Linked /\ at \in In(h)
    /\ lists' = [lists EXCEPT ![h] = InsertAt(@, Place(at, h), n)]

AddAfter(n, h, at) ==
    /\ call' = <<"add_after", n, at>>
    /\ n \notin Linked /\ at \in In(h)
    /\ lists' = [lists EXCEPT ![h] = InsertAt(@, Place(at, h) + 1, n)]

Delete(n) ==
    /\ call' = <<"del", n>>
    /\ n \in Linked
    /\ lists' = AllWithout(n)

ReplaceBy(old, h, new) ==
    /\ call' = <<"replace", old, new>>
    /\ old \in In(h) /\ new \notin Linked
    /\ lists' = [lists EXCEPT ![h][Place(old, h)] = new]

Move(n, h) ==
    /\ call' = <<"move", n, h>>
    /\ n \in Linked
    /\ lists' = [AllWithout(n) EXCEPT ![h] = <<n>> \o @]

MoveTail(n, h) ==
    /\ call' = <<"move_tail", n, h>>
    /\ n \in Linked
    /\ lists' = [AllWithout(n) EXCEPT ![h] = Append(@, n)]

\* The nodes of `from` in front of those of `to`.
Joined(from, to) ==
    /\ from # to
    /\ lists' = [lists EXCEPT ![to] = lists[from] \o @, ![from] = <<>>]

Splice(from, to) == call' = <<"splice", from, to>> /\ Joined(from, to)

\* No part of SeqNext: list_splice_init_rcu is not always that.
SpliceRcu(from, to) == call' = <<"splice_rcu", from, to>> /\ Joined(from, to)

SeqNext ==
    \/ \E n \in Nodes, h \in Heads :
          \/ AddFront(n, h) \/ AddTail(n, h) \/ Move(n, h) \/ MoveTail(n, h)
          \/ \E at \in Nodes : AddBefore(n, h, at) \/ AddAfter(n, h, at)
          \/ \E new \in Nodes : ReplaceBy(n, h, new)
    \/ \E n \in Nodes : Delete(n)
    \/ \E from, to \in Heads : Splice(from, to)

SeqSpec == SeqInit /\ [][SeqNext]_seqVars
=============================================================================
