------------------------------- MODULE KList -------------------------------
(***************************************************************************)
(* The circular doubly linked list of klist.h, with which os_queue.c,      *)
(* os_task.c, os_mm.c and os_evdriver.c keep their members: a head and its *)
(* nodes each hold a next and a prev pointer.                              *)
(*                                                                         *)
(* Each function is one step, as under the mutex of its callers; MemTrace  *)
(* takes list_add_tail apart.  The caller adds only what is in no list,    *)
(* and deletes, moves or replaces only what is in one.                     *)
(***************************************************************************)
EXTENDS Naturals, FiniteSets, SequencesExt

CONSTANTS Heads, Nodes,
          Poison        \* LIST_POISON1, LIST_POISON2, and what holds no pointer yet

ASSUME KListAssumption ==
    /\ Heads \cap Nodes = {}
    /\ Poison \notin Heads \cup Nodes
    /\ IsFiniteSet(Nodes)

VARIABLES rings,        \* rings.next[x], rings.prev[x]
          listed,       \* the nodes the callers have put into a list
          call          \* the last call

klistVars == <<rings, listed, call>>

Struct == Heads \cup Nodes

\* INIT_LIST_HEAD for the heads; a node not yet used holds no pointer.
KListInit ==
    /\ rings = [f \in {"next", "prev"} |->
                  [x \in Struct \cup {Poison} |-> IF x \in Heads THEN x ELSE Poison]]
    /\ listed = {}
    /\ call = <<"init">>

-----------------------------------------------------------------------------
(* Faulty operators, used by no specification: slips the properties must notice. *)

\* the neighbour behind is not told of the node that left
UnlinkNoPrev(m, before, after) == [m EXCEPT !.next[before] = after]

-----------------------------------------------------------------------------
\* INIT_LIST_HEAD, __list_add and __list_del
InitHead(m, x) == [m EXCEPT !.next[x] = x, !.prev[x] = x]
Link(m, new, before, after) ==
    [m EXCEPT !.prev[after] = new, !.next[new] = after,
              !.prev[new] = before, !.next[before] = new]
Unlink(m, before, after) == [m EXCEPT !.prev[after] = before, !.next[before] = after]

Isolate(m, x) == Unlink(m, m.prev[x], m.next[x])
LinkFirst(m, new, h) == Link(m, new, h, m.next[h])
LinkLast(m, new, h) == Link(m, new, m.prev[h], h)
Empty(m, h) == m.next[h] = h

Becomes(m, nodes, what) == rings' = m /\ listed' = nodes /\ call' = what

-----------------------------------------------------------------------------
\* list_add, list_add_rcu
ListAdd(n, h) ==
    n \notin listed /\ Becomes(LinkFirst(rings, n, h), listed \cup {n}, <<"add", n, h>>)

\* list_add_tail, list_add_tail_rcu
ListAddTail(n, h) ==
    n \notin listed /\ Becomes(LinkLast(rings, n, h), listed \cup {n}, <<"add_tail", n, h>>)

\* list_del, list_del_rcu and list_del_init, which differ in what n keeps
Deleted(n, m) == n \in listed /\ Becomes(m, listed \ {n}, <<"del", n>>)
ListDel(n) == Deleted(n, [Isolate(rings, n) EXCEPT !.next[n] = Poison, !.prev[n] = Poison])
ListDelRcu(n) == Deleted(n, [Isolate(rings, n) EXCEPT !.prev[n] = Poison])
ListDelInit(n) == Deleted(n, InitHead(Isolate(rings, n), n))

\* list_replace, list_replace_init and list_replace_rcu
ListReplace(old, new) ==
    /\ old \in listed /\ new \notin listed
    /\ LET after == rings.next[old]
           before == rings.prev[old]
           m == [rings EXCEPT !.next[new] = after, !.prev[after] = new,
                              !.prev[new] = before, !.next[before] = new]
       IN  \E left \in {m, InitHead(m, old), [m EXCEPT !.prev[old] = Poison]} :
             Becomes(left, (listed \ {old}) \cup {new}, <<"replace", old, new>>)

\* list_move and list_move_tail
ListMove(n, h) ==
    n \in listed /\ Becomes(LinkFirst(Isolate(rings, n), n, h), listed, <<"move", n, h>>)
ListMoveTail(n, h) ==
    n \in listed /\ Becomes(LinkLast(Isolate(rings, n), n, h), listed, <<"move_tail", n, h>>)

\* __list_splice
Spliced(m, from, to) ==
    LET first == m.next[from]
        last == m.prev[from]
        at == m.next[to]
    IN  [m EXCEPT !.prev[first] = to, !.next[to] = first,
                  !.next[last] = at, !.prev[at] = last]

\* list_splice_init, and list_splice with the INIT_LIST_HEAD its caller owes
ListSpliceInit(from, to) ==
    /\ from # to
    /\ Becomes(IF Empty(rings, from) THEN rings
               ELSE InitHead(Spliced(rings, from, to), from), listed,
               <<"splice", from, to>>)

\* list_splice_init_rcu, which looks whether the list it splices into is empty.
ListSpliceInitRcu(from, to) ==
    /\ from # to
    /\ LET first == rings.next[from]
           last == rings.prev[from]
           at == rings.next[to]
           m == InitHead(rings, from)
       IN  Becomes(IF Empty(rings, to) THEN rings
                   ELSE [m EXCEPT !.next[last] = at, !.next[to] = first,
                                  !.prev[first] = to, !.prev[at] = last],
                   listed, <<"splice_rcu", from, to>>)

KListNext ==
    \/ \E n \in Nodes, h \in Heads :
          ListAdd(n, h) \/ ListAddTail(n, h) \/ ListMove(n, h) \/ ListMoveTail(n, h)
    \/ \E n \in Nodes : ListDel(n) \/ ListDelRcu(n) \/ ListDelInit(n)
    \/ \E old, new \in Nodes : ListReplace(old, new)
    \/ \E from, to \in Heads : ListSpliceInit(from, to)

KListSpec == KListInit /\ [][KListNext]_klistVars

\* With list_splice_init_rcu, after which a list may be none.
KListRcuNext == KListNext \/ \E from, to \in Heads : ListSpliceInitRcu(from, to)

KListRcuSpec == KListInit /\ [][KListRcuNext]_klistVars

-----------------------------------------------------------------------------
\* The head h, the nodes of s behind it, and h again.
Around(h, s, i) == IF i \in DOMAIN s THEN s[i] ELSE h

\* From h on, next leads through s and back to h, and prev the other way.
Shows(m, h, s) ==
    \A i \in 0 .. Len(s) : /\ m.next[Around(h, s, i)] = Around(h, s, i + 1)
                           /\ m.prev[Around(h, s, i + 1)] = Around(h, s, i)

NoRepeats(s) == \A i, j \in DOMAIN s : s[i] = s[j] => i = j
NodeSeqs == {s \in UNION {[1 .. k -> Nodes] : k \in 0 .. Cardinality(Nodes)} : NoRepeats(s)}

Corrupt == <<"corrupt">>
Read(m) ==
    [h \in Heads |-> IF \E s \in NodeSeqs : Shows(m, h, s)
                     THEN CHOOSE s \in NodeSeqs : Shows(m, h, s) ELSE Corrupt]

sequences == Read(rings)

Rings == INSTANCE ListSeq WITH lists <- sequences

(***************************************************************************)
(* Whatever the order of calls, both directions of a list show the same    *)
(* sequence of nodes, and each call but list_splice_init_rcu changes the   *)
(* sequences as its name says.  It is Rings!SeqSpec, without its stutters: *)
(* every call is a step of ListSeq.                                        *)
(***************************************************************************)
ImplementsListSeq == Rings!SeqInit /\ [][Rings!SeqNext]_klistVars

\* klist.h:389 on list_splice_init_rcu: "splice an RCU-protected list into an
\* existing list".  The nodes of the one end up in front of those of the other.
RcuSplices ==
    [][\A from, to \in Heads :
          call' = <<"splice_rcu", from, to>> => Rings!SpliceRcu(from, to)]_klistVars
=============================================================================
