------------------------------- MODULE HList -------------------------------
(***************************************************************************)
(* The hash-bucket list of klist.h: the head points to the first node, a   *)
(* node to the next and back to the pointer that leads to it.  That        *)
(* pointer, pprev, is modelled by its owner: a head or a node.             *)
(*                                                                         *)
(* The caller's part is as in KList.                                       *)
(***************************************************************************)
EXTENDS Naturals, FiniteSets, SequencesExt

CONSTANTS Buckets,   \* the hlist_heads
          Entries,   \* the nodes
          Nil

ASSUME HListAssumption ==
    /\ Buckets \cap Entries = {}
    /\ Nil \notin Buckets \cup Entries
    /\ IsFiniteSet(Entries)

VARIABLES chain,     \* chain.next[x], the first of a head; chain.pprev[n]
          hcall      \* the last call

hlistVars == <<chain, hcall>>

\* INIT_HLIST_HEAD, INIT_HLIST_NODE
HListInit ==
    /\ chain = [next |-> [x \in Buckets \cup Entries |-> Nil], pprev |-> [n \in Entries |-> Nil]]
    /\ hcall = <<"init">>

\* A write through a pointer that is Nil is left out where the code tests it.
SetPprev(m, n, owner) == IF n = Nil THEN m ELSE [m EXCEPT !.pprev[n] = owner]

\* hlist_unhashed: a node that was deleted and initialised, or never added.
Hashed(n) == chain.pprev[n] # Nil

Chains(m, what) == chain' = m /\ hcall' = what

\* __hlist_del, and what hlist_del, hlist_del_init and hlist_del_rcu leave in n
HlistDel(n) ==
    /\ Hashed(n)
    /\ LET m == SetPprev([chain EXCEPT !.next[chain.pprev[n]] = chain.next[n]],
                         chain.next[n], chain.pprev[n])
           off == [m EXCEPT !.pprev[n] = Nil]
       IN  \E left \in {off, [off EXCEPT !.next[n] = Nil]} : Chains(left, <<"del", n>>)

\* hlist_add_head, hlist_add_head_rcu
HlistAddHead(n, h) ==
    /\ ~Hashed(n)
    /\ LET first == chain.next[h]
       IN  Chains([SetPprev(chain, first, n) EXCEPT !.next[n] = first,
                                                     !.next[h] = n, !.pprev[n] = h],
                   <<"add", n, h>>)

\* hlist_add_before, hlist_add_before_rcu
HlistAddBefore(n, at) ==
    /\ ~Hashed(n) /\ Hashed(at)
    /\ LET owner == chain.pprev[at]
       IN  Chains([chain EXCEPT !.pprev[n] = owner, !.next[n] = at,
                                 !.pprev[at] = n, !.next[owner] = n],
                   <<"add_before", n, at>>)

\* hlist_add_after, hlist_add_after_rcu
HlistAddAfter(n, at) ==
    /\ ~Hashed(n) /\ Hashed(at)
    /\ LET after == chain.next[at]
       IN  Chains([SetPprev(chain, after, n) EXCEPT !.next[n] = after,
                                                     !.next[at] = n, !.pprev[n] = at],
                   <<"add_after", n, at>>)

\* hlist_replace_rcu
HlistReplace(old, new) ==
    /\ Hashed(old) /\ ~Hashed(new)
    /\ LET after == chain.next[old]
           owner == chain.pprev[old]
       IN  Chains([SetPprev(chain, after, new) EXCEPT !.next[new] = after,
                                                       !.pprev[new] = owner,
                                                       !.next[owner] = new,
                                                       !.pprev[old] = Nil],
                   <<"replace", old, new>>)

HListNext ==
    \/ \E n \in Entries, h \in Buckets : HlistAddHead(n, h)
    \/ \E n \in Entries : HlistDel(n)
    \/ \E n, at \in Entries :
          HlistAddBefore(n, at) \/ HlistAddAfter(n, at) \/ HlistReplace(at, n)

HListSpec == HListInit /\ [][HListNext]_hlistVars

-----------------------------------------------------------------------------
\* The head h, the nodes of s behind it, and Nil.
Along(h, s, i) == IF i = 0 THEN h ELSE IF i \in DOMAIN s THEN s[i] ELSE Nil

\* next leads from h through s to Nil, and each pprev to where next came from.
Leads(m, h, s) ==
    /\ \A i \in 0 .. Len(s) : m.next[Along(h, s, i)] = Along(h, s, i + 1)
    /\ \A i \in DOMAIN s : m.pprev[s[i]] = Along(h, s, i - 1)

EntrySeqs ==
    {s \in UNION {[1 .. k -> Entries] : k \in 0 .. Cardinality(Entries)} :
        \A i, j \in DOMAIN s : s[i] = s[j] => i = j}

Broken == <<"corrupt">>
Chained(m) ==
    [h \in Buckets |-> IF \E s \in EntrySeqs : Leads(m, h, s)
                       THEN CHOOSE s \in EntrySeqs : Leads(m, h, s) ELSE Broken]

\* A bucket is a sequence of nodes, and each call changes it as its name says.
Chain == INSTANCE ListSeq WITH Heads <- Buckets, Nodes <- Entries,
                               lists <- Chained(chain), call <- hcall

BucketsAreSequences == Chain!SeqInit /\ [][Chain!SeqNext]_hlistVars
=============================================================================
