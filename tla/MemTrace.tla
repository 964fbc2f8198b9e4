------------------------------ MODULE MemTrace ------------------------------
(***************************************************************************)
(* The allocation trace of os_mm.c.  os_mm_malloc appends a record of each *)
(* allocation to os_mm_list, under os_mm_mutex and store by store;         *)
(* os_mm_show and os_mm_show2 walk the list without the mutex; os_mm_free  *)
(* frees the block and leaves the record, since the code that would prune  *)
(* it is under a macro that is defined nowhere.                            *)
(*                                                                         *)
(* The stores are taken to become visible in program order.  Allocation k  *)
(* is the k-th that malloc returned, and stands for its record too.        *)
(***************************************************************************)
EXTENDS Naturals, FiniteSets, SequencesExt

CONSTANTS Threads,
          MaxAllocs,   \* a bound of the model on the number of allocations
          Unset        \* nobody; a pointer of a record that is not yet set

ASSUME MemTraceAssumption == MaxAllocs \in Nat /\ Unset \notin Nat /\ Unset \notin Threads

List == 0    \* os_mm_list
Allocs == 1 .. MaxAllocs

VARIABLES pc,       \* pc[t]: where the thread t is in os_mm_malloc
          mine,     \* mine[t]: the allocation t is at
          prior,    \* prior[t]: the argument prev of its __list_add
          links,    \* the pointers of os_mm_list and of the records
          mutex,    \* the owner of os_mm_mutex
          stored,   \* how many stores of __list_add its owner has done
          made,     \* the number of allocations
          live,     \* those malloc has handed out and nobody has freed
          order,    \* the allocations in the order their records went in
          show      \* os_mm_show: its node, its tmp, what it has printed

memVars == <<pc, mine, prior, links, mutex, stored, made, live, order, show>>

NotShowing == [at |-> "none", node |-> Unset, tmp |-> Unset, seen |-> <<>>, before |-> {}]

MemInit ==
    /\ pc = [t \in Threads |-> "idle"]
    /\ mine = [t \in Threads |-> Unset]
    /\ prior = [t \in Threads |-> Unset]
    /\ links = [f \in {"next", "prev"} |->
                  [x \in Allocs \cup {List} |-> IF x = List THEN List ELSE Unset]]
    /\ mutex = Unset
    /\ stored = 0
    /\ made = 0
    /\ live = {}
    /\ order = <<>>
    /\ show = NotShowing

-----------------------------------------------------------------------------
(* Faulty operators, used by no specification: slips the properties must notice. *)

\* the record can be reached before it leads on
StoresNextLast(k, before) ==
    <<<<"prev", List, k>>, <<"next", before, k>>, <<"prev", k, before>>, <<"next", k, List>>>>

-----------------------------------------------------------------------------
\* __list_add(&mm_node->list, os_mm_list.prev, &os_mm_list): its four stores
Stores(k, before) ==
    <<<<"prev", List, k>>, <<"next", k, List>>, <<"prev", k, before>>, <<"next", before, k>>>>

\* os_mm_malloc: the block and its record
Malloc(t) ==
    /\ pc[t] = "idle" /\ made < MaxAllocs
    /\ made' = made + 1
    /\ mine' = [mine EXCEPT ![t] = made + 1]
    /\ pc' = [pc EXCEPT ![t] = "lock"]
    /\ UNCHANGED <<prior, links, mutex, stored, live, order, show>>

Lock(t) ==
    /\ pc[t] = "lock" /\ mutex = Unset
    /\ mutex' = t
    /\ prior' = [prior EXCEPT ![t] = links.prev[List]]
    /\ order' = Append(order, mine[t])
    /\ stored' = 0
    /\ pc' = [pc EXCEPT ![t] = "store"]
    /\ UNCHANGED <<mine, links, made, live, show>>

Store(t) ==
    /\ pc[t] = "store"
    /\ LET store == Stores(mine[t], prior[t])[stored + 1]
       IN  links' = [links EXCEPT ![store[1]][store[2]] = store[3]]
    /\ stored' = stored + 1
    /\ pc' = [pc EXCEPT ![t] = IF stored = 3 THEN "unlock" ELSE "store"]
    /\ UNCHANGED <<mine, prior, mutex, made, live, order, show>>

Unlock(t) ==
    /\ pc[t] = "unlock"
    /\ mutex' = Unset
    /\ live' = live \cup {mine[t]}
    /\ pc' = [pc EXCEPT ![t] = "idle"]
    /\ UNCHANGED <<mine, prior, links, stored, made, order, show>>

\* os_mm_free
FreeBlock(k) ==
    /\ k \in live
    /\ live' = live \ {k}
    /\ UNCHANGED <<pc, mine, prior, links, mutex, stored, made, order, show>>

-----------------------------------------------------------------------------
(* os_mm_show: list_for_each_entry_safe, read by read *)

ShowStep(s) == show' = s /\ UNCHANGED <<pc, mine, prior, links, mutex, stored, made, live, order>>

\* node = first; `before` is what is in the list by then
ShowFirst ==
    /\ show.at = "none"
    /\ ShowStep([NotShowing EXCEPT
                    !.at = "next", !.node = links.next[List],
                    !.before = ToSet(order) \ {mine[t] : t \in {u \in Threads : pc[u] = "store"}}])

\* tmp = node->next
ShowNext ==
    /\ show.at = "next" /\ show.node # Unset
    /\ ShowStep([show EXCEPT !.at = "print", !.tmp = links.next[show.node]])

\* a record is printed, or the head is reached; node = tmp
ShowRecord ==
    /\ show.at = "print"
    /\ ShowStep(IF show.node = List THEN [show EXCEPT !.at = "done"]
                ELSE [show EXCEPT !.at = "next", !.node = show.tmp,
                                  !.seen = Append(@, show.node)])

ShowReturn == show.at = "done" /\ ShowStep(NotShowing)

MemNext ==
    \/ \E t \in Threads : Malloc(t) \/ Lock(t) \/ Store(t) \/ Unlock(t)
    \/ \E k \in Allocs : FreeBlock(k)
    \/ ShowFirst \/ ShowNext \/ ShowRecord \/ ShowReturn

MemSpec == MemInit /\ [][MemNext]_memVars

-----------------------------------------------------------------------------
(***************************************************************************)
(* Without the mutex, beside threads that allocate and free, os_mm_show    *)
(* follows no pointer that is not set, prints the records in the order of  *)
(* the list, none twice and none left out, and does not stop before all    *)
(* that were in the list when it began.                                    *)
(***************************************************************************)
ShowIsSnapshot ==
    /\ show.at \in {"next", "print"} => show.node # Unset
    /\ IsPrefix(show.seen, order)
    /\ show.at = "done" => show.before \subseteq ToSet(show.seen)
    /\ \A k \in live : k \in ToSet(order)
=============================================================================
