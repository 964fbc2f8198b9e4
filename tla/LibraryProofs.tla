--------------------------- MODULE LibraryProofs ---------------------------
(***************************************************************************)
(* The small modules of the library.  The queue of os/linux is the channel *)
(* FifoQueue promises as long as no wake-up is spurious, for any threads,  *)
(* any pointers and any bound.  Then the unlocked walk of os_mm_show       *)
(* beside any number of threads that allocate; os_file.c for any lengths   *)
(* and numbers of calls; and the descriptors of os_broadcast.c,            *)
(* os_multicast.c and os_evdriver.c for any finite set of descriptors and  *)
(* any number of nodes.                                                    *)
(***************************************************************************)
EXTENDS CondQueue, MemTrace, Files, Descriptors,
        FiniteSetTheorems, SequenceTheorems, WellFoundedInduction, TLAPS

-----------------------------------------------------------------------------
(* The queue of os/linux *)

CondInv == CondTypeOK /\ WokenHasElement

\* There are finitely many threads, so the woken ones can be counted.
LEMMA WokenFinite ==
  ASSUME IsFiniteSet(Consumers)
  PROVE  IsFiniteSet(Woken) /\ Cardinality(Woken) \in Nat
<1>1. Woken \in SUBSET Consumers
  BY DEF Woken
<1> QED
  BY <1>1, FS_Subset, FS_CardinalityType

\* An empty queue with nobody in it.
LEMMA CondInitInv == CondInit => CondInv
<1> SUFFICES ASSUME CondInit PROVE CondInv
  OBVIOUS
<1>1. Woken = {} /\ Len(queue) = 0
  BY DEF CondInit, Woken
<1> QED
  BY <1>1, FS_EmptySet DEF CondInit, CondInv, CondTypeOK, WokenHasElement

\* A push appends before it wakes, and wakes one thread at most.
LEMMA CondStep ==
  ASSUME IsFiniteSet(Consumers), ~SpuriousWakeups, CondInv, [CondNext]_condVars
  PROVE  CondInv'
<1>a. /\ queue \in Seq(Data) /\ Len(queue) \in Nat
      /\ state \in [Consumers -> {"idle", "blocked", "woken"}]
      /\ got \in [Consumers -> Data \cup {NULL}]
      /\ Cardinality(Woken) <= Len(queue)
  BY DEF CondInv, CondTypeOK, WokenHasElement
<1>b. Cardinality(Woken) \in Nat
  BY WokenFinite
<1>c. ASSUME /\ queue' \in Seq(Data)
             /\ state' \in [Consumers -> {"idle", "blocked", "woken"}]
             /\ got' \in [Consumers -> Data \cup {NULL}]
             /\ Cardinality(Woken') <= Len(queue')
      PROVE  CondInv'
  BY <1>c DEF CondInv, CondTypeOK, WokenHasElement
<1>1. ASSUME NEW d \in Data, Push(d) PROVE CondInv'
  <2>1. queue' \in Seq(Data) /\ Len(queue') = Len(queue) + 1 /\ got' = got
    BY <1>1, <1>a, AppendProperties DEF Push
  <2>2. CASE \E t \in Blocked : state' = [state EXCEPT ![t] = "woken"]
    <3>1. PICK t \in Blocked : state' = [state EXCEPT ![t] = "woken"]
      BY <2>2
    <3>2. Woken' = Woken \cup {t} /\ t \notin Woken
      BY <1>a, <3>1 DEF Woken, Blocked
    <3>3. Cardinality(Woken') = Cardinality(Woken) + 1
      BY <3>2, WokenFinite, FS_AddElement
    <3>4. state' \in [Consumers -> {"idle", "blocked", "woken"}]
      BY <1>a, <3>1
    <3>5. Cardinality(Woken') <= Len(queue')
      BY <1>a, <1>b, <2>1, <3>3
    <3> QED
      BY <1>a, <1>c, <2>1, <3>4, <3>5
  <2>3. CASE UNCHANGED state
    <3>1. Woken' = Woken
      BY <2>3 DEF Woken
    <3>2. Cardinality(Woken') <= Len(queue')
      BY <1>a, <1>b, <2>1, <3>1
    <3> QED
      BY <1>a, <1>c, <2>1, <2>3, <3>2
  <2> QED
    BY <1>1, <2>2, <2>3 DEF Push, Signal
<1>2. ASSUME NEW t \in Consumers, Wait(t) PROVE CondInv'
  <2>1. Woken' = Woken
    BY <1>2, <1>a DEF Wait, Woken
  <2>2. state' \in [Consumers -> {"idle", "blocked", "woken"}] /\ queue' = queue /\ got' = got
    BY <1>2, <1>a DEF Wait
  <2> QED
    BY <1>a, <1>c, <2>1, <2>2
<1>3. ASSUME NEW t \in Consumers, Pop(t) PROVE CondInv'
  <2>1. Woken' = Woken \ {t} /\ t \in Woken
    BY <1>3, <1>a DEF Pop, Woken
  <2>2. Cardinality(Woken') = Cardinality(Woken) - 1
    BY <2>1, WokenFinite, FS_RemoveElement
  <2>3. queue # <<>>
    BY <1>a, <2>1, WokenFinite, FS_EmptySet
  <2>4. /\ Head(queue) \in Data /\ Tail(queue) \in Seq(Data)
        /\ Len(Tail(queue)) = Len(queue) - 1
    BY <1>a, <2>3, HeadTailProperties
  <2>5. /\ state' = [state EXCEPT ![t] = "idle"] /\ queue' = Tail(queue)
        /\ got' = [got EXCEPT ![t] = Head(queue)]
    BY <1>3, <2>3 DEF Pop
  <2>6. state' \in [Consumers -> {"idle", "blocked", "woken"}]
    BY <1>a, <2>5
  <2>7. got' \in [Consumers -> Data \cup {NULL}]
    BY <1>a, <2>4, <2>5
  <2>8. Cardinality(Woken') <= Len(queue')
    BY <1>a, <1>b, <2>2, <2>4, <2>5
  <2> QED
    BY <1>c, <2>4, <2>5, <2>6, <2>7, <2>8
<1>4. CASE UNCHANGED condVars
  <2>1. Woken' = Woken /\ queue' = queue /\ state' = state /\ got' = got
    BY <1>4 DEF condVars, Woken
  <2> QED
    BY <1>a, <1>c, <2>1
<1> QED
  BY <1>1, <1>2, <1>3, <1>4 DEF CondNext, SpuriousWake

\* No signal is sent for an element that another woken thread will take.
THEOREM SignalsCarryElements ==
  ASSUME IsFiniteSet(Consumers), ~SpuriousWakeups
  PROVE  CondSpec => []WokenHasElement
<1>1. CondInv /\ [CondNext]_condVars => CondInv'
  BY CondStep
<1>2. CondInv => WokenHasElement
  BY DEF CondInv
<1> QED
  BY <1>1, <1>2, CondInitInv, PTL DEF CondSpec

\* Each push is a Send, each pop a Receive, and nothing else touches the list.
THEOREM CondImplementsFifo ==
  ASSUME IsFiniteSet(Consumers), ~SpuriousWakeups
  PROVE  CondSpec => ImplementsFifo
<1>1. CondInv /\ [CondNext]_condVars => CondInv'
  BY CondStep
<1>2. CondInit => Fifo!FifoInit
  BY DEF CondInit, Fifo!FifoInit
<1>3. CondInv /\ [CondNext]_condVars => [Fifo!FifoNext]_(Fifo!fifoVars)
  <2> SUFFICES ASSUME CondInv, [CondNext]_condVars
               PROVE  [Fifo!FifoNext]_(Fifo!fifoVars)
    OBVIOUS
  <2>1. ASSUME NEW d \in Data, Push(d) PROVE Fifo!Send(d)
    BY <2>1 DEF Push, Fifo!Send
  <2>2. ASSUME NEW t \in Consumers, Wait(t) PROVE UNCHANGED Fifo!fifoVars
    BY <2>2 DEF Wait, Fifo!fifoVars
  <2>3. ASSUME NEW t \in Consumers, Pop(t) PROVE Fifo!Receive(t)
    <3>1. t \in Woken
      BY <2>3 DEF Pop, Woken
    <3>2. queue # <<>>
      BY <3>1, WokenFinite, FS_EmptySet DEF CondInv, CondTypeOK, WokenHasElement
    <3> QED
      BY <2>3, <3>2 DEF Pop, Fifo!Receive
  <2>4. CASE UNCHANGED condVars
    BY <2>4 DEF condVars, Fifo!fifoVars
  <2> QED
    BY <2>1, <2>2, <2>3, <2>4 DEF CondNext, SpuriousWake, Fifo!FifoNext
<1> QED
  BY <1>1, <1>2, <1>3, CondInitInv, PTL DEF CondSpec, ImplementsFifo, Fifo!FifoSpec

\* Whatever wakes a consumer, a pop takes the head or finds nothing to take.
THEOREM CondImplementsPolled == CondSpec => ImplementsPolled
<1>1. CondInit => Fifo!FifoInit
  BY DEF CondInit, Fifo!FifoInit
<1>2. [CondNext]_condVars => [Fifo!PolledNext]_(Fifo!fifoVars)
  <2> SUFFICES ASSUME [CondNext]_condVars PROVE [Fifo!PolledNext]_(Fifo!fifoVars)
    OBVIOUS
  <2>1. ASSUME NEW d \in Data, Push(d) PROVE Fifo!Send(d)
    BY <2>1 DEF Push, Fifo!Send
  <2>2. ASSUME NEW t \in Consumers, Wait(t) \/ SpuriousWake(t)
        PROVE  UNCHANGED Fifo!fifoVars
    BY <2>2 DEF Wait, SpuriousWake, Fifo!fifoVars
  <2>3. ASSUME NEW t \in Consumers, Pop(t)
        PROVE  Fifo!Receive(t) \/ Fifo!GiveUp(t)
    BY <2>3 DEF Pop, Fifo!Receive, Fifo!GiveUp
  <2>4. CASE UNCHANGED condVars
    BY <2>4 DEF condVars, Fifo!fifoVars
  <2> QED
    BY <2>1, <2>2, <2>3, <2>4 DEF CondNext, Fifo!FifoNext, Fifo!PolledNext
<1> QED
  BY <1>1, <1>2, PTL DEF CondSpec, ImplementsPolled, Fifo!PolledSpec

-----------------------------------------------------------------------------
(* The trace: the invariant.  A record is in the list of the walk, the links *)
(* called next, from the last of its four stores on; Published counts them.  *)

Places == Allocs \cup {List}

\* A thread that is between the first and the last store of __list_add.
Storing == \E t \in Threads : pc[t] = "store"

\* How many records the walk can reach.
Published == IF Storing THEN Len(order) - 1 ELSE Len(order)

\* What follows the first i published records.
After(i) == IF i = Published THEN List ELSE order[i + 1]

MemTypeOK ==
    /\ pc \in [Threads -> {"idle", "lock", "store", "unlock"}]
    /\ mine \in [Threads -> Allocs \cup {Unset}]
    /\ prior \in [Threads -> Places \cup {Unset}]
    /\ links \in [{"next", "prev"} -> [Places -> Places \cup {Unset}]]
    /\ mutex \in Threads \cup {Unset}
    /\ stored \in 0 .. 4
    /\ made \in 0 .. MaxAllocs
    /\ live \subseteq Allocs
    /\ order \in Seq(Allocs)
    /\ show \in [at : {"none", "next", "print", "done"}, node : Places \cup {Unset},
                 tmp : Places \cup {Unset}, seen : Seq(Allocs), before : SUBSET Allocs]

\* One thread at a time links a record, the last one in the order.
LockInv ==
    /\ \A t \in Threads : pc[t] \in {"store", "unlock"} <=> mutex = t
    /\ \A t \in Threads : pc[t] = "store" => stored < 4
    /\ \A t \in Threads :
          pc[t] \in {"store", "unlock"} => Len(order) > 0 /\ mine[t] = order[Len(order)]

\* Threads are at allocations of their own, and a record goes in once.
AllocInv ==
    /\ \A t \in Threads : pc[t] # "idle" => mine[t] \in 1 .. made
    /\ \A t, u \in Threads : pc[t] # "idle" /\ pc[u] # "idle" /\ mine[t] = mine[u] => t = u
    /\ \A t \in Threads : pc[t] = "lock" => \A i \in 1 .. Len(order) : order[i] # mine[t]
    /\ \A i \in 1 .. Len(order) : order[i] \in 1 .. made
    /\ \A i, j \in 1 .. Len(order) : order[i] = order[j] => i = j
    /\ \A k \in live : \E i \in 1 .. Len(order) : order[i] = k

\* The links called next lead through the published records, and those of a
\* record are set before it is published.
LinkInv ==
    /\ links["next"][List] = After(0)
    /\ \A i \in 1 .. Published : links["next"][order[i]] = After(i)
    /\ ~Storing \/ stored > 0 =>
          links["prev"][List] = IF Len(order) = 0 THEN List ELSE order[Len(order)]
    /\ \A t \in Threads : pc[t] = "store" =>
          /\ prior[t] = IF Published = 0 THEN List ELSE order[Published]
          /\ stored > 1 => links["next"][mine[t]] = List

\* Every record of `before` is among the first i of the order.
CoveredBy(i) == \A k \in show.before : \E j \in 1 .. i : order[j] = k

\* The walk has printed the first records, and is at the next one.
WalkInv ==
    LET n == Len(show.seen)
    IN  /\ n <= Published
        /\ \A i \in 1 .. n : show.seen[i] = order[i]
        /\ CoveredBy(Published)
        /\ show.at = "done" => CoveredBy(n)
        /\ show.at \in {"next", "print"} =>
              \/ show.node = List /\ CoveredBy(n)
              \/ n < Published /\ show.node = order[n + 1]
        /\ show.at = "print" /\ show.node # List =>
              \/ show.tmp = List /\ CoveredBy(n + 1)
              \/ n + 1 < Published /\ show.tmp = order[n + 2]

TraceInv == MemTypeOK /\ LockInv /\ AllocInv /\ LinkInv /\ WalkInv

-----------------------------------------------------------------------------
LEMMA TraceInvInit == MemInit => TraceInv
<1> SUFFICES ASSUME MemInit PROVE TraceInv
  OBVIOUS
<1>1. order = <<>> /\ Len(order) = 0 /\ ~Storing /\ Published = 0
  BY DEF MemInit, Storing, Published
<1>2. MemTypeOK
  BY MemTraceAssumption DEF MemInit, MemTypeOK, Places, Allocs, List, NotShowing
<1>3. LockInv
  BY MemTraceAssumption DEF MemInit, LockInv
<1>4. AllocInv
  BY <1>1 DEF MemInit, AllocInv
<1>5. LinkInv
  BY <1>1 DEF MemInit, LinkInv, After, Storing, List
<1>6. WalkInv
  BY <1>1 DEF MemInit, WalkInv, CoveredBy, NotShowing
<1> QED
  BY <1>2, <1>3, <1>4, <1>5, <1>6 DEF TraceInv

\* What the steps that leave the order alone leave alone.
LEMMA PublishedIsNat ==
    ASSUME TraceInv
    PROVE  Len(order) \in Nat /\ Published \in 0 .. Len(order)
<1>1. Len(order) \in Nat
  BY DEF TraceInv, MemTypeOK
<1>2. Storing => Len(order) > 0
  BY DEF TraceInv, LockInv, Storing
<1> QED
  BY <1>1, <1>2 DEF Published

LEMMA MallocKeepsInv ==
    ASSUME TraceInv, NEW t \in Threads, Malloc(t)
    PROVE  TraceInv'
<1>1. made' = made + 1 /\ made' \in 1 .. MaxAllocs /\ pc[t] = "idle" /\ pc'[t] = "lock"
  BY MemTraceAssumption DEF Malloc, TraceInv, MemTypeOK
<1>2. \A u \in Threads : u # t => pc'[u] = pc[u] /\ mine'[u] = mine[u]
  BY DEF Malloc, TraceInv, MemTypeOK
<1>3. mine'[t] = made + 1
  BY DEF Malloc, TraceInv, MemTypeOK
<1>4. Storing' = Storing
  BY <1>1, <1>2 DEF Storing
<1>5. Published' = Published
  BY <1>4 DEF Published, Malloc
<1>6. MemTypeOK'
  BY <1>1 DEF Malloc, TraceInv, MemTypeOK, Allocs, Places
<1>7. LockInv'
  BY <1>1, <1>2 DEF Malloc, TraceInv, LockInv
<1>8. AllocInv'
  <2>1. \A i \in 1 .. Len(order) : order[i] \in 1 .. made
    BY DEF TraceInv, AllocInv
  <2>2. made \in Nat
    BY DEF TraceInv, MemTypeOK
  <2> QED
    BY <1>1, <1>2, <1>3, <2>1, <2>2 DEF Malloc, TraceInv, AllocInv
<1>9. LinkInv'
  BY <1>1, <1>2, <1>4, <1>5 DEF Malloc, TraceInv, LinkInv, After
<1>10. WalkInv'
  BY <1>5 DEF Malloc, TraceInv, WalkInv, CoveredBy
<1> QED
  BY <1>6, <1>7, <1>8, <1>9, <1>10 DEF TraceInv

LEMMA LockKeepsInv ==
    ASSUME TraceInv, NEW t \in Threads, Lock(t)
    PROVE  TraceInv'
<1>1. mutex = Unset /\ mutex' = t /\ pc[t] = "lock" /\ pc'[t] = "store" /\ stored' = 0
  BY DEF Lock, TraceInv, MemTypeOK
<1>2. \A u \in Threads : u # t => pc'[u] = pc[u] /\ prior'[u] = prior[u]
  BY DEF Lock, TraceInv, MemTypeOK
<1>3. \A u \in Threads : pc[u] \notin {"store", "unlock"}
  BY <1>1, MemTraceAssumption DEF TraceInv, LockInv
<1>4. mine[t] \in Allocs
  BY <1>1, MemTraceAssumption DEF TraceInv, AllocInv, MemTypeOK, Allocs
<1>5. Len(order) \in Nat /\ ~Storing /\ Published = Len(order)
  BY <1>3 DEF Storing, Published, TraceInv, MemTypeOK
<1>6. /\ order' \in Seq(Allocs)
      /\ Len(order') = Len(order) + 1
      /\ order'[Len(order) + 1] = mine[t]
      /\ \A i \in 1 .. Len(order) : order'[i] = order[i]
  BY <1>4 DEF Lock, TraceInv, MemTypeOK
<1>7. Storing' /\ Published' = Published
  <2>1. Storing'
    BY <1>1 DEF Storing
  <2> QED
    BY <1>5, <1>6, <2>1 DEF Published
<1>8. prior'[t] = IF Len(order) = 0 THEN List ELSE order[Len(order)]
  BY <1>5 DEF Lock, TraceInv, MemTypeOK, LinkInv
<1>9. MemTypeOK'
  <2>1. prior'[t] \in Places
    BY <1>5, <1>8 DEF Places, TraceInv, MemTypeOK
  <2> QED
    BY <1>1, <1>6, <2>1 DEF Lock, TraceInv, MemTypeOK
<1>10. LockInv'
  BY <1>1, <1>2, <1>3, <1>5, <1>6 DEF Lock, TraceInv, LockInv
<1>11. AllocInv'
  <2>1. mine' = mine /\ made' = made /\ live' = live
    BY DEF Lock
  <2>2. \A u \in Threads : pc'[u] # "idle" => pc[u] # "idle"
    BY <1>1, <1>2
  <2>3. \A i \in 1 .. Len(order) : order[i] # mine[t]
    BY <1>1 DEF TraceInv, AllocInv
  <2>4. \A u \in Threads : pc'[u] = "lock" => u # t /\ pc[u] = "lock" /\ mine[u] # mine[t]
    BY <1>1, <1>2 DEF TraceInv, AllocInv
  <2>5. \A u \in Threads : pc'[u] = "lock" => \A i \in 1 .. Len(order') : order'[i] # mine[u]
    BY <1>5, <1>6, <2>4 DEF TraceInv, AllocInv
  <2>6. \A i \in 1 .. Len(order') : order'[i] \in 1 .. made
    BY <1>1, <1>5, <1>6 DEF TraceInv, AllocInv
  <2>7. \A i, j \in 1 .. Len(order') : order'[i] = order'[j] => i = j
    BY <1>5, <1>6, <2>3 DEF TraceInv, AllocInv
  <2>8. \A k \in live : \E i \in 1 .. Len(order') : order'[i] = k
    BY <1>5, <1>6 DEF TraceInv, AllocInv
  <2> QED
    BY <2>1, <2>2, <2>5, <2>6, <2>7, <2>8 DEF TraceInv, AllocInv
<1>12. LinkInv'
  <2>1. links' = links
    BY DEF Lock
  <2>2. \A i \in 0 .. Published : After(i)' = After(i)
    BY <1>5, <1>6, <1>7 DEF After
  <2>3. \A u \in Threads : pc'[u] = "store" => u = t
    BY <1>2, <1>3
  <2>4. prior'[t] = IF Published = 0 THEN List ELSE order'[Published]
    BY <1>5, <1>6, <1>8
  <2>5. links["next"][List] = After(0)'
    BY <1>5, <2>2 DEF TraceInv, LinkInv
  <2>6. \A i \in 1 .. Published : links["next"][order'[i]] = After(i)'
    BY <1>5, <1>6, <2>2 DEF TraceInv, LinkInv
  <2> QED
    BY <1>1, <1>7, <2>1, <2>3, <2>4, <2>5, <2>6 DEF LinkInv
<1>13. WalkInv'
  <2>1. show' = show
    BY DEF Lock
  <2>2. Len(show.seen) \in Nat
    BY DEF TraceInv, MemTypeOK
  <2>3. \A i \in 0 .. Published : CoveredBy(i) => CoveredBy(i)'
    BY <1>5, <1>6, <2>1 DEF CoveredBy
  <2> QED
    BY <1>5, <1>6, <1>7, <2>1, <2>2, <2>3 DEF TraceInv, WalkInv
<1> QED
  BY <1>9, <1>10, <1>11, <1>12, <1>13 DEF TraceInv

-----------------------------------------------------------------------------
\* The four stores, and what each of them does.
LEMMA StoreEffect ==
    ASSUME TraceInv, NEW t \in Threads, Store(t)
    PROVE  /\ mine[t] \in Allocs /\ prior[t] \in Places /\ stored \in 0 .. 3
           /\ stored' = stored + 1
           /\ links' \in [{"next", "prev"} -> [Places -> Places \cup {Unset}]]
           /\ stored = 0 => /\ links'["next"] = links["next"]
                            /\ links'["prev"] = [links["prev"] EXCEPT ![List] = mine[t]]
           /\ stored = 1 => /\ links'["next"] = [links["next"] EXCEPT ![mine[t]] = List]
                            /\ links'["prev"] = links["prev"]
           /\ stored = 2 => /\ links'["next"] = links["next"]
                            /\ links'["prev"] = [links["prev"] EXCEPT ![mine[t]] = prior[t]]
           /\ stored = 3 => /\ links'["next"] = [links["next"] EXCEPT ![prior[t]] = mine[t]]
                            /\ links'["prev"] = links["prev"]
<1> DEFINE s == Stores(mine[t], prior[t])[stored + 1]
<1>1. stored \in 0 .. 3 /\ stored' = stored + 1
  BY DEF Store, TraceInv, LockInv, MemTypeOK
<1>2. Storing /\ Len(order) \in Nat /\ Published = Len(order) - 1 /\ Len(order) > 0
  BY DEF Store, Storing, Published, TraceInv, LockInv, MemTypeOK
<1>3. mine[t] \in Allocs /\ prior[t] \in Places
  <2>1. pc[t] = "store"
    BY DEF Store
  <2>2. order \in Seq(Allocs) /\ mine[t] = order[Len(order)]
    BY <2>1 DEF TraceInv, LockInv, MemTypeOK
  <2>3. prior[t] = IF Published = 0 THEN List ELSE order[Published]
    BY <2>1 DEF TraceInv, LinkInv
  <2> QED
    BY <1>2, <2>2, <2>3 DEF Places
<1>4. links' = [links EXCEPT ![s[1]][s[2]] = s[3]]
  BY DEF Store
<1>5. links \in [{"next", "prev"} -> [Places -> Places \cup {Unset}]] /\ List \in Places
  BY DEF TraceInv, MemTypeOK, Places
<1>6. CASE stored = 0
  <2>1. s = <<"prev", List, mine[t]>>
    BY <1>6 DEF Stores
  <2>2. links' = [links EXCEPT !["prev"][List] = mine[t]]
    BY <1>4, <2>1
  <2> QED
    BY <1>1, <1>3, <1>5, <1>6, <2>2 DEF Places
<1>7. CASE stored = 1
  <2>1. s = <<"next", mine[t], List>>
    BY <1>7 DEF Stores
  <2>2. links' = [links EXCEPT !["next"][mine[t]] = List]
    BY <1>4, <2>1
  <2> QED
    BY <1>1, <1>3, <1>5, <1>7, <2>2 DEF Places
<1>8. CASE stored = 2
  <2>1. s = <<"prev", mine[t], prior[t]>>
    BY <1>8 DEF Stores
  <2>2. links' = [links EXCEPT !["prev"][mine[t]] = prior[t]]
    BY <1>4, <2>1
  <2> QED
    BY <1>1, <1>3, <1>5, <1>8, <2>2 DEF Places
<1>9. CASE stored = 3
  <2>1. s = <<"next", prior[t], mine[t]>>
    BY <1>9 DEF Stores
  <2>2. links' = [links EXCEPT !["next"][prior[t]] = mine[t]]
    BY <1>4, <2>1
  <2> QED
    BY <1>1, <1>3, <1>5, <1>9, <2>2 DEF Places
<1> QED
  BY <1>1, <1>6, <1>7, <1>8, <1>9

LEMMA StoreKeepsInv ==
    ASSUME TraceInv, NEW t \in Threads, Store(t)
    PROVE  TraceInv'
<1> DEFINE m == Len(order) - 1
<1>1. /\ stored \in 0 .. 3 /\ stored' = stored + 1
      /\ links' \in [{"next", "prev"} -> [Places -> Places \cup {Unset}]]
  BY StoreEffect
<1>2. pc[t] = "store" /\ mutex = t
  BY DEF Store, TraceInv, LockInv
<1>3. \A u \in Threads : u # t => pc[u] \notin {"store", "unlock"} /\ pc'[u] = pc[u]
  BY <1>2 DEF Store, TraceInv, LockInv, MemTypeOK
<1>4. pc'[t] = IF stored = 3 THEN "unlock" ELSE "store"
  BY DEF Store, TraceInv, MemTypeOK
<1>5. UNCHANGED <<mine, prior, mutex, made, live, order, show>>
  BY DEF Store
<1>6. Storing /\ Len(order) \in Nat /\ m \in Nat /\ Published = m /\ mine[t] = order[m + 1]
  BY <1>2 DEF Storing, Published, TraceInv, LockInv, MemTypeOK
<1>7. stored # 3 => Storing' /\ Published' = m
  <2>1. stored # 3 => Storing'
    BY <1>4 DEF Storing
  <2> QED
    BY <1>5, <1>6, <2>1 DEF Published
<1>8. stored = 3 => ~Storing' /\ Published' = m + 1
  <2>1. stored = 3 => ~Storing'
    BY <1>3, <1>4 DEF Storing
  <2> QED
    BY <1>5, <1>6, <2>1 DEF Published
<1>9. MemTypeOK'
  <2>1. pc' \in [Threads -> {"idle", "lock", "store", "unlock"}]
    BY DEF Store, TraceInv, MemTypeOK
  <2>2. links' \in [{"next", "prev"} -> [Places -> Places \cup {Unset}]] /\ stored' \in 0 .. 4
    BY <1>1
  <2> QED
    BY <1>5, <2>1, <2>2 DEF TraceInv, MemTypeOK
<1>10. LockInv'
  BY <1>1, <1>2, <1>3, <1>4, <1>5 DEF TraceInv, LockInv
<1>11. AllocInv'
  BY <1>2, <1>3, <1>4, <1>5 DEF TraceInv, AllocInv
<1>12. LinkInv'
  <2> DEFINE last == IF m = 0 THEN List ELSE order[m]
  <2>1. \A u \in Threads : pc'[u] = "store" => u = t
    BY <1>3
  <2>2. prior[t] = last /\ (stored > 1 => links["next"][mine[t]] = List)
    BY <1>2, <1>6 DEF TraceInv, LinkInv
  <2>3. /\ \A i \in 1 .. m : order[i] \in Allocs /\ order[i] # mine[t]
        /\ \A i, j \in 1 .. m : order[i] = order[j] => i = j
        /\ \A i \in 1 .. m : order[i] # List
        /\ mine[t] # List
    <3>1. order[m + 1] \in Allocs /\ \A i \in 1 .. m : order[i] \in Allocs
      BY <1>6 DEF TraceInv, MemTypeOK
    <3>2. List \notin Allocs
      BY DEF List, Allocs
    <3>3. \A i, j \in 1 .. m + 1 : order[i] = order[j] => i = j
      BY <1>6 DEF TraceInv, AllocInv
    <3>4. mine[t] = order[m + 1] /\ m + 1 \in 1 .. m + 1 /\ \A i \in 1 .. m : i # m + 1
      BY <1>6
    <3>5. \A i \in 1 .. m : i \in 1 .. m + 1
      BY <1>6
    <3> QED
      BY <3>1, <3>2, <3>3, <3>4, <3>5
  <2>4. /\ links["next"][List] = IF m = 0 THEN List ELSE order[1]
        /\ \A i \in 1 .. m : links["next"][order[i]] = IF i = m THEN List ELSE order[i + 1]
    BY <1>6 DEF TraceInv, LinkInv, After
  <2>5. links["next"] \in [Places -> Places \cup {Unset}] /\ List \in Places /\ Allocs \subseteq Places
    BY DEF TraceInv, MemTypeOK, Places
  <2>6. CASE stored # 3
    <3> DEFINE next == links["next"]
               prev == links["prev"]
    <3>1. /\ stored = 0 => links'["prev"] = [prev EXCEPT ![List] = mine[t]]
          /\ stored = 1 => links'["prev"] = prev
          /\ stored = 2 => links'["prev"] = [prev EXCEPT ![mine[t]] = prior[t]]
      BY StoreEffect
    <3>2. IF stored = 1 THEN links'["next"] = [next EXCEPT ![mine[t]] = List]
                        ELSE links'["next"] = next
      BY <1>1, <2>6, StoreEffect
    <3>3. prev \in [Places -> Places \cup {Unset}] /\ (stored > 0 => prev[List] = mine[t])
      BY <1>6 DEF TraceInv, MemTypeOK, LinkInv
    <3>4. links'["prev"][List] = mine[t]
      BY <1>1, <2>3, <2>5, <2>6, <3>1, <3>3
    <3>5. stored > 0 => links'["next"][mine[t]] = List
      <4>1. mine[t] \in Places
        BY <1>6, <2>5 DEF TraceInv, MemTypeOK
      <4> QED
        BY <1>1, <2>2, <2>5, <3>2, <4>1
    <3>6. /\ links'["next"][List] = next[List]
          /\ \A i \in 1 .. m : links'["next"][order[i]] = next[order[i]]
      BY <2>3, <2>5, <3>2
    <3>7. \A i \in 0 .. m : After(i)' = IF i = m THEN List ELSE order[i + 1]
      BY <1>5, <1>7, <2>6 DEF After
    <3>8. stored' > 1 => stored > 0
      BY <1>1
    <3>9. Len(order') = m + 1 /\ order'[m + 1] = mine[t]
      BY <1>5, <1>6
    <3>10. links'["next"][List] = After(0)'
      BY <1>6, <2>4, <3>6, <3>7
    <3>11. \A i \in 1 .. m : links'["next"][order[i]] = After(i)'
      BY <1>6, <2>4, <3>6, <3>7
    <3> QED
      BY <1>5, <1>6, <1>7, <2>1, <2>2, <2>6, <3>4, <3>5, <3>8, <3>9, <3>10, <3>11 DEF LinkInv
  <2>7. CASE stored = 3
    <3>1. links'["prev"] = links["prev"]
      BY <2>7, StoreEffect
    <3>2. links'["prev"] = links["prev"] /\ links["prev"][List] = order[m + 1]
      BY <1>6, <2>7, <3>1 DEF TraceInv, LinkInv
    <3>3. links'["next"] = [links["next"] EXCEPT ![last] = order[m + 1]]
      BY <1>6, <2>2, <2>7, StoreEffect
    <3>4. links["next"][order[m + 1]] = List
      BY <1>6, <2>2, <2>7
    <3>5. \A i \in 0 .. m + 1 : After(i)' = IF i = m + 1 THEN List ELSE order[i + 1]
      BY <1>5, <1>8, <2>7 DEF After
    <3>6. links'["next"][List] = order[1]
      BY <1>6, <2>3, <2>4, <2>5, <3>3
    <3>7. \A i \in 1 .. m : links'["next"][order[i]] = order[i + 1]
      BY <1>6, <2>3, <2>4, <2>5, <3>3
    <3>8. links'["next"][order[m + 1]] = List
      BY <1>6, <2>3, <2>5, <3>3, <3>4
    <3>9. links'["next"][List] = After(0)'
      BY <1>6, <3>5, <3>6
    <3>10. \A i \in 1 .. m + 1 : links'["next"][order[i]] = After(i)'
      BY <1>6, <3>5, <3>7, <3>8
    <3> QED
      BY <1>3, <1>4, <1>5, <1>6, <1>8, <2>7, <3>2, <3>9, <3>10 DEF LinkInv
  <2> QED
    BY <2>6, <2>7
<1>13. WalkInv'
  <2>1. Len(show.seen) \in Nat /\ Published' \in {m, m + 1}
    BY <1>7, <1>8 DEF TraceInv, MemTypeOK
  <2>2. \A i : CoveredBy(i)' = CoveredBy(i)
    BY <1>5 DEF CoveredBy
  <2>3. CoveredBy(m) => CoveredBy(m + 1)
    BY <1>6 DEF CoveredBy
  <2> QED
    BY <1>5, <1>6, <2>1, <2>2, <2>3 DEF TraceInv, WalkInv
<1> QED
  BY <1>9, <1>10, <1>11, <1>12, <1>13 DEF TraceInv

LEMMA UnlockKeepsInv ==
    ASSUME TraceInv, NEW t \in Threads, Unlock(t)
    PROVE  TraceInv'
<1>1. pc[t] = "unlock" /\ mutex = t /\ pc'[t] = "idle"
  BY DEF Unlock, TraceInv, LockInv, MemTypeOK
<1>2. \A u \in Threads : u # t => pc[u] \notin {"store", "unlock"} /\ pc'[u] = pc[u]
  BY <1>1 DEF Unlock, TraceInv, LockInv, MemTypeOK
<1>3. UNCHANGED <<mine, prior, links, stored, made, order, show>>
  BY DEF Unlock
<1>4. ~Storing /\ ~Storing' /\ Published' = Published
  <2>1. ~Storing /\ ~Storing'
    BY <1>1, <1>2 DEF Storing
  <2> QED
    BY <1>3, <2>1 DEF Published
<1>5. Len(order) \in Nat /\ Len(order) > 0 /\ mine[t] = order[Len(order)]
  BY <1>1 DEF TraceInv, LockInv, MemTypeOK
<1>6. MemTypeOK'
  <2>1. live' \subseteq Allocs /\ mutex' \in Threads \cup {Unset}
    BY <1>5 DEF Unlock, TraceInv, MemTypeOK
  <2>2. pc' \in [Threads -> {"idle", "lock", "store", "unlock"}]
    BY DEF Unlock, TraceInv, MemTypeOK
  <2> QED
    BY <1>3, <2>1, <2>2 DEF TraceInv, MemTypeOK
<1>7. LockInv'
  BY <1>1, <1>2, MemTraceAssumption DEF Unlock, LockInv
<1>8. AllocInv'
  <2>1. \A k \in live' : \E i \in 1 .. Len(order) : order[i] = k
    BY <1>5 DEF Unlock, TraceInv, AllocInv
  <2>2. \A u \in Threads : pc'[u] # "idle" => u # t /\ pc'[u] = pc[u]
    BY <1>1, <1>2
  <2> QED
    BY <1>3, <2>1, <2>2 DEF TraceInv, AllocInv
<1>9. LinkInv'
  <2>1. \A u \in Threads : pc'[u] # "store"
    BY <1>4 DEF Storing
  <2>2. \A i : After(i)' = After(i)
    BY <1>3, <1>4 DEF After
  <2> QED
    BY <1>3, <1>4, <2>1, <2>2 DEF TraceInv, LinkInv
<1>10. WalkInv'
  BY <1>3, <1>4 DEF TraceInv, WalkInv, CoveredBy
<1> QED
  BY <1>6, <1>7, <1>8, <1>9, <1>10 DEF TraceInv

-----------------------------------------------------------------------------
\* Neither a free nor the walk touches the list.
LEMMA ListUntouched ==
    ASSUME TraceInv, UNCHANGED <<pc, mine, prior, links, mutex, stored, made, order>>
    PROVE  /\ Published' = Published /\ LockInv' /\ LinkInv'
           /\ live' \subseteq live => AllocInv'
<1>1. Storing' = Storing
  BY DEF Storing
<1>2. Published' = Published
  BY <1>1 DEF Published
<1>3. \A i : After(i)' = After(i)
  BY <1>2 DEF After
<1>4. LockInv'
  BY DEF TraceInv, LockInv
<1>5. LinkInv'
  BY <1>1, <1>2, <1>3 DEF TraceInv, LinkInv
<1>6. live' \subseteq live => AllocInv'
  BY DEF TraceInv, AllocInv
<1> QED
  BY <1>2, <1>4, <1>5, <1>6

LEMMA FreeKeepsInv ==
    ASSUME TraceInv, NEW k \in Allocs, FreeBlock(k)
    PROVE  TraceInv'
<1>1. Published' = Published /\ LockInv' /\ LinkInv' /\ AllocInv'
  BY ListUntouched DEF FreeBlock
<1>2. MemTypeOK'
  BY DEF FreeBlock, TraceInv, MemTypeOK
<1>3. WalkInv'
  BY <1>1 DEF FreeBlock, TraceInv, WalkInv, CoveredBy
<1> QED
  BY <1>1, <1>2, <1>3 DEF TraceInv

\* The walk begins with what is published, and reads published links only.
LEMMA ShowKeepsInv ==
    ASSUME TraceInv, ShowFirst \/ ShowNext \/ ShowRecord \/ ShowReturn
    PROVE  TraceInv'
<1> DEFINE n == Len(show.seen)
           pointers == Places \cup {Unset}
<1>1. UNCHANGED <<pc, mine, prior, links, mutex, stored, made, live, order>>
  BY DEF ShowFirst, ShowNext, ShowRecord, ShowReturn, ShowStep
<1>2. Published' = Published /\ LockInv' /\ LinkInv' /\ AllocInv'
  BY <1>1, ListUntouched
<1>3. n \in Nat /\ Len(order) \in Nat /\ Published \in 0 .. Len(order)
  BY PublishedIsNat DEF TraceInv, MemTypeOK
<1>4. show \in [at : {"none", "next", "print", "done"}, node : pointers, tmp : pointers,
                seen : Seq(Allocs), before : SUBSET Allocs]
  BY DEF TraceInv, MemTypeOK
<1>5. /\ List \in Places /\ List \notin Allocs /\ Unset \notin Places
      /\ Allocs \subseteq Places
      /\ \A i \in 1 .. Len(order) : order[i] \in Allocs
  BY MemTraceAssumption DEF List, Places, Allocs, TraceInv, MemTypeOK
<1>6. CASE ShowFirst
  <2> DEFINE storing == {mine[t] : t \in {u \in Threads : pc[u] = "store"}}
             first == ToSet(order) \ storing
  <2>1. show' = [at |-> "next", node |-> links["next"][List], tmp |-> Unset,
                 seen |-> <<>>, before |-> first]
    BY <1>6 DEF ShowFirst, ShowStep, NotShowing
  <2>2. links["next"][List] = After(0)
    BY DEF TraceInv, LinkInv
  <2>3. After(0) \in Places /\ (After(0) = List \/ (0 < Published /\ After(0) = order[1]))
    <3>1. Published = 0 => After(0) = List
      BY DEF After
    <3>2. Published # 0 => After(0) = order[1]
      <4>1. 0 + 1 = 1
        OBVIOUS
      <4> QED
        BY <4>1, Zenon DEF After
    <3>3. Published # 0 => order[1] \in Allocs /\ 0 < Published
      BY <1>3, <1>5
    <3> QED
      BY <1>5, <3>1, <3>2, <3>3
  <2>4. \A k \in first : \E i \in 1 .. Published : order[i] = k
    <3>1. \A k \in first : \E i \in 1 .. Len(order) : order[i] = k
      BY <1>3 DEF ToSet, TraceInv, MemTypeOK
    <3>2. CASE Storing
      <4>1. PICK t \in Threads : pc[t] = "store"
        BY <3>2 DEF Storing
      <4>2. mine[t] = order[Len(order)] /\ mine[t] \notin first
        BY <4>1 DEF TraceInv, LockInv
      <4>3. Published = Len(order) - 1
        BY <3>2 DEF Published
      <4> QED
        BY <1>3, <3>1, <4>2, <4>3
    <3>3. CASE ~Storing
      BY <3>1, <3>3 DEF Published
    <3> QED
      BY <3>2, <3>3
  <2>5. first \subseteq Allocs
    BY <1>3, <1>5, <2>4
  <2>6. MemTypeOK'
    BY <1>1, <1>5, <2>1, <2>2, <2>3, <2>5 DEF TraceInv, MemTypeOK
  <2>7. Published = 0 => After(0) = List
    BY DEF After
  <2>8. WalkInv'
    <3>1. Len(show'.seen) = 0 /\ show'.at = "next" /\ show'.node = After(0) /\ show'.before = first
      BY <2>1, <2>2
    <3>2. CoveredBy(Published)'
      BY <1>1, <1>2, <2>4, <3>1 DEF CoveredBy
    <3>3. After(0) = List => CoveredBy(0)'
      <4>1. After(0) = List => Published = 0
        BY <1>3, <1>5 DEF After
      <4>2. Published = 0 => first = {}
        BY <2>4
      <4> QED
        BY <3>1, <4>1, <4>2 DEF CoveredBy
    <3> QED
      BY <1>1, <1>2, <1>3, <2>3, <3>1, <3>2, <3>3 DEF WalkInv
  <2> QED
    BY <1>2, <2>6, <2>8 DEF TraceInv
<1>7. CASE ShowNext
  <2>1. /\ show' = [show EXCEPT !.at = "print", !.tmp = links["next"][show.node]]
        /\ show.at = "next" /\ show.node # Unset
    BY <1>7 DEF ShowNext, ShowStep
  <2>2. /\ show'.at = "print" /\ show'.tmp = links["next"][show.node]
        /\ show'.node = show.node /\ show'.seen = show.seen /\ show'.before = show.before
    BY <1>4, <2>1
  <2>3. MemTypeOK'
    <3>1. show.node \in Places /\ links["next"] \in [Places -> pointers]
      BY <1>4, <2>1 DEF TraceInv, MemTypeOK
    <3>2. links["next"][show.node] \in pointers
      BY <3>1
    <3> QED
      BY <1>1, <1>4, <2>1, <3>2 DEF TraceInv, MemTypeOK
  <2>4. show.node # List =>
          /\ n < Published /\ show'.tmp = After(n + 1)
          /\ After(n + 1) = IF n + 1 = Published THEN List ELSE order[n + 2]
    <3>1. show.node # List => n < Published /\ show.node = order[n + 1]
      BY <2>1 DEF TraceInv, WalkInv
    <3>2. show.node # List => links["next"][order[n + 1]] = After(n + 1)
      BY <1>3, <3>1 DEF TraceInv, LinkInv
    <3> QED
      BY <1>3, <2>2, <3>1, <3>2 DEF After
  <2>5. \A i : CoveredBy(i)' = CoveredBy(i)
    BY <1>1, <2>2 DEF CoveredBy
  <2>6. WalkInv'
    BY <1>1, <1>2, <1>3, <2>1, <2>2, <2>4, <2>5 DEF TraceInv, WalkInv
  <2> QED
    BY <1>2, <2>3, <2>6 DEF TraceInv
<1>8. CASE ShowRecord /\ show.node = List
  <2>1. show' = [show EXCEPT !.at = "done"] /\ show.at = "print"
    BY <1>8 DEF ShowRecord, ShowStep
  <2>2. /\ show'.at = "done" /\ show'.node = show.node /\ show'.tmp = show.tmp
        /\ show'.seen = show.seen /\ show'.before = show.before
    BY <1>4, <2>1
  <2>3. MemTypeOK'
    BY <1>1, <1>4, <2>1 DEF TraceInv, MemTypeOK
  <2>4. \A i : CoveredBy(i)' = CoveredBy(i)
    BY <1>1, <2>2 DEF CoveredBy
  <2>5. CoveredBy(n)
    <3>1. n < Published => order[n + 1] # List
      BY <1>3, <1>5
    <3> QED
      BY <1>8, <2>1, <3>1 DEF TraceInv, WalkInv
  <2>6. WalkInv'
    BY <1>1, <1>2, <2>2, <2>4, <2>5 DEF TraceInv, WalkInv
  <2> QED
    BY <1>2, <2>3, <2>6 DEF TraceInv
<1>9. CASE ShowRecord /\ show.node # List
  <2>1. /\ show.at = "print"
        /\ show' = [show EXCEPT !.at = "next", !.node = show.tmp,
                                !.seen = Append(show.seen, show.node)]
    BY <1>9 DEF ShowRecord, ShowStep
  <2>2. n < Published /\ show.node = order[n + 1] /\ show.node \in Allocs
    BY <1>3, <1>5, <1>9, <2>1 DEF TraceInv, WalkInv
  <2>3. /\ show'.at = "next" /\ show'.node = show.tmp
        /\ show'.seen = Append(show.seen, show.node) /\ show'.before = show.before
    BY <1>4, <2>1
  <2>4. /\ show'.seen \in Seq(Allocs) /\ Len(show'.seen) = n + 1
        /\ \A i \in 1 .. n + 1 : show'.seen[i] = order[i]
    <3>1. show.seen \in Seq(Allocs)
      BY <1>4
    <3>2. \A i \in 1 .. n : show.seen[i] = order[i]
      BY DEF TraceInv, WalkInv
    <3> QED
      BY <2>2, <2>3, <3>1, <3>2
  <2>5. MemTypeOK'
    BY <1>1, <1>4, <2>1, <2>3, <2>4 DEF TraceInv, MemTypeOK
  <2>6. \A i : CoveredBy(i)' = CoveredBy(i)
    BY <1>1, <2>3 DEF CoveredBy
  <2>7. \/ show.tmp = List /\ CoveredBy(n + 1)
        \/ n + 1 < Published /\ show.tmp = order[n + 2]
    BY <1>9, <2>1 DEF TraceInv, WalkInv
  <2>8. WalkInv'
    BY <1>1, <1>2, <1>3, <2>2, <2>3, <2>4, <2>6, <2>7 DEF TraceInv, WalkInv
  <2> QED
    BY <1>2, <2>5, <2>8 DEF TraceInv
<1>10. CASE ShowReturn
  <2>1. show' = NotShowing
    BY <1>10 DEF ShowReturn, ShowStep
  <2>2. MemTypeOK'
    BY <1>1, <2>1 DEF TraceInv, MemTypeOK, NotShowing
  <2>3. WalkInv'
    BY <1>1, <1>2, <1>3, <2>1 DEF WalkInv, CoveredBy, NotShowing
  <2> QED
    BY <1>2, <2>2, <2>3 DEF TraceInv
<1> QED
  BY <1>6, <1>7, <1>8, <1>9, <1>10

-----------------------------------------------------------------------------
LEMMA TraceInvStep == TraceInv /\ [MemNext]_memVars => TraceInv'
<1> SUFFICES ASSUME TraceInv, [MemNext]_memVars PROVE TraceInv'
  OBVIOUS
<1>1. ASSUME NEW t \in Threads, Malloc(t) \/ Lock(t) \/ Store(t) \/ Unlock(t) PROVE TraceInv'
  BY <1>1, MallocKeepsInv, LockKeepsInv, StoreKeepsInv, UnlockKeepsInv
<1>2. ASSUME NEW k \in Allocs, FreeBlock(k) PROVE TraceInv'
  BY <1>2, FreeKeepsInv
<1>3. CASE ShowFirst \/ ShowNext \/ ShowRecord \/ ShowReturn
  BY <1>3, ShowKeepsInv
<1>4. CASE UNCHANGED memVars
  <2>1. Published' = Published /\ LockInv' /\ LinkInv' /\ AllocInv'
    BY <1>4, ListUntouched DEF memVars
  <2>2. MemTypeOK'
    BY <1>4 DEF memVars, TraceInv, MemTypeOK
  <2>3. WalkInv'
    BY <1>4, <2>1 DEF memVars, TraceInv, WalkInv, CoveredBy
  <2> QED
    BY <2>1, <2>2, <2>3 DEF TraceInv
<1> QED
  BY <1>1, <1>2, <1>3, <1>4 DEF MemNext

LEMMA WalkIsSnapshot == TraceInv => ShowIsSnapshot
<1> SUFFICES ASSUME TraceInv PROVE ShowIsSnapshot
  OBVIOUS
<1> DEFINE n == Len(show.seen)
<1>1. show.seen \in Seq(Allocs) /\ order \in Seq(Allocs)
  BY DEF TraceInv, MemTypeOK
<1>2. /\ n \in Nat /\ Len(order) \in Nat /\ Published \in 0 .. Len(order) /\ n <= Len(order)
      /\ \A i \in 1 .. n : show.seen[i] = order[i]
  BY <1>1, PublishedIsNat DEF TraceInv, WalkInv
<1>3. show.at \in {"next", "print"} => show.node # Unset
  <2>1. List # Unset /\ \A i \in 1 .. Len(order) : order[i] # Unset
    BY <1>1, MemTraceAssumption DEF List, Allocs
  <2> QED
    BY <1>2, <2>1 DEF TraceInv, WalkInv
<1>4. IsPrefix(show.seen, order)
  <2>1. SubSeq(show.seen, 1, n) = SubSeq(order, 1, n)
    BY <1>1, <1>2
  <2> QED
    BY <1>2, <2>1 DEF IsPrefix
<1>5. show.at = "done" => show.before \subseteq ToSet(show.seen)
  <2>1. show.at = "done" => \A k \in show.before : \E j \in 1 .. n : show.seen[j] = k
    BY <1>2 DEF TraceInv, WalkInv, CoveredBy
  <2> QED
    BY <1>1, <2>1 DEF ToSet
<1>6. \A k \in live : k \in ToSet(order)
  BY <1>1 DEF TraceInv, AllocInv, ToSet
<1> QED
  BY <1>3, <1>4, <1>5, <1>6 DEF ShowIsSnapshot

\* Whatever threads allocate and free meanwhile, os_mm_show prints a beginning of
\* the trace with all that was in it when it began, and follows no pointer that is
\* not set.
THEOREM TraceIsReadWhole == MemSpec => []ShowIsSnapshot
BY TraceInvInit, TraceInvStep, WalkIsSnapshot, PTL DEF MemSpec

-----------------------------------------------------------------------------
(* Descriptors: the invariant *)

NodeType == [id : Nat, fd : Fds]

\* The descriptors of a list of nodes.
FdsOf(s) == {s[i].fd : i \in DOMAIN s}

\* No two nodes have one descriptor.
EachItsOwn(s) == \A i, j \in DOMAIN s : s[i].fd = s[j].fd => i = j

Apart(S, T) == \A x \in S : x \notin T

FdType ==
    /\ endpoints \in SUBSET Fds /\ own \in SUBSET Fds /\ lost \in SUBSET Fds
    /\ driver \in BOOLEAN
    /\ nodes \in Seq(NodeType)
    /\ deleted \in SUBSET NodeType /\ IsFiniteSet(deleted)
    /\ ~driver => nodes = <<>>

\* The owners of descriptors do not overlap, and what is open is theirs.
FdOwners ==
    /\ open = endpoints \cup own \cup lost \cup FdsOf(nodes)
    /\ Apart(endpoints, own) /\ Apart(endpoints, lost) /\ Apart(own, lost)
    /\ Apart(endpoints, FdsOf(nodes)) /\ Apart(own, FdsOf(nodes)) /\ Apart(lost, FdsOf(nodes))
    /\ EachItsOwn(nodes)

FdInv == FdType /\ FdOwners

-----------------------------------------------------------------------------
(* Descriptors: lists of nodes, and the lowest descriptor *)

\* A set of numbers that is not empty has a least.
LEMMA LeastNumber ==
  ASSUME NEW S \in SUBSET Nat, S # {}
  PROVE  Min(S) \in S
<1> DEFINE R == OpToRel(<, Nat)
<1>1. \A i, j \in Nat : i < j => <<i, j>> \in R
  BY DEF OpToRel
<1>2. IsWellFoundedOn(R, Nat)
  BY NatLessThanWellFounded
<1> HIDE DEF R
<1>3. PICK i \in S : \A j \in S : ~(<<j, i>> \in R)
  BY <1>2, WFMin
<1>4. ASSUME NEW j \in S PROVE i =< j
  <2>1. ~(j < i)
    BY <1>1, <1>3
  <2> QED
    BY <2>1
<1> QED
  BY <1>4 DEF Min

\* What a call that makes a descriptor returns was not open.
LEMMA LowestIsUnused ==
  ASSUME Unused # {}
  PROVE  Lowest \in Fds /\ Lowest \notin open
<1>1. Unused \in SUBSET Nat
  BY DescriptorsAssumption DEF Unused
<1>2. Lowest \in Unused
  BY <1>1, LeastNumber DEF Lowest
<1> QED
  BY <1>2 DEF Unused

LEMMA OneMore ==
  ASSUME NEW s \in Seq(NodeType), NEW x \in NodeType, EachItsOwn(s), x.fd \notin FdsOf(s)
  PROVE  /\ Append(s, x) \in Seq(NodeType)
         /\ FdsOf(Append(s, x)) = FdsOf(s) \cup {x.fd}
         /\ EachItsOwn(Append(s, x))
<1> DEFINE a == Append(s, x)
<1>1. /\ a \in Seq(NodeType) /\ Len(s) \in Nat
      /\ DOMAIN s = 1 .. Len(s) /\ DOMAIN a = 1 .. Len(s) + 1
      /\ \A i \in 1 .. Len(s) : a[i] = s[i]
      /\ a[Len(s) + 1] = x
  BY AppendProperties, LenProperties
<1> HIDE DEF a
<1>2. \A i \in DOMAIN a : i \in DOMAIN s \/ i = Len(s) + 1
  BY <1>1
<1>3. DOMAIN s \subseteq DOMAIN a /\ Len(s) + 1 \in DOMAIN a
  BY <1>1
<1>4. FdsOf(a) = FdsOf(s) \cup {x.fd}
  BY <1>1, <1>2, <1>3 DEF FdsOf
<1>5. ASSUME NEW i \in DOMAIN a, NEW j \in DOMAIN a, a[i].fd = a[j].fd PROVE i = j
  BY <1>1, <1>2, <1>5 DEF EachItsOwn, FdsOf
<1> QED
  BY <1>1, <1>4, <1>5 DEF EachItsOwn, a

LEMMA OneLess ==
  ASSUME NEW s \in Seq(NodeType), NEW k \in DOMAIN s, EachItsOwn(s)
  PROVE  /\ RemoveAt(s, k) \in Seq(NodeType)
         /\ FdsOf(RemoveAt(s, k)) = FdsOf(s) \ {s[k].fd}
         /\ EachItsOwn(RemoveAt(s, k))
<1> DEFINE a == SubSeq(s, 1, k - 1)
           b == SubSeq(s, k + 1, Len(s))
           r == a \o b
<1>1. Len(s) \in Nat /\ DOMAIN s = 1 .. Len(s) /\ k \in Nat /\ k \in 1 .. Len(s)
  BY LenProperties
<1>2. /\ a \in Seq(NodeType) /\ Len(a) = k - 1 /\ \A j \in 1 .. k - 1 : a[j] = s[j]
      /\ b \in Seq(NodeType) /\ Len(b) = Len(s) - k
      /\ \A j \in 1 .. Len(s) - k : b[j] = s[k + j]
  BY <1>1, SubSeqProperties
<1>3. RemoveAt(s, k) = r
  BY DEF RemoveAt
<1> HIDE DEF a, b
<1>4. /\ r \in Seq(NodeType) /\ Len(r) = Len(a) + Len(b)
      /\ \A j \in 1 .. Len(a) + Len(b) :
            r[j] = IF j <= Len(a) THEN a[j] ELSE b[j - Len(a)]
  BY <1>2, ConcatProperties
<1> HIDE DEF r
<1>5. DOMAIN r = 1 .. Len(s) - 1 /\ Len(a) + Len(b) = Len(s) - 1
  BY <1>1, <1>2, <1>4, LenProperties
<1>6. ASSUME NEW j \in 1 .. Len(s) - 1
      PROVE  r[j] = IF j < k THEN s[j] ELSE s[j + 1]
  <2>1. r[j] = IF j <= k - 1 THEN a[j] ELSE b[j - (k - 1)]
    BY <1>2, <1>4, <1>5
  <2>2. CASE j < k
    BY <1>1, <1>2, <2>1, <2>2
  <2>3. CASE ~(j < k)
    <3>1. j - (k - 1) \in 1 .. Len(s) - k /\ k + (j - (k - 1)) = j + 1
      BY <1>1, <2>3
    <3>2. r[j] = b[j - (k - 1)]
      BY <1>1, <2>1, <2>3
    <3> QED
      BY <1>2, <2>3, <3>1, <3>2
  <2> QED
    BY <2>2, <2>3
\* Where the j-th of what is left was before.
<1> DEFINE was(j) == IF j < k THEN j ELSE j + 1
<1>7. \A j \in DOMAIN r : was(j) \in DOMAIN s /\ was(j) # k /\ r[j] = s[was(j)]
  BY <1>1, <1>5, <1>6
<1>8. \A i, j \in DOMAIN r : was(i) = was(j) => i = j
  BY <1>1, <1>5
<1>9. \A i \in DOMAIN s : i # k => \E j \in DOMAIN r : was(j) = i
  <2> SUFFICES ASSUME NEW i \in DOMAIN s, i # k PROVE \E j \in DOMAIN r : was(j) = i
    OBVIOUS
  <2>1. CASE i < k
    BY <1>1, <1>5, <2>1
  <2>2. CASE ~(i < k)
    <3>1. i - 1 \in DOMAIN r /\ was(i - 1) = i
      BY <1>1, <1>5, <2>2
    <3> QED
      BY <3>1
  <2> QED
    BY <2>1, <2>2
<1> HIDE DEF was
<1>10. FdsOf(r) = FdsOf(s) \ {s[k].fd}
  BY <1>7, <1>9 DEF FdsOf, EachItsOwn
<1>11. EachItsOwn(r)
  BY <1>7, <1>8 DEF EachItsOwn
<1> QED
  BY <1>3, <1>4, <1>10, <1>11

\* As many descriptors as nodes.
LEMMA NodesCounted ==
  ASSUME NEW s \in Seq(NodeType), EachItsOwn(s)
  PROVE  IsFiniteSet(FdsOf(s)) /\ Cardinality(FdsOf(s)) = Len(s)
<1> DEFINE f == [i \in 1 .. Len(s) |-> s[i].fd]
<1>1. Len(s) \in Nat /\ DOMAIN s = 1 .. Len(s)
  BY LenProperties
<1>2. f \in Bijection(1 .. Len(s), FdsOf(s))
  BY <1>1 DEF Bijection, Injection, Surjection, IsInjective, EachItsOwn, FdsOf
<1>3. ExistsBijection(1 .. Len(s), FdsOf(s))
  BY <1>2 DEF ExistsBijection
<1>4. IsFiniteSet(1 .. Len(s)) /\ Cardinality(1 .. Len(s)) = Len(s)
  BY <1>1, FS_Interval
<1> QED
  BY <1>3, <1>4, FS_Bijection

LEMMA CountedApart ==
  ASSUME NEW S, NEW T, IsFiniteSet(S), IsFiniteSet(T), Apart(S, T)
  PROVE  /\ IsFiniteSet(S \cup T)
         /\ Cardinality(S \cup T) = Cardinality(S) + Cardinality(T)
<1>1. S \cap T = {}
  BY DEF Apart
<1>2. /\ IsFiniteSet(S \cup T)
      /\ Cardinality(S \cup T) = Cardinality(S) + Cardinality(T) - Cardinality(S \cap T)
  BY FS_Union
<1>3. Cardinality(S) \in Nat /\ Cardinality(T) \in Nat /\ Cardinality({}) = 0
  BY FS_CardinalityType, FS_EmptySet
<1>4. Cardinality(S \cap T) = 0
  BY <1>1, <1>3
<1> QED
  BY <1>2, <1>3, <1>4

\* With no two owners of one descriptor, the open ones are counted by owner.
LEMMA OwnersCounted ==
  ASSUME FdInv
  PROVE  OneOwnerEach
<1> DEFINE N == FdsOf(nodes)
<1>1. IsFiniteSet(endpoints) /\ IsFiniteSet(own) /\ IsFiniteSet(lost)
  BY DescriptorsAssumption, FS_Subset DEF FdInv, FdType
<1>2. IsFiniteSet(N) /\ Cardinality(N) = Len(nodes)
  BY NodesCounted DEF FdInv, FdType, FdOwners
<1>3. /\ open = (endpoints \cup own \cup lost) \cup N
      /\ Apart(endpoints, own) /\ Apart(endpoints \cup own, lost)
      /\ Apart(endpoints \cup own \cup lost, N)
  BY DEF FdInv, FdOwners, Apart
<1> HIDE DEF N
<1>4. /\ IsFiniteSet(endpoints \cup own)
      /\ Cardinality(endpoints \cup own) = Cardinality(endpoints) + Cardinality(own)
  BY <1>1, <1>3, CountedApart
<1>5. /\ IsFiniteSet(endpoints \cup own \cup lost)
      /\ Cardinality(endpoints \cup own \cup lost)
            = Cardinality(endpoints \cup own) + Cardinality(lost)
  BY <1>1, <1>3, <1>4, CountedApart
<1>6. Cardinality(open) = Cardinality(endpoints \cup own \cup lost) + Cardinality(N)
  BY <1>2, <1>3, <1>5, CountedApart
<1>7. open = endpoints \cup own \cup lost \cup {nodes[i].fd : i \in DOMAIN nodes}
  BY <1>3 DEF N, FdsOf
<1> QED
  BY <1>2, <1>4, <1>5, <1>6, <1>7 DEF OneOwnerEach

-----------------------------------------------------------------------------
(* Descriptors: the steps *)

\* A call makes a descriptor and gives it to one owner outside the list.
LEMMA MadeStep ==
  ASSUME FdInv, Unused # {}, open' = open \cup {Lowest},
         \/ own' = own \cup {Lowest} /\ UNCHANGED <<endpoints, lost>>
         \/ endpoints' = endpoints \cup {Lowest} /\ UNCHANGED <<own, lost>>
         \/ lost' = lost \cup {Lowest} /\ UNCHANGED <<endpoints, own>>,
         UNCHANGED <<driver, nodes, deleted>>
  PROVE  FdInv'
<1>1. Lowest \in Fds /\ Lowest \notin open
  BY LowestIsUnused
<1>2. FdType'
  BY <1>1 DEF FdInv, FdType
<1>3. FdOwners'
  BY <1>1 DEF FdInv, FdOwners, Apart
<1> QED
  BY <1>2, <1>3 DEF FdInv

LEMMA OwnCloseStep ==
  ASSUME FdInv, NEW fd \in own, OwnClose(fd)
  PROVE  FdInv'
<1>1. FdType'
  BY DEF OwnClose, Rest, FdInv, FdType
<1>2. FdOwners'
  BY DEF OwnClose, Rest, FdInv, FdOwners, Apart
<1> QED
  BY <1>1, <1>2 DEF FdInv

LEMMA DestroyStep ==
  ASSUME FdInv, NEW fd \in endpoints, Destroy(fd)
  PROVE  FdInv'
<1>1. FdType'
  BY DEF Destroy, Rest, FdInv, FdType
<1>2. CASE fd > 0
  <2>1. FdOwners'
    BY <1>2 DEF Destroy, Rest, FdInv, FdOwners, Apart
  <2> QED
    BY <1>1, <2>1 DEF FdInv
<1>3. CASE ~(fd > 0)
  <2>1. FdOwners'
    BY <1>3 DEF Destroy, Rest, FdInv, FdOwners, Apart
  <2> QED
    BY <1>1, <2>1 DEF FdInv
<1> QED
  BY <1>2, <1>3

LEMMA EvCreateStep ==
  ASSUME FdInv, EvCreate
  PROVE  FdInv'
<1>1. nodes = <<>> /\ UNCHANGED <<nodes, open, endpoints, own, deleted, lost>>
  BY DEF EvCreate, FdInv, FdType
<1>2. FdType'
  BY <1>1 DEF EvCreate, FdInv, FdType
<1>3. FdOwners'
  BY <1>1 DEF FdInv, FdOwners
<1> QED
  BY <1>2, <1>3 DEF FdInv

LEMMA EvAddSignalStep ==
  ASSUME FdInv, EvAddSignal
  PROVE  FdInv'
<1>1. Lowest \in Fds /\ Lowest \notin open
  BY LowestIsUnused DEF EvAddSignal
<1>2. CASE lost' = lost \cup {Lowest} /\ UNCHANGED nodes
  BY <1>2, MadeStep DEF EvAddSignal
<1>3. CASE nodes' = Append(nodes, Node(Lowest)) /\ UNCHANGED lost
  <2>1. Node(Lowest) \in NodeType /\ Node(Lowest).fd = Lowest
    <3>1. Cardinality(deleted) \in Nat /\ Len(nodes) \in Nat
      BY FS_CardinalityType, LenProperties DEF FdInv, FdType
    <3> QED
      BY <1>1, <3>1 DEF Node, NodeType
  <2>2. nodes \in Seq(NodeType) /\ EachItsOwn(nodes) /\ Lowest \notin FdsOf(nodes)
    BY <1>1 DEF FdInv, FdType, FdOwners
  <2>3. /\ nodes' \in Seq(NodeType)
        /\ FdsOf(nodes)' = FdsOf(nodes) \cup {Lowest}
        /\ EachItsOwn(nodes)'
    <3>1. /\ Append(nodes, Node(Lowest)) \in Seq(NodeType)
          /\ FdsOf(Append(nodes, Node(Lowest))) = FdsOf(nodes) \cup {Node(Lowest).fd}
          /\ EachItsOwn(Append(nodes, Node(Lowest)))
      BY <2>1, <2>2, OneMore
    <3> QED
      BY <1>3, <2>1, <3>1 DEF FdsOf, EachItsOwn
  <2>4. FdType'
    BY <1>1, <1>3, <2>3 DEF EvAddSignal, FdInv, FdType
  <2>5. FdOwners'
    BY <1>1, <1>3, <2>3 DEF EvAddSignal, FdInv, FdOwners, Apart
  <2> QED
    BY <2>4, <2>5 DEF FdInv
<1> QED
  BY <1>2, <1>3 DEF EvAddSignal

LEMMA EvDelStep ==
  ASSUME FdInv, NEW n, EvDel(n)
  PROVE  FdInv'
<1>1. PICK i \in DOMAIN nodes : nodes[i] = n /\ nodes' = RemoveAt(nodes, i)
  BY DEF EvDel
<1>2. n \in NodeType /\ n.fd \in FdsOf(nodes)
  <2>1. nodes[i] \in NodeType
    BY LenProperties DEF FdInv, FdType
  <2> QED
    BY <1>1, <2>1 DEF FdsOf
<1>3. /\ nodes' \in Seq(NodeType)
      /\ FdsOf(nodes)' = FdsOf(nodes) \ {n.fd}
      /\ EachItsOwn(nodes)'
  <2>1. /\ RemoveAt(nodes, i) \in Seq(NodeType)
        /\ FdsOf(RemoveAt(nodes, i)) = FdsOf(nodes) \ {nodes[i].fd}
        /\ EachItsOwn(RemoveAt(nodes, i))
    BY OneLess DEF FdInv, FdType, FdOwners
  <2> QED
    BY <1>1, <2>1 DEF FdsOf, EachItsOwn
<1>4. FdType'
  <2>1. IsFiniteSet(deleted \cup {n})
    BY FS_AddElement DEF FdInv, FdType
  <2> QED
    BY <1>2, <1>3, <2>1 DEF EvDel, FdInv, FdType
<1>5. FdOwners'
  BY <1>2, <1>3 DEF EvDel, FdInv, FdOwners, Apart
<1> QED
  BY <1>4, <1>5 DEF FdInv

LEMMA EvDestroyStep ==
  ASSUME FdInv, EvDestroy
  PROVE  FdInv'
<1>1. /\ nodes' = <<>> /\ nodes' \in Seq(NodeType)
      /\ FdsOf(nodes)' = {} /\ EachItsOwn(nodes)'
  <2>1. nodes' = <<>> /\ DOMAIN nodes' = {}
    BY DEF EvDestroy
  <2> QED
    BY <2>1, EmptySeq DEF FdsOf, EachItsOwn
<1>2. open' = open \ FdsOf(nodes)
  BY DEF EvDestroy, FdsOf
<1>3. FdType'
  <2>1. deleted' = {} /\ IsFiniteSet({})
    BY FS_EmptySet DEF EvDestroy
  <2> QED
    BY <1>1, <2>1 DEF EvDestroy, FdInv, FdType
<1>4. FdOwners'
  BY <1>1, <1>2 DEF EvDestroy, FdInv, FdOwners, Apart
<1> QED
  BY <1>3, <1>4 DEF FdInv

LEMMA FdInvInit == DescriptorInit => FdInv
<1> SUFFICES ASSUME DescriptorInit PROVE FdInv
  OBVIOUS
<1>1. nodes = <<>> /\ nodes \in Seq(NodeType) /\ DOMAIN nodes = {}
  BY EmptySeq DEF DescriptorInit
<1>2. FdType
  BY <1>1, FS_EmptySet DEF DescriptorInit, FdType
<1>3. FdOwners
  BY <1>1 DEF DescriptorInit, FdOwners, Apart, FdsOf, EachItsOwn
<1> QED
  BY <1>2, <1>3 DEF FdInv

LEMMA FdInvStep == FdInv /\ [DescriptorNext]_fdVars => FdInv'
<1> SUFFICES ASSUME FdInv, [DescriptorNext]_fdVars PROVE FdInv'
  OBVIOUS
<1>1. CASE OwnOpen \/ Create \/ MulticastCreateFails
  BY <1>1, MadeStep DEF OwnOpen, Create, MulticastCreateFails, Rest
<1>2. CASE EvAddTimer
  BY <1>2, MadeStep DEF EvAddTimer
<1>3. CASE \E fd \in own : OwnClose(fd)
  BY <1>3, OwnCloseStep
<1>4. CASE \E fd \in endpoints : Destroy(fd)
  BY <1>4, DestroyStep
<1>5. CASE EvCreate
  BY <1>5, EvCreateStep
<1>6. CASE EvAddSignal
  BY <1>6, EvAddSignalStep
<1>7. CASE EvDestroy
  BY <1>7, EvDestroyStep
<1>8. CASE \E i \in DOMAIN nodes : EvDel(nodes[i])
  BY <1>8, EvDelStep
<1>9. CASE UNCHANGED fdVars
  BY <1>9 DEF fdVars, FdInv, FdType, FdOwners, FdsOf, EachItsOwn
<1> QED
  BY <1>1, <1>2, <1>3, <1>4, <1>5, <1>6, <1>7, <1>8, <1>9 DEF DescriptorNext

\* An open descriptor has one owner, or nobody's name for it is left: what is
\* closed is always the closer's own.
THEOREM DescriptorsHaveOneOwner == DescriptorSpec => []OneOwnerEach
<1>1. DescriptorSpec => []FdInv
  BY FdInvInit, FdInvStep, PTL DEF DescriptorSpec
<1> QED
  BY <1>1, OwnersCounted, PTL

-----------------------------------------------------------------------------
(* Files: the invariant *)

ByteType == Nat \X Nat
CallType == [len : Nat, done : Nat, ended : BOOLEAN, failed : BOOLEAN]
ReaderType == [reading : BOOLEAN, want : Nat, got : Seq(ByteType), calm : BOOLEAN]

FileType ==
    /\ use \in {"log", "record"}
    /\ bytes \in Seq(ByteType)
    /\ calls \in Seq(CallType)
    /\ reader \in ReaderType

\* A call writes no more than it has, and all of it unless a write fails; of
\* those that rewrite a record, only the last may be at work.
CallsInv ==
    /\ \A c \in DOMAIN calls :
          /\ calls[c].done <= calls[c].len
          /\ calls[c].ended /\ ~calls[c].failed => calls[c].done = calls[c].len
    /\ use = "record" => \A c \in DOMAIN calls : ~calls[c].ended => c = Len(calls)

\* c has reached place i, and no later call has.
LastAt(c, i) ==
    /\ calls[c].done >= i
    /\ \A d \in DOMAIN calls : d > c => calls[d].done < i

\* RecordKeepsBytes without a maximum, and no call beyond the end of the file.
RecordInv ==
    /\ \A c \in DOMAIN calls : calls[c].done <= Len(bytes)
    /\ \A i \in DOMAIN bytes : \E c \in DOMAIN calls : bytes[i] = <<c, i>> /\ LastAt(c, i)

\* IsPrefix, element by element.
Begins(s, t) == Len(s) <= Len(t) /\ \A i \in 1 .. Len(s) : s[i] = t[i]

ReaderInv == use = "log" \/ reader.calm => Begins(reader.got, bytes)

FileInv ==
    /\ FileType /\ CallsInv /\ ReaderInv
    /\ IF use = "log" THEN LogKeepsBytes ELSE RecordInv

-----------------------------------------------------------------------------
(* Files: sequences of bytes *)

\* s with b written over it behind the first `at` elements.
Written(s, at, b) == SubSeq(s, 1, at) \o b \o SubSeq(s, at + Len(b) + 1, Len(s))

\* What write(2) does to a file, element by element.
LEMMA Overwritten ==
  ASSUME NEW A, NEW s \in Seq(A), NEW b \in Seq(A), NEW at \in 0 .. Len(s)
  PROVE  /\ Written(s, at, b) \in Seq(A)
         /\ Len(Written(s, at, b)) =
               IF at + Len(b) > Len(s) THEN at + Len(b) ELSE Len(s)
         /\ \A j \in 1 .. at : Written(s, at, b)[j] = s[j]
         /\ \A j \in 1 .. Len(b) : Written(s, at, b)[at + j] = b[j]
         /\ \A j \in at + Len(b) + 1 .. Len(s) : Written(s, at, b)[j] = s[j]
<1> DEFINE h == SubSeq(s, 1, at)
           t == SubSeq(s, at + Len(b) + 1, Len(s))
           m == h \o b
<1>1. Len(s) \in Nat /\ at \in Nat /\ at <= Len(s) /\ Len(b) \in Nat
  BY LenProperties
<1>2. h \in Seq(A) /\ Len(h) = at /\ \A j \in 1 .. at : h[j] = s[j]
  BY <1>1, SubSeqProperties
<1>3. /\ t \in Seq(A)
      /\ Len(t) = IF at + Len(b) > Len(s) THEN 0 ELSE Len(s) - (at + Len(b))
      /\ \A j \in 1 .. Len(s) - (at + Len(b)) : t[j] = s[at + Len(b) + j]
  BY <1>1, SubSeqProperties
<1> HIDE DEF h, t
<1>4. /\ m \in Seq(A) /\ Len(m) = Len(h) + Len(b)
      /\ \A j \in 1 .. Len(h) + Len(b) : m[j] = IF j <= Len(h) THEN h[j] ELSE b[j - Len(h)]
  BY <1>2, ConcatProperties
<1>5. Written(s, at, b) = m \o t
  BY DEF Written, h, t
<1> HIDE DEF m
<1> DEFINE w == m \o t
<1>6. /\ w \in Seq(A) /\ Len(w) = Len(m) + Len(t)
      /\ \A j \in 1 .. Len(m) + Len(t) : w[j] = IF j <= Len(m) THEN m[j] ELSE t[j - Len(m)]
  <2>1. m \in Seq(A) /\ t \in Seq(A)
    BY <1>3, <1>4
  <2> QED
    BY <2>1, ConcatProperties
<1> HIDE DEF w
<1>7. /\ Len(m) = at + Len(b)
      /\ \A j \in 1 .. at : m[j] = s[j]
      /\ \A j \in 1 .. Len(b) : m[at + j] = b[j]
  <2>1. Len(m) = at + Len(b)
    BY <1>2, <1>4
  <2>2. ASSUME NEW j \in 1 .. at PROVE m[j] = s[j]
    BY <1>1, <1>2, <1>4
  <2>3. ASSUME NEW j \in 1 .. Len(b) PROVE m[at + j] = b[j]
    <3>1. at + j \in 1 .. at + Len(b) /\ ~(at + j <= at) /\ (at + j) - at = j
      BY <1>1
    <3> QED
      BY <1>2, <1>4, <3>1
  <2> QED
    BY <2>1, <2>2, <2>3
<1>8. /\ Len(m) = at + Len(b) /\ Len(m) \in Nat /\ Len(t) \in Nat
      /\ at + Len(b) > Len(s) => Len(t) = 0
      /\ ~(at + Len(b) > Len(s)) => Len(t) = Len(s) - (at + Len(b))
  BY <1>1, <1>3, <1>7
<1>9. Len(w) = IF at + Len(b) > Len(s) THEN at + Len(b) ELSE Len(s)
  <2>1. Len(w) = at + Len(b) + Len(t)
    BY <1>6, <1>7
  <2>2. CASE at + Len(b) > Len(s)
    BY <1>1, <1>8, <2>1, <2>2
  <2>3. CASE ~(at + Len(b) > Len(s))
    BY <1>1, <1>8, <2>1, <2>3
  <2> QED
    BY <2>2, <2>3
<1>10. ASSUME NEW j \in 1 .. at + Len(b) PROVE w[j] = m[j]
  <2>1. j \in 1 .. Len(m) + Len(t) /\ j <= Len(m)
    BY <1>1, <1>8
  <2> QED
    BY <1>6, <2>1
<1>11. ASSUME NEW j \in at + Len(b) + 1 .. Len(s) PROVE w[j] = s[j]
  <2>1. /\ j \in 1 .. Len(m) + Len(t) /\ ~(j <= Len(m))
        /\ j - (at + Len(b)) \in 1 .. Len(s) - (at + Len(b))
        /\ at + Len(b) + (j - (at + Len(b))) = j
    BY <1>1, <1>8
  <2>2. w[j] = t[j - (at + Len(b))]
    BY <1>6, <1>7, <2>1
  <2> QED
    BY <1>3, <2>1, <2>2
<1>12. \A j \in 1 .. at : w[j] = s[j]
  BY <1>1, <1>7, <1>10
<1>13. \A j \in 1 .. Len(b) : w[at + j] = b[j]
  <2> SUFFICES ASSUME NEW j \in 1 .. Len(b) PROVE w[at + j] = b[j]
    OBVIOUS
  <2>1. at + j \in 1 .. at + Len(b)
    BY <1>1
  <2> QED
    BY <1>7, <1>10, <2>1
<1>14. Written(s, at, b) = w
  BY <1>5 DEF w
<1> QED
  BY <1>6, <1>11, <1>12, <1>13, <1>14, <1>9

\* IsPrefix compares element by element.
LEMMA BeginsIsPrefix ==
  ASSUME NEW A, NEW s \in Seq(A), NEW t \in Seq(A), Begins(s, t)
  PROVE  IsPrefix(s, t)
<1>1. Len(s) \in Nat /\ Len(t) \in Nat /\ Len(s) <= Len(t)
  BY LenProperties DEF Begins
<1> DEFINE a == SubSeq(s, 1, Len(s))
           b == SubSeq(t, 1, Len(s))
<1>2. /\ a \in Seq(A) /\ Len(a) = Len(s) /\ \A i \in 1 .. Len(s) : a[i] = s[i]
      /\ b \in Seq(A) /\ Len(b) = Len(s) /\ \A i \in 1 .. Len(s) : b[i] = t[i]
  BY <1>1, SubSeqProperties
<1> HIDE DEF a, b
<1>3. a = b
  BY <1>2, SeqEqual DEF Begins
<1> QED
  BY <1>1, <1>3 DEF IsPrefix, a, b

LEMMA CallIs ==
  ASSUME FileType, NEW c \in DOMAIN calls
  PROVE  /\ c \in Nat /\ calls[c] \in CallType
         /\ calls[c].len \in Nat /\ calls[c].done \in Nat
<1>1. c \in Nat /\ calls[c] \in CallType
  BY LenProperties DEF FileType
<1> QED
  BY <1>1 DEF CallType

\* The next bytes of a call.
LEMMA ChunkIs ==
  ASSUME FileType, NEW c \in DOMAIN calls, NEW n \in Nat
  PROVE  /\ Chunk(c, n) \in Seq(ByteType) /\ Len(Chunk(c, n)) = n
         /\ \A i \in 1 .. n : Chunk(c, n)[i] = <<c, calls[c].done + i>>
<1>1. c \in Nat /\ calls[c].done \in Nat
  BY CallIs
<1>2. Chunk(c, n) = [i \in 1 .. n |-> <<c, calls[c].done + i>>]
  BY DEF Chunk
<1>3. \A i \in 1 .. n : <<c, calls[c].done + i>> \in ByteType
  BY <1>1 DEF ByteType
<1>4. Chunk(c, n) \in [1 .. n -> ByteType]
  BY <1>2, <1>3
<1>5. Chunk(c, n) \in Seq(ByteType) /\ Len(Chunk(c, n)) = n
  BY <1>4, IsASeq, LenProperties
<1> QED
  BY <1>2, <1>5

\* The one call that has reached a place last.
LEMMA LastIsLatest ==
  ASSUME FileType, NEW i \in Nat, NEW c \in DOMAIN calls, LastAt(c, i)
  PROVE  Latest(i) = c
<1> DEFINE S == {d \in DOMAIN calls : calls[d].done >= i}
<1>1. /\ DOMAIN calls \subseteq Nat
      /\ \A d \in DOMAIN calls : calls[d].done \in Nat
  BY CallIs
<1>2. c \in S /\ \A d \in S : c >= d
  BY <1>1 DEF LastAt
<1>3. S \subseteq Nat
  BY <1>1
<1>4. Latest(i) = CHOOSE x \in S : \A y \in S : x >= y
  BY DEF Latest, Max
<1> HIDE DEF S
<1>5. \A x \in S : (\A y \in S : x >= y) => x = c
  BY <1>2, <1>3
<1> QED
  BY <1>2, <1>4, <1>5
-----------------------------------------------------------------------------
(* Files: the steps *)

LEMMA CallChanges ==
  ASSUME FileType, NEW c \in DOMAIN calls, NEW x \in CallType,
         calls' = [calls EXCEPT ![c] = x]
  PROVE  /\ calls' \in Seq(CallType)
         /\ DOMAIN calls' = DOMAIN calls /\ Len(calls') = Len(calls)
         /\ \A d \in DOMAIN calls : calls'[d] = IF d = c THEN x ELSE calls[d]
<1>1. calls \in Seq(CallType) /\ c \in 1 .. Len(calls)
  BY LenProperties DEF FileType
<1>2. calls' \in Seq(CallType) /\ Len(calls') = Len(calls)
  BY <1>1, ExceptSeq
<1> QED
  BY <1>2, LenProperties DEF FileType

\* A write adds n to what call c has written, and changes no other call.
WroteBy(c, n) ==
    /\ calls' \in Seq(CallType)
    /\ DOMAIN calls' = DOMAIN calls /\ Len(calls') = Len(calls)
    /\ \A d \in DOMAIN calls :
          /\ calls'[d].done = IF d = c THEN calls[d].done + n ELSE calls[d].done
          /\ calls'[d].len = calls[d].len
          /\ calls'[d].ended = calls[d].ended
          /\ calls'[d].failed = calls[d].failed

LEMMA CallWrites ==
  ASSUME FileType, NEW c \in DOMAIN calls, NEW n \in Nat,
         calls' = [calls EXCEPT ![c].done = @ + n]
  PROVE  WroteBy(c, n)
<1> DEFINE x == [calls[c] EXCEPT !.done = @ + n]
<1>1. /\ x \in CallType /\ x.done = calls[c].done + n /\ x.len = calls[c].len
      /\ x.ended = calls[c].ended /\ x.failed = calls[c].failed
  BY CallIs DEF CallType
<1>2. calls' = [calls EXCEPT ![c] = x]
  OBVIOUS
<1> HIDE DEF x
<1>3. /\ calls' \in Seq(CallType)
      /\ DOMAIN calls' = DOMAIN calls /\ Len(calls') = Len(calls)
      /\ \A d \in DOMAIN calls : calls'[d] = IF d = c THEN x ELSE calls[d]
  BY <1>1, <1>2, CallChanges
<1> QED
  BY <1>1, <1>3 DEF WroteBy

LEMMA LogStep ==
  ASSUME FileType, LogKeepsBytes, NEW c \in DOMAIN calls, NEW n \in Nat, WroteBy(c, n),
         bytes' = Written(bytes, Len(bytes), Chunk(c, n))
  PROVE  /\ bytes' \in Seq(ByteType)
         /\ Begins(bytes, bytes')
         /\ LogKeepsBytes'
<1> DEFINE L == Len(bytes)
<1>1. L \in Nat /\ DOMAIN bytes = 1 .. L /\ bytes \in Seq(ByteType)
  BY LenProperties DEF FileType
<1>2. /\ Chunk(c, n) \in Seq(ByteType) /\ Len(Chunk(c, n)) = n
      /\ \A i \in 1 .. n : Chunk(c, n)[i] = <<c, calls[c].done + i>>
  BY ChunkIs
<1>3. L \in 0 .. L
  BY <1>1
<1>4. /\ bytes' \in Seq(ByteType)
      /\ Len(bytes') = L + n
      /\ \A j \in 1 .. L : bytes'[j] = bytes[j]
      /\ \A j \in 1 .. n : bytes'[L + j] = Chunk(c, n)[j]
  <2> DEFINE b == Chunk(c, n)
  <2>1. b \in Seq(ByteType) /\ Len(b) = n
    BY <1>2
  <2>2. L = Len(bytes)
    OBVIOUS
  <2> HIDE DEF b, L
  <2>3. /\ Written(bytes, L, b) \in Seq(ByteType)
        /\ Len(Written(bytes, L, b)) = IF L + Len(b) > L THEN L + Len(b) ELSE L
        /\ \A j \in 1 .. L : Written(bytes, L, b)[j] = bytes[j]
        /\ \A j \in 1 .. Len(b) : Written(bytes, L, b)[L + j] = b[j]
    <3>1. L \in 0 .. Len(bytes)
      BY <1>3, <2>2
    <3>2. bytes \in Seq(ByteType) /\ b \in Seq(ByteType)
      BY <1>1, <2>1
    <3>3. /\ Written(bytes, L, b) \in Seq(ByteType)
          /\ Len(Written(bytes, L, b)) =
                IF L + Len(b) > Len(bytes) THEN L + Len(b) ELSE Len(bytes)
          /\ \A j \in 1 .. L : Written(bytes, L, b)[j] = bytes[j]
          /\ \A j \in 1 .. Len(b) : Written(bytes, L, b)[L + j] = b[j]
      BY <3>1, <3>2, Overwritten
    <3> QED
      BY <2>2, <3>3
  <2>4. bytes' = Written(bytes, L, b)
    BY <2>2 DEF b
  <2>5. Len(bytes') = L + n
    BY <1>1, <2>1, <2>3, <2>4
  <2> QED
    BY <2>1, <2>3, <2>4, <2>5 DEF b
<1>5. /\ DOMAIN bytes' = 1 .. L + n
      /\ \A j \in 1 .. n : bytes'[L + j] = <<c, calls[c].done + j>>
  BY <1>2, <1>4, LenProperties
<1>6. \A d \in DOMAIN calls : d \in Nat /\ calls[d].done \in Nat
  BY CallIs
<1>7. /\ DOMAIN calls' = DOMAIN calls
      /\ \A d \in DOMAIN calls :
            calls'[d].done = IF d = c THEN calls[d].done + n ELSE calls[d].done
  BY DEF WroteBy
<1> HIDE DEF L
\* A place of the new file is an old one or the k-th of the chunk.
<1>8. \A p \in DOMAIN bytes' : p \in 1 .. L \/ \E k \in 1 .. n : p = L + k
  <2> SUFFICES ASSUME NEW p \in DOMAIN bytes', p \notin 1 .. L
               PROVE  \E k \in 1 .. n : p = L + k
    OBVIOUS
  <2>1. p - L \in 1 .. n /\ p = L + (p - L)
    BY <1>1, <1>5
  <2> QED
    BY <2>1
<1>9. ASSUME NEW p \in DOMAIN bytes'
      PROVE  \E d \in DOMAIN calls' : \E i \in 1 .. calls'[d].done : bytes'[p] = <<d, i>>
  <2>1. CASE p \in 1 .. L
    <3>1. PICK d \in DOMAIN calls : \E i \in 1 .. calls[d].done : bytes[p] = <<d, i>>
      BY <1>1, <2>1 DEF LogKeepsBytes
    <3>2. PICK i \in 1 .. calls[d].done : bytes[p] = <<d, i>>
      BY <3>1
    <3>3. i \in 1 .. calls'[d].done
      BY <1>6, <1>7
    <3> QED
      BY <1>4, <1>7, <2>1, <3>2, <3>3
  <2>2. CASE \E k \in 1 .. n : p = L + k
    <3>1. PICK k \in 1 .. n : p = L + k
      BY <2>2
    <3>2. calls[c].done + k \in 1 .. calls'[c].done
      BY <1>6, <1>7
    <3> QED
      BY <1>5, <1>7, <3>1, <3>2
  <2> QED
    BY <1>8, <2>1, <2>2
<1>10. ASSUME NEW d \in DOMAIN calls', NEW i \in 1 .. calls'[d].done
       PROVE  \E p \in DOMAIN bytes' : bytes'[p] = <<d, i>>
  <2>1. CASE i <= calls[d].done
    <3>1. i \in 1 .. calls[d].done /\ d \in DOMAIN calls
      BY <1>6, <1>7, <2>1
    <3>2. PICK p \in DOMAIN bytes : bytes[p] = <<d, i>>
      BY <3>1 DEF LogKeepsBytes
    <3>3. p \in 1 .. L /\ p \in DOMAIN bytes'
      BY <1>1, <1>5
    <3> QED
      BY <1>4, <3>2, <3>3
  <2>2. CASE ~(i <= calls[d].done)
    <3>1. d = c /\ i - calls[c].done \in 1 .. n /\ calls[c].done + (i - calls[c].done) = i
      BY <1>6, <1>7, <2>2
    <3>2. L + (i - calls[c].done) \in DOMAIN bytes'
      BY <1>1, <1>5, <3>1
    <3>3. bytes'[L + (i - calls[c].done)] = <<d, i>>
      BY <1>5, <3>1
    <3> QED
      BY <3>2, <3>3
  <2> QED
    BY <2>1, <2>2
<1>11. ASSUME NEW p \in DOMAIN bytes', NEW q \in DOMAIN bytes',
              p < q, bytes'[p][1] = bytes'[q][1]
       PROVE  bytes'[p][2] < bytes'[q][2]
  <2>1. CASE q \in 1 .. L
    <3>1. p \in 1 .. L
      BY <1>1, <1>5, <1>11, <2>1
    <3>2. bytes'[p] = bytes[p] /\ bytes'[q] = bytes[q] /\ p \in DOMAIN bytes /\ q \in DOMAIN bytes
      BY <1>1, <1>4, <2>1, <3>1
    <3> QED
      BY <1>11, <3>2 DEF LogKeepsBytes
  <2>2. CASE \E k \in 1 .. n : q = L + k
    <3>1. PICK k \in 1 .. n : q = L + k
      BY <2>2
    <3>2. bytes'[q] = <<c, calls[c].done + k>>
      BY <1>5, <3>1
    <3>3. CASE p \in 1 .. L
      <4>1. bytes'[p] = bytes[p] /\ p \in DOMAIN bytes
        BY <1>1, <1>4, <3>3
      <4>2. PICK d \in DOMAIN calls : \E i \in 1 .. calls[d].done : bytes[p] = <<d, i>>
        BY <4>1 DEF LogKeepsBytes
      <4>3. PICK i \in 1 .. calls[d].done : bytes[p] = <<d, i>>
        BY <4>2
      <4>4. d = c
        BY <1>11, <3>2, <4>1, <4>3
      <4>5. i < calls[c].done + k
        BY <1>6, <4>4
      <4> QED
        BY <3>2, <4>1, <4>3, <4>5
    <3>4. CASE \E m \in 1 .. n : p = L + m
      <4>1. PICK m \in 1 .. n : p = L + m
        BY <3>4
      <4>2. bytes'[p] = <<c, calls[c].done + m>>
        BY <1>5, <4>1
      <4>3. calls[c].done + m < calls[c].done + k
        BY <1>1, <1>6, <1>11, <3>1, <4>1
      <4> QED
        BY <3>2, <4>2, <4>3
    <3> QED
      BY <1>8, <3>3, <3>4
  <2> QED
    BY <1>8, <2>1, <2>2
<1>12. Begins(bytes, bytes')
  BY <1>1, <1>4 DEF Begins, L
<1> QED
  BY <1>4, <1>9, <1>10, <1>11, <1>12 DEF LogKeepsBytes
\* Only the last call rewrites a record, and every place it has reached is its.
LEMMA RecordStep ==
  ASSUME FileType, RecordInv, NEW c \in DOMAIN calls, c = Len(calls), NEW n \in Nat,
         WroteBy(c, n), bytes' = Written(bytes, calls[c].done, Chunk(c, n))
  PROVE  bytes' \in Seq(ByteType) /\ RecordInv'
<1> DEFINE D == calls[c].done
           L == Len(bytes)
           b == Chunk(c, n)
<1>1. L \in Nat /\ L = Len(bytes) /\ DOMAIN bytes = 1 .. L /\ bytes \in Seq(ByteType)
  BY LenProperties DEF FileType
<1>2. b \in Seq(ByteType) /\ Len(b) = n /\ \A i \in 1 .. n : b[i] = <<c, D + i>>
  BY ChunkIs
<1>3. D \in Nat /\ D <= L /\ D = calls[c].done
  BY CallIs DEF RecordInv
<1>4. bytes' = Written(bytes, D, b)
  OBVIOUS
<1>5. \A d \in DOMAIN calls : d \in Nat /\ calls[d].done \in Nat /\ d <= c
  BY CallIs, LenProperties DEF FileType
<1>6. /\ DOMAIN calls' = DOMAIN calls
      /\ \A d \in DOMAIN calls : calls'[d].done = IF d = c THEN D + n ELSE calls[d].done
  BY DEF WroteBy
<1> HIDE DEF D, L, b
<1>7. /\ bytes' \in Seq(ByteType)
      /\ Len(bytes') = IF D + n > L THEN D + n ELSE L
      /\ \A j \in 1 .. D : bytes'[j] = bytes[j]
      /\ \A j \in 1 .. n : bytes'[D + j] = <<c, D + j>>
      /\ \A j \in D + n + 1 .. L : bytes'[j] = bytes[j]
  <2>1. D \in 0 .. Len(bytes)
    BY <1>1, <1>3
  <2>2. /\ Written(bytes, D, b) \in Seq(ByteType)
        /\ Len(Written(bytes, D, b)) =
              IF D + Len(b) > Len(bytes) THEN D + Len(b) ELSE Len(bytes)
        /\ \A j \in 1 .. D : Written(bytes, D, b)[j] = bytes[j]
        /\ \A j \in 1 .. Len(b) : Written(bytes, D, b)[D + j] = b[j]
        /\ \A j \in D + Len(b) + 1 .. Len(bytes) : Written(bytes, D, b)[j] = bytes[j]
    BY <1>1, <1>2, <2>1, Overwritten
  <2> QED
    BY <1>1, <1>2, <1>4, <2>2
<1>8. ASSUME NEW d \in DOMAIN calls' PROVE calls'[d].done <= Len(bytes')
  <2>1. calls[d].done <= L
    BY <1>1, <1>6 DEF RecordInv
  <2>2. CASE d = c
    BY <1>1, <1>3, <1>6, <1>7, <2>2
  <2>3. CASE d # c
    BY <1>1, <1>3, <1>5, <1>6, <1>7, <2>1, <2>3
  <2> QED
    BY <2>2, <2>3
<1>9. ASSUME NEW j \in DOMAIN bytes'
      PROVE  \E d \in DOMAIN calls' : bytes'[j] = <<d, j>> /\ LastAt(d, j)'
  <2>1. j \in Nat /\ j \in 1 .. Len(bytes')
    BY <1>7, LenProperties
  <2>2. CASE j <= D
    <3>1. j \in DOMAIN bytes /\ bytes'[j] = bytes[j]
      BY <1>1, <1>3, <1>7, <2>1, <2>2
    <3>2. PICK d \in DOMAIN calls : bytes[j] = <<d, j>> /\ LastAt(d, j)
      BY <3>1 DEF RecordInv
    <3>3. ~(d < c)
      BY <1>3, <1>5, <2>1, <2>2, <3>2 DEF LastAt
    <3>4. d = c
      BY <1>5, <3>3
    <3>5. calls'[d].done >= j
      BY <1>3, <1>6, <2>1, <2>2, <3>4
    <3>6. \A e \in DOMAIN calls' : ~(e > d)
      BY <1>5, <1>6, <3>4
    <3> QED
      BY <1>6, <3>1, <3>2, <3>5, <3>6 DEF LastAt
  <2>3. CASE j > D /\ j <= D + n
    <3>1. j - D \in 1 .. n /\ D + (j - D) = j
      BY <1>3, <2>1, <2>3
    <3>2. bytes'[j] = <<c, j>>
      BY <1>7, <3>1
    <3>3. calls'[c].done >= j
      BY <1>3, <1>6, <2>1, <2>3
    <3>4. \A e \in DOMAIN calls' : ~(e > c)
      BY <1>5, <1>6
    <3> QED
      BY <1>6, <3>2, <3>3, <3>4 DEF LastAt
  <2>4. CASE j > D + n
    <3>1. j \in DOMAIN bytes /\ j \in D + n + 1 .. L
      BY <1>1, <1>3, <1>7, <2>1, <2>4
    <3>2. bytes'[j] = bytes[j]
      BY <1>7, <3>1
    <3>3. PICK d \in DOMAIN calls : bytes[j] = <<d, j>> /\ LastAt(d, j)
      BY <3>1 DEF RecordInv
    <3>4. d # c
      BY <1>3, <2>1, <2>4, <3>3 DEF LastAt
    <3>5. calls'[d].done >= j
      BY <1>6, <3>3, <3>4 DEF LastAt
    <3>6. ASSUME NEW e \in DOMAIN calls', e > d PROVE calls'[e].done < j
      <4>1. CASE e = c
        BY <1>3, <1>6, <2>1, <2>4, <4>1
      <4>2. CASE e # c
        BY <1>6, <3>3, <3>6, <4>2 DEF LastAt
      <4> QED
        BY <4>1, <4>2
    <3> QED
      BY <1>6, <3>2, <3>3, <3>5, <3>6 DEF LastAt
  <2> QED
    BY <1>3, <2>1, <2>2, <2>3, <2>4
<1> QED
  BY <1>7, <1>8, <1>9 DEF RecordInv
LEMMA WriteSomeStep ==
  ASSUME FileInv, NEW c, WriteSome(c)
  PROVE  FileInv'
<1>1. c \in DOMAIN calls /\ ~calls[c].ended
  BY DEF WriteSome, Running
<1>2. c \in Nat /\ calls[c].len \in Nat /\ calls[c].done \in Nat
  BY <1>1, CallIs DEF FileInv
<1>3. PICK n \in 1 .. calls[c].len - calls[c].done :
         LET at == IF use = "log" THEN Len(bytes) ELSE calls[c].done
         IN  bytes' = SubSeq(bytes, 1, at) \o Chunk(c, n)
                      \o SubSeq(bytes, at + n + 1, Len(bytes))
             /\ calls' = [calls EXCEPT ![c].done = @ + n]
  BY DEF WriteSome
<1>4. n \in Nat /\ calls[c].done + n <= calls[c].len
  BY <1>2
<1>5. Len(Chunk(c, n)) = n
  BY <1>1, <1>4, ChunkIs DEF FileInv
<1>6. /\ use = "log" => bytes' = Written(bytes, Len(bytes), Chunk(c, n))
      /\ use # "log" => bytes' = Written(bytes, calls[c].done, Chunk(c, n))
      /\ calls' = [calls EXCEPT ![c].done = @ + n]
  BY <1>3, <1>5 DEF Written
<1>7. WroteBy(c, n)
  BY <1>1, <1>4, <1>6, CallWrites DEF FileInv
<1>8. reader' = [reader EXCEPT !.calm = FALSE] /\ use' = use
  BY DEF WriteSome
<1>9. reader' \in ReaderType /\ reader'.got = reader.got /\ reader'.calm = FALSE
  BY <1>8 DEF FileInv, FileType, ReaderType
<1>10. CallsInv'
  BY <1>1, <1>2, <1>4, <1>7, <1>8, CallIs DEF WroteBy, FileInv, CallsInv
<1>11. CASE use = "log"
  <2>1. /\ bytes' \in Seq(ByteType) /\ Begins(bytes, bytes') /\ LogKeepsBytes'
    BY <1>1, <1>4, <1>6, <1>7, <1>11, LogStep DEF FileInv
  <2>2. Begins(reader.got, bytes)
    BY <1>11 DEF FileInv, ReaderInv
  <2>3. Begins(reader.got, bytes')
    <3>1. Len(reader.got) \in Nat /\ Len(bytes) \in Nat /\ Len(bytes') \in Nat
      BY <2>1, LenProperties DEF FileInv, FileType, ReaderType
    <3> QED
      BY <2>1, <2>2, <3>1 DEF Begins
  <2>4. FileType' /\ ReaderInv'
    BY <1>7, <1>8, <1>9, <1>11, <2>1, <2>3 DEF FileInv, FileType, ReaderInv, WroteBy
  <2> QED
    BY <1>8, <1>10, <1>11, <2>1, <2>4 DEF FileInv
<1>12. CASE use # "log"
  <2>1. RecordInv /\ c = Len(calls)
    BY <1>1, <1>12 DEF FileInv, FileType, CallsInv
  <2>2. bytes' \in Seq(ByteType) /\ RecordInv'
    BY <1>1, <1>4, <1>6, <1>7, <1>12, <2>1, RecordStep DEF FileInv
  <2>3. FileType' /\ ReaderInv'
    BY <1>7, <1>8, <1>9, <1>12, <2>2 DEF FileInv, FileType, ReaderInv, WroteBy
  <2> QED
    BY <1>8, <1>10, <1>12, <2>2, <2>3 DEF FileInv
<1> QED
  BY <1>11, <1>12

\* What the file holds says nothing of whether a call has ended.
LEMMA NothingWritten ==
  ASSUME bytes' = bytes, DOMAIN calls' = DOMAIN calls,
         \A d \in DOMAIN calls : calls'[d].done = calls[d].done
  PROVE  (LogKeepsBytes => LogKeepsBytes') /\ (RecordInv => RecordInv')
<1>1. LogKeepsBytes => LogKeepsBytes'
  BY DEF LogKeepsBytes
<1>2. RecordInv => RecordInv'
  BY DEF RecordInv, LastAt
<1> QED
  BY <1>1, <1>2

\* A call ends, having written all or failed.
LEMMA EndStep ==
  ASSUME FileInv, NEW c, WriteNothing(c) \/ Close(c)
  PROVE  FileInv'
<1>1. c \in DOMAIN calls /\ UNCHANGED <<use, bytes, reader>>
  BY DEF WriteNothing, Close, Running
<1> DEFINE x == calls'[c]
<1>2. /\ calls' \in Seq(CallType) /\ DOMAIN calls' = DOMAIN calls /\ Len(calls') = Len(calls)
      /\ \A d \in DOMAIN calls : d # c => calls'[d] = calls[d]
      /\ x.done = calls[c].done /\ x.len = calls[c].len /\ x.ended = TRUE
      /\ ~x.failed => calls[c].done = calls[c].len
  <2>1. CASE WriteNothing(c)
    <3> DEFINE y == [calls[c] EXCEPT !.ended = TRUE, !.failed = TRUE]
    <3>1. /\ y \in CallType /\ y.done = calls[c].done /\ y.len = calls[c].len
          /\ y.ended = TRUE /\ y.failed = TRUE
      BY <1>1, CallIs DEF FileInv, CallType
    <3>2. calls' = [calls EXCEPT ![c] = y]
      BY <2>1 DEF WriteNothing
    <3> HIDE DEF y
    <3>3. /\ calls' \in Seq(CallType) /\ DOMAIN calls' = DOMAIN calls
          /\ Len(calls') = Len(calls)
          /\ \A d \in DOMAIN calls : calls'[d] = IF d = c THEN y ELSE calls[d]
      BY <1>1, <3>1, <3>2, CallChanges DEF FileInv
    <3> QED
      BY <1>1, <3>1, <3>3
  <2>2. CASE Close(c)
    <3> DEFINE y == [calls[c] EXCEPT !.ended = TRUE]
    <3>1. /\ y \in CallType /\ y.done = calls[c].done /\ y.len = calls[c].len
          /\ y.ended = TRUE
      BY <1>1, CallIs DEF FileInv, CallType
    <3>2. calls' = [calls EXCEPT ![c] = y] /\ calls[c].done = calls[c].len
      BY <2>2 DEF Close
    <3> HIDE DEF y
    <3>3. /\ calls' \in Seq(CallType) /\ DOMAIN calls' = DOMAIN calls
          /\ Len(calls') = Len(calls)
          /\ \A d \in DOMAIN calls : calls'[d] = IF d = c THEN y ELSE calls[d]
      BY <1>1, <3>1, <3>2, CallChanges DEF FileInv
    <3> QED
      BY <1>1, <3>1, <3>2, <3>3
  <2> QED
    BY <2>1, <2>2
<1> HIDE DEF x
<1>3. \A d \in DOMAIN calls : calls'[d].done = calls[d].done
  BY <1>2 DEF x
<1>4. (LogKeepsBytes => LogKeepsBytes') /\ (RecordInv => RecordInv')
  BY <1>1, <1>2, <1>3, NothingWritten
<1>5. CallsInv'
  BY <1>1, <1>2 DEF x, FileInv, CallsInv
<1>6. FileType' /\ ReaderInv'
  BY <1>1, <1>2 DEF FileInv, FileType, ReaderInv, Begins
<1> QED
  BY <1>1, <1>4, <1>5, <1>6 DEF FileInv

LEMMA OpenStep ==
  ASSUME FileInv, NEW n \in Nat, Open(n)
  PROVE  FileInv'
<1> DEFINE x == [len |-> n, done |-> 0, ended |-> FALSE, failed |-> FALSE]
           k == Len(calls) + 1
<1>1. /\ use = "record" => Running = {}
      /\ calls' = Append(calls, x)
      /\ UNCHANGED <<use, bytes, reader>>
  BY DEF Open
<1>2. x \in CallType /\ x.done = 0 /\ x.len = n /\ ~x.ended
  BY DEF CallType
<1> HIDE DEF x
<1>3. /\ calls' \in Seq(CallType) /\ Len(calls') = k /\ Len(calls) \in Nat
      /\ DOMAIN calls = 1 .. Len(calls) /\ DOMAIN calls' = 1 .. k
      /\ \A d \in DOMAIN calls : calls'[d] = calls[d]
      /\ calls'[k] = x
  BY <1>1, <1>2, AppendProperties, LenProperties DEF FileInv, FileType
<1>4. /\ \A d \in DOMAIN calls' : d \in DOMAIN calls \/ d = k
      /\ \A d \in DOMAIN calls : d \in DOMAIN calls'
      /\ k \in DOMAIN calls' /\ k \notin DOMAIN calls
  BY <1>3
<1> HIDE DEF k
<1>5. FileType' /\ ReaderInv'
  BY <1>1, <1>3 DEF FileInv, FileType, ReaderInv, Begins
<1>6. CallsInv'
  <2>1. ASSUME NEW d \in DOMAIN calls'
        PROVE  /\ calls'[d].done <= calls'[d].len
               /\ calls'[d].ended /\ ~calls'[d].failed => calls'[d].done = calls'[d].len
    <3>1. CASE d \in DOMAIN calls
      BY <1>3, <3>1 DEF FileInv, CallsInv
    <3>2. CASE d = k
      BY <1>2, <1>3, <3>2
    <3> QED
      BY <1>4, <3>1, <3>2
  <2>2. ASSUME use' = "record", NEW d \in DOMAIN calls', ~calls'[d].ended PROVE d = Len(calls')
    BY <1>1, <1>3, <1>4, <2>2 DEF Running
  <2> QED
    BY <2>1, <2>2 DEF CallsInv
<1>7. ASSUME LogKeepsBytes PROVE LogKeepsBytes'
  <2>1. \A i \in 1 .. calls'[k].done : FALSE
    BY <1>2, <1>3
  <2> QED
    BY <1>1, <1>3, <1>4, <1>7, <2>1 DEF LogKeepsBytes
<1>8. ASSUME RecordInv PROVE RecordInv'
  <2>1. Len(bytes) \in Nat /\ DOMAIN bytes = 1 .. Len(bytes)
    BY LenProperties DEF FileInv, FileType
  <2>2. \A d \in DOMAIN calls' : calls'[d].done <= Len(bytes)
    BY <1>2, <1>3, <1>4, <1>8, <2>1 DEF RecordInv
  <2>3. ASSUME NEW i \in DOMAIN bytes
        PROVE  \E c \in DOMAIN calls' : bytes[i] = <<c, i>> /\ LastAt(c, i)'
    <3>1. PICK c \in DOMAIN calls : bytes[i] = <<c, i>> /\ LastAt(c, i)
      BY <1>8 DEF RecordInv
    <3>2. calls'[k].done < i
      BY <1>2, <1>3, <2>1
    <3>3. LastAt(c, i)'
      BY <1>3, <1>4, <3>1, <3>2 DEF LastAt
    <3> QED
      BY <1>4, <3>1, <3>3
  <2> QED
    BY <1>1, <2>2, <2>3 DEF RecordInv
<1> QED
  BY <1>1, <1>5, <1>6, <1>7, <1>8 DEF FileInv
LEMMA ReadSomeStep ==
  ASSUME FileInv, ReadSome
  PROVE  FileInv'
<1> DEFINE have == reader.got
           L == Len(reader.got)
<1>1. /\ reader \in ReaderType /\ have \in Seq(ByteType) /\ reader.want \in Nat
      /\ bytes \in Seq(ByteType)
  BY DEF FileInv, FileType, ReaderType
<1>2. L \in Nat /\ Len(bytes) \in Nat
  BY <1>1, LenProperties
<1>3. PICK n \in 1 .. reader.want - L :
         /\ L + n <= Len(bytes)
         /\ reader' = [reader EXCEPT !.got = @ \o SubSeq(bytes, L + 1, L + n)]
  BY DEF ReadSome
<1> DEFINE b == SubSeq(bytes, L + 1, L + n)
<1>4. b \in Seq(ByteType) /\ Len(b) = n /\ \A i \in 1 .. n : b[i] = bytes[L + i]
  <2>1. L + 1 \in Int /\ L + n \in Int /\ (L + n) - (L + 1) + 1 = n /\ L + 1 <= L + n
    BY <1>2
  <2>2. \A i \in L + 1 .. L + n : bytes[i] \in ByteType
    <3>1. \A i \in L + 1 .. L + n : i \in 1 .. Len(bytes)
      BY <1>2, <1>3
    <3> QED
      BY <1>1, <3>1, LenProperties
  <2> HIDE DEF L
  <2>3. /\ b \in Seq(ByteType)
        /\ Len(b) = (L + n) - (L + 1) + 1
        /\ \A i \in 1 .. (L + n) - (L + 1) + 1 : b[i] = bytes[(L + 1) + i - 1]
    BY <2>1, <2>2, SubSeqProperties
  <2>4. \A i \in 1 .. n : (L + 1) + i - 1 = L + i
    BY <1>2
  <2> QED
    BY <2>1, <2>3, <2>4
<1> HIDE DEF b
<1>5. /\ have \o b \in Seq(ByteType) /\ Len(have \o b) = L + n
      /\ \A i \in 1 .. L + n : (have \o b)[i] = IF i <= L THEN have[i] ELSE b[i - L]
  <2>1. /\ have \o b \in Seq(ByteType) /\ Len(have \o b) = Len(have) + Len(b)
        /\ \A i \in 1 .. Len(have) + Len(b) :
              (have \o b)[i] = IF i <= Len(have) THEN have[i] ELSE b[i - Len(have)]
    BY <1>1, <1>4, ConcatProperties
  <2> QED
    BY <1>4, <2>1
<1>6. UNCHANGED <<use, bytes, calls>>
  BY DEF ReadSome
<1>7. reader' \in ReaderType /\ reader'.got = have \o b /\ reader'.calm = reader.calm
  BY <1>1, <1>3, <1>5 DEF ReaderType, b
<1>8. ASSUME Begins(have, bytes) PROVE Begins(have \o b, bytes)
  <2>1. ASSUME NEW i \in 1 .. L + n PROVE (have \o b)[i] = bytes[i]
    <3>1. CASE i <= L
      BY <1>2, <1>5, <1>8, <3>1 DEF Begins
    <3>2. CASE ~(i <= L)
      <4>1. i - L \in 1 .. n /\ L + (i - L) = i
        BY <1>2, <3>2
      <4>2. (have \o b)[i] = b[i - L]
        BY <1>5, <3>2
      <4> QED
        BY <1>4, <4>1, <4>2
    <3> QED
      BY <3>1, <3>2
  <2> QED
    BY <1>3, <1>5, <2>1 DEF Begins
<1>9. FileType' /\ ReaderInv'
  BY <1>6, <1>7, <1>8 DEF FileInv, FileType, ReaderInv
<1>10. CallsInv' /\ (LogKeepsBytes => LogKeepsBytes') /\ (RecordInv => RecordInv')
  BY <1>6, NothingWritten DEF FileInv, CallsInv
<1> QED
  BY <1>6, <1>9, <1>10 DEF FileInv

\* A reader that has read nothing.
LEMMA FreshReaderStep ==
  ASSUME FileInv, \/ \E n \in Nat : ReadOpen(n)
                  \/ ReadClose
  PROVE  FileInv'
<1>1. UNCHANGED <<use, bytes, calls>>
  BY DEF ReadOpen, ReadClose
<1>2. reader' \in ReaderType /\ reader'.got = <<>>
  <2>1. <<>> \in Seq(ByteType)
    BY EmptySeq
  <2>2. ASSUME NEW n \in Nat
        PROVE  [reading |-> TRUE, want |-> n, got |-> <<>>, calm |-> TRUE] \in ReaderType
    BY <2>1 DEF ReaderType
  <2>3. CASE \E n \in Nat : ReadOpen(n)
    BY <2>2, <2>3 DEF ReadOpen
  <2>4. CASE ReadClose
    BY <2>1, <2>4 DEF ReadClose, NotReading, ReaderType
  <2> QED
    BY <2>3, <2>4
<1>3. Begins(reader'.got, bytes')
  <2>1. Len(reader'.got) = 0 /\ Len(bytes') \in Nat
    BY <1>1, <1>2, EmptySeq, LenProperties DEF FileInv, FileType
  <2> QED
    BY <2>1 DEF Begins
<1>4. FileType' /\ ReaderInv'
  BY <1>1, <1>2, <1>3 DEF FileInv, FileType, ReaderInv
<1>5. CallsInv' /\ (LogKeepsBytes => LogKeepsBytes') /\ (RecordInv => RecordInv')
  BY <1>1, NothingWritten DEF FileInv, CallsInv
<1> QED
  BY <1>1, <1>4, <1>5 DEF FileInv

LEMMA FileInvInit == FileInit => FileInv
<1> SUFFICES ASSUME FileInit PROVE FileInv
  OBVIOUS
<1>1. /\ bytes = <<>> /\ calls = <<>> /\ reader = NotReading
      /\ bytes \in Seq(ByteType) /\ calls \in Seq(CallType) /\ <<>> \in Seq(ByteType)
      /\ DOMAIN bytes = {} /\ DOMAIN calls = {} /\ Len(bytes) = 0
  BY EmptySeq DEF FileInit
<1>2. reader \in ReaderType /\ reader.got = <<>>
  BY <1>1 DEF NotReading, ReaderType
<1>3. FileType /\ CallsInv /\ LogKeepsBytes /\ RecordInv
  BY <1>1, <1>2 DEF FileInit, FileType, CallsInv, LogKeepsBytes, RecordInv
<1>4. ReaderInv
  BY <1>1, <1>2 DEF ReaderInv, Begins
<1> QED
  BY <1>3, <1>4 DEF FileInv

LEMMA FileInvStep == FileInv /\ [FileNext]_fileVars => FileInv'
<1> SUFFICES ASSUME FileInv, [FileNext]_fileVars PROVE FileInv'
  OBVIOUS
<1>1. CASE \E n \in 1 .. MaxBytes : Open(n)
  BY <1>1, OpenStep
<1>2. CASE \E c \in DOMAIN calls : WriteSome(c)
  BY <1>2, WriteSomeStep
<1>3. CASE \E c \in DOMAIN calls : WriteNothing(c) \/ Close(c)
  BY <1>3, EndStep
<1>4. CASE (\E n \in 1 .. MaxBytes * MaxCalls : ReadOpen(n)) \/ ReadClose
  BY <1>4, FreshReaderStep
<1>5. CASE ReadSome
  BY <1>5, ReadSomeStep
<1>6. CASE UNCHANGED fileVars
  BY <1>6, NothingWritten DEF fileVars, FileInv, FileType, CallsInv, ReaderInv, Begins
<1> QED
  BY <1>1, <1>2, <1>3, <1>4, <1>5, <1>6 DEF FileNext

LEMMA FileInvShows == FileInv => FileKeepsBytes
<1> SUFFICES ASSUME FileInv PROVE FileKeepsBytes
  OBVIOUS
<1>1. ASSUME use # "log" PROVE RecordKeepsBytes
  <2> SUFFICES ASSUME NEW i \in DOMAIN bytes PROVE bytes[i] = <<Latest(i), i>>
    BY DEF RecordKeepsBytes
  <2>1. i \in Nat
    BY LenProperties DEF FileInv, FileType
  <2>2. PICK c \in DOMAIN calls : bytes[i] = <<c, i>> /\ LastAt(c, i)
    BY <1>1 DEF FileInv, RecordInv
  <2>3. Latest(i) = c
    BY <2>1, <2>2, LastIsLatest DEF FileInv
  <2> QED
    BY <2>2, <2>3
<1>2. ASSUME use = "log" \/ reader.calm PROVE IsPrefix(reader.got, bytes)
  <2>1. reader.got \in Seq(ByteType) /\ bytes \in Seq(ByteType)
    BY DEF FileInv, FileType, ReaderType
  <2>2. Begins(reader.got, bytes)
    BY <1>2 DEF FileInv, ReaderInv
  <2> QED
    BY <2>1, <2>2, BeginsIsPrefix
<1> QED
  BY <1>1, <1>2 DEF FileInv, CallsInv, FileKeepsBytes

\* A log keeps what every call has written, a record what the last call wrote,
\* and a reader sees the beginning of the file.
THEOREM FilesKeepTheirBytes == FileSpec => []FileKeepsBytes
<1>1. FileSpec => []FileInv
  BY FileInvInit, FileInvStep, PTL DEF FileSpec
<1> QED
  BY <1>1, FileInvShows, PTL
=============================================================================
