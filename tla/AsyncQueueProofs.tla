-------------------------- MODULE AsyncQueueProofs --------------------------
(***************************************************************************)
(* Proofs about AsyncQueue, for any finite sets of threads, any pointers   *)
(* and any bound.                                                          *)
(***************************************************************************)
EXTENDS AsyncQueue, FiniteSetTheorems, SequenceTheorems, TLAPS

-----------------------------------------------------------------------------
(* Type correctness and mutual exclusion *)

\* Every statement of os_async_queue.c leaves its variables well typed.
LEMMA TypeStep == TypeOK /\ [Next]_vars => TypeOK'
<1> SUFFICES ASSUME TypeOK, [Next]_vars PROVE TypeOK'
  OBVIOUS
<1> USE AsyncQueueAssumption DEF TypeOK, Threads, PCs, Holding
<1>1. ASSUME NEW t \in Producers, PushLock(t) PROVE TypeOK'
  BY <1>1 DEF PushLock, Goto, Lock
<1>2. ASSUME NEW t \in Producers, PushTail(t) PROVE TypeOK'
  <2>1. PICK d \in Data : queue' = Append(queue, d)
    BY <1>2 DEF PushTail
  <2>2. queue' \in Seq(Data)
    BY <2>1
  <2> QED
    BY <1>2, <2>2 DEF PushTail, Goto
<1>3. ASSUME NEW t \in Producers, PushSignal(t) PROVE TypeOK'
  BY <1>3 DEF PushSignal, Waiting
<1>4. ASSUME NEW t \in Producers, PushUnlock(t) PROVE TypeOK'
  BY <1>4 DEF PushUnlock, Goto, Unlock
<1>5. ASSUME NEW t \in Consumers, PopLock(t) PROVE TypeOK'
  BY <1>5 DEF PopLock, Goto, Lock
<1>6. ASSUME NEW t \in Consumers, PopWait(t) PROVE TypeOK'
  BY <1>6 DEF PopWait, Goto, Unlock
<1>7. ASSUME NEW t \in Consumers, SpuriousWake(t) PROVE TypeOK'
  BY <1>7 DEF SpuriousWake, Goto
<1>8. ASSUME NEW t \in Consumers, PopRelock(t) PROVE TypeOK'
  BY <1>8 DEF PopRelock, Goto, Lock
<1>9. ASSUME NEW t \in Consumers, PopHead(t) PROVE TypeOK'
  <2>1. /\ queue' \in Seq(Data)
        /\ data' \in [Consumers -> Data \cup {NULL}]
    <3>1. CASE queue # <<>>
      <4>1. Head(queue) \in Data /\ Tail(queue) \in Seq(Data)
        BY <3>1, HeadTailProperties
      <4> QED
        BY <1>9, <3>1, <4>1 DEF PopHead
    <3>2. CASE queue = <<>>
      BY <1>9, <3>2 DEF PopHead
    <3> QED
      BY <3>1, <3>2
  <2> QED
    BY <1>9, <2>1 DEF PopHead, Goto
<1>10. ASSUME NEW t \in Consumers, PopUnlock(t) PROVE TypeOK'
  BY <1>10 DEF PopUnlock, Goto, Unlock
<1>11. CASE UNCHANGED vars
  BY <1>11 DEF vars
<1> QED
  BY <1>1, <1>2, <1>3, <1>4, <1>5, <1>6, <1>7, <1>8, <1>9, <1>10, <1>11
     DEF Next, PushStep, PopStep

\* Init establishes both invariants.
LEMMA InitTypeMutex == Init => TypeOK /\ MutualExclusion
BY AsyncQueueAssumption
   DEF Init, TypeOK, MutualExclusion, Threads, PCs, Holding

\* Only a lock, or the return of cond_wait, enters the critical section.
LEMMA MutexStep == TypeOK /\ MutualExclusion /\ [Next]_vars => MutualExclusion'
<1> SUFFICES ASSUME TypeOK, MutualExclusion, [Next]_vars PROVE MutualExclusion'
  OBVIOUS
<1> USE AsyncQueueAssumption DEF TypeOK, MutualExclusion, Threads, PCs, Holding
<1>1. ASSUME NEW t \in Producers, PushLock(t) PROVE MutualExclusion'
  BY <1>1 DEF PushLock, Goto, Lock
<1>2. ASSUME NEW t \in Producers, PushTail(t) PROVE MutualExclusion'
  BY <1>2 DEF PushTail, Goto
<1>3. ASSUME NEW t \in Producers, PushSignal(t) PROVE MutualExclusion'
  BY <1>3 DEF PushSignal, Waiting
<1>4. ASSUME NEW t \in Producers, PushUnlock(t) PROVE MutualExclusion'
  BY <1>4 DEF PushUnlock, Goto, Unlock
<1>5. ASSUME NEW t \in Consumers, PopLock(t) PROVE MutualExclusion'
  BY <1>5 DEF PopLock, Goto, Lock
<1>6. ASSUME NEW t \in Consumers, PopWait(t) PROVE MutualExclusion'
  BY <1>6 DEF PopWait, Goto, Unlock
<1>7. ASSUME NEW t \in Consumers, SpuriousWake(t) PROVE MutualExclusion'
  BY <1>7 DEF SpuriousWake, Goto
<1>8. ASSUME NEW t \in Consumers, PopRelock(t) PROVE MutualExclusion'
  BY <1>8 DEF PopRelock, Goto, Lock
<1>9. ASSUME NEW t \in Consumers, PopHead(t) PROVE MutualExclusion'
  BY <1>9 DEF PopHead, Goto
<1>10. ASSUME NEW t \in Consumers, PopUnlock(t) PROVE MutualExclusion'
  BY <1>10 DEF PopUnlock, Goto, Unlock
<1>11. CASE UNCHANGED vars
  BY <1>11 DEF vars
<1> QED
  BY <1>1, <1>2, <1>3, <1>4, <1>5, <1>6, <1>7, <1>8, <1>9, <1>10, <1>11
     DEF Next, PushStep, PopStep

\* The variables of os_async_queue.c keep their types.
THEOREM TypeCorrect == Spec => []TypeOK
<1>1. Init => TypeOK
  BY InitTypeMutex
<1> QED
  BY <1>1, TypeStep, PTL DEF Spec

\* q->mutex excludes: the list is only ever touched by the mutex's owner.
THEOREM MutexExcludes == Spec => []MutualExclusion
BY TypeCorrect, InitTypeMutex, MutexStep, PTL DEF Spec

-----------------------------------------------------------------------------
(* Elements and wake-ups, when the condition variable wakes only on a signal *)

\* There are finitely many threads, so the claims can be counted.
LEMMA ClaimedFinite == IsFiniteSet(Claimed) /\ Cardinality(Claimed) \in Nat
<1>1. IsFiniteSet(Threads)
  BY AsyncQueueAssumption, FS_Union DEF Threads
<1>2. Claimed \in SUBSET Threads
  BY DEF Claimed
<1> QED
  BY <1>1, <1>2, FS_Subset, FS_CardinalityType

\* A statement either leaves the elements and their claims alone, or adds one
\* of each, or removes one of each, or is a signal nobody waits for.
LEMMA ClaimEffect ==
  ASSUME ~SpuriousWakeups, TypeOK, TypeOK', MutualExclusion, WokenHasElement,
         [Next]_vars
  PROVE  \/ /\ Len(queue') = Len(queue)
            /\ Cardinality(Claimed') = Cardinality(Claimed)
         \/ /\ Len(queue') = Len(queue) + 1
            /\ Cardinality(Claimed') = Cardinality(Claimed) + 1
         \/ /\ Len(queue') = Len(queue) - 1
            /\ Cardinality(Claimed') = Cardinality(Claimed) - 1
         \/ /\ Len(queue') = Len(queue)
            /\ Cardinality(Claimed') = Cardinality(Claimed) - 1
            /\ Waiting = {}
            /\ \E t \in Producers : PushSignal(t)
<1> DEFINE Same == /\ Len(queue') = Len(queue)
                   /\ Cardinality(Claimed') = Cardinality(Claimed)
           More == /\ Len(queue') = Len(queue) + 1
                   /\ Cardinality(Claimed') = Cardinality(Claimed) + 1
           Less == /\ Len(queue') = Len(queue) - 1
                   /\ Cardinality(Claimed') = Cardinality(Claimed) - 1
           Lost == /\ Len(queue') = Len(queue)
                   /\ Cardinality(Claimed') = Cardinality(Claimed) - 1
                   /\ Waiting = {}
                   /\ \E t \in Producers : PushSignal(t)
<1>a. pc \in [Threads -> PCs] /\ pc' \in [Threads -> PCs]
  BY DEF TypeOK
<1>b. queue \in Seq(Data) /\ Len(queue) \in Nat
  BY DEF TypeOK
<1>1. ASSUME NEW t \in Producers, PushLock(t) PROVE Same
  <2>1. Claimed' = Claimed
    BY <1>1, <1>a DEF PushLock, Goto, Claimed, Threads
  <2> QED
    BY <1>1, <2>1 DEF PushLock
<1>2. ASSUME NEW t \in Producers, PushTail(t) PROVE More
  <2>1. Claimed' = Claimed \cup {t} /\ t \notin Claimed
    BY <1>2, <1>a DEF PushTail, Goto, Claimed, Threads
  <2>2. Cardinality(Claimed') = Cardinality(Claimed) + 1
    BY <2>1, ClaimedFinite, FS_AddElement
  <2>3. Len(queue') = Len(queue) + 1
    BY <1>2, <1>b DEF PushTail
  <2> QED
    BY <2>2, <2>3
<1>3. ASSUME NEW t \in Producers, PushSignal(t) PROVE Same \/ Lost
  <2>1. t \in Claimed /\ queue' = queue
    BY <1>3, <1>a DEF PushSignal, Claimed, Threads
  <2>2. Cardinality(Claimed \ {t}) = Cardinality(Claimed) - 1
        /\ IsFiniteSet(Claimed \ {t})
    BY <2>1, ClaimedFinite, FS_RemoveElement
  <2>3. ASSUME NEW w \in Waiting,
               pc' = [pc EXCEPT ![t] = "push_unlock", ![w] = "woken"]
        PROVE  Same
    <3>1. w # t /\ w \notin Claimed /\ w \in Threads
      BY <1>3, <2>3 DEF PushSignal, Waiting, Claimed, Threads
    <3>2. Claimed' = (Claimed \ {t}) \cup {w}
      BY <1>3, <1>a, <2>3, <3>1 DEF PushSignal, Waiting, Claimed, Threads
    <3>3. Cardinality(Claimed') = Cardinality(Claimed \ {t}) + 1
      BY <2>2, <3>1, <3>2, FS_AddElement
    <3> QED
      BY <2>1, <2>2, <3>3, ClaimedFinite
  <2>4. ASSUME Waiting = {}, pc' = [pc EXCEPT ![t] = "push_unlock"]
        PROVE  Lost
    <3>1. Claimed' = Claimed \ {t}
      BY <1>3, <1>a, <2>4 DEF PushSignal, Claimed, Threads
    <3> QED
      BY <1>3, <2>1, <2>2, <2>4, <3>1
  <2> QED
    BY <1>3, <2>3, <2>4 DEF PushSignal
<1>4. ASSUME NEW t \in Producers, PushUnlock(t) PROVE Same
  <2>1. Claimed' = Claimed
    BY <1>4, <1>a DEF PushUnlock, Goto, Claimed, Threads
  <2> QED
    BY <1>4, <2>1 DEF PushUnlock
<1>5. ASSUME NEW t \in Consumers, PopLock(t) PROVE Same
  <2>1. Claimed' = Claimed
    BY <1>5, <1>a DEF PopLock, Goto, Claimed, Threads
  <2> QED
    BY <1>5, <2>1 DEF PopLock
<1>6. ASSUME NEW t \in Consumers, PopWait(t) PROVE Same
  <2>1. Claimed' = Claimed
    BY <1>6, <1>a DEF PopWait, Goto, Claimed, Threads
  <2> QED
    BY <1>6, <2>1 DEF PopWait
<1>7. ASSUME NEW t \in Consumers, PopRelock(t) PROVE Same
  <2>1. Claimed' = Claimed
    BY <1>7, <1>a DEF PopRelock, Goto, Claimed, Threads
  <2> QED
    BY <1>7, <2>1 DEF PopRelock
<1>8. ASSUME NEW t \in Consumers, PopHead(t) PROVE Less
  <2>1. Claimed' = Claimed \ {t} /\ t \in Claimed
    BY <1>8, <1>a DEF PopHead, Goto, Claimed, Threads
  <2>2. Cardinality(Claimed') = Cardinality(Claimed) - 1
    BY <2>1, ClaimedFinite, FS_RemoveElement
  <2>3. Cardinality(Claimed) # 0
    BY <2>1, ClaimedFinite, FS_EmptySet
  <2>4. queue # <<>>
    BY <1>b, <2>3, ClaimedFinite DEF WokenHasElement
  <2>5. Len(queue') = Len(queue) - 1
    BY <1>8, <1>b, <2>4, HeadTailProperties DEF PopHead
  <2> QED
    BY <2>2, <2>5
<1>9. ASSUME NEW t \in Consumers, PopUnlock(t) PROVE Same
  <2>1. Claimed' = Claimed
    BY <1>9, <1>a DEF PopUnlock, Goto, Claimed, Threads
  <2> QED
    BY <1>9, <2>1 DEF PopUnlock
<1>10. CASE UNCHANGED vars
  BY <1>10 DEF vars, Claimed
<1> QED
  BY <1>1, <1>2, <1>3, <1>4, <1>5, <1>6, <1>7, <1>8, <1>9, <1>10
     DEF Next, PushStep, PopStep, SpuriousWake

\* The inductive invariant of the wake-ups.
WakeupInv == TypeOK /\ MutualExclusion /\ WokenHasElement /\ NoNullPop

\* At first there is no element, no claim and no pop to return.
LEMMA WakeupInit == Init => WakeupInv
<1> SUFFICES ASSUME Init PROVE WakeupInv
  OBVIOUS
<1>1. TypeOK /\ MutualExclusion
  BY InitTypeMutex
<1>2. Claimed = {} /\ Len(queue) = 0
  BY DEF Init, Claimed
<1>3. WokenHasElement
  BY <1>2, FS_EmptySet DEF WokenHasElement
<1>4. NoNullPop
  BY DEF Init, NoNullPop, Threads
<1> QED
  BY <1>1, <1>3, <1>4 DEF WakeupInv

\* A pop's data is written only by PopHead, which finds the element its claim
\* stands for.
LEMMA WakeupStep == ~SpuriousWakeups /\ WakeupInv /\ [Next]_vars => WakeupInv'
<1> SUFFICES ASSUME ~SpuriousWakeups, WakeupInv, [Next]_vars PROVE WakeupInv'
  OBVIOUS
<1>1. TypeOK' /\ MutualExclusion'
  BY TypeStep, MutexStep DEF WakeupInv
<1>2. Len(queue) \in Nat /\ Len(queue') \in Nat
  BY <1>1 DEF WakeupInv, TypeOK
<1>3. Cardinality(Claimed) \in Nat
  BY ClaimedFinite
<1>4. WokenHasElement'
  BY <1>1, <1>2, <1>3, ClaimEffect DEF WakeupInv, WokenHasElement
<1>5. NoNullPop'
  <2>a. /\ pc \in [Threads -> PCs] /\ pc' \in [Threads -> PCs]
        /\ data \in [Consumers -> Data \cup {NULL}]
        /\ queue \in Seq(Data)
    BY <1>1 DEF WakeupInv, TypeOK
  <2>b. NoNullPop
    BY DEF WakeupInv
  <2> USE DEF NoNullPop, Threads
  <2>1. ASSUME NEW t \in Producers, PushStep(t) PROVE NoNullPop'
    BY <2>1, <2>a, <2>b
       DEF PushStep, PushLock, PushTail, PushSignal, PushUnlock, Goto, Waiting
  <2>2. ASSUME NEW t \in Consumers, PopLock(t) \/ PopWait(t) \/ PopRelock(t) \/ PopUnlock(t)
        PROVE  NoNullPop'
    BY <2>2, <2>a, <2>b DEF PopLock, PopWait, PopRelock, PopUnlock, Goto
  <2>3. ASSUME NEW t \in Consumers, PopHead(t) PROVE NoNullPop'
    <3>1. t \in Claimed
      BY <2>3, <2>a DEF PopHead, Goto, Claimed
    <3>2. Cardinality(Claimed) # 0
      BY <3>1, ClaimedFinite, FS_EmptySet
    <3>3. queue # <<>>
      BY <2>a, <1>3, <3>2 DEF WakeupInv, WokenHasElement
    <3>4. Head(queue) \in Data
      BY <2>a, <3>3, HeadTailProperties
    <3> QED
      BY <2>3, <2>a, <2>b, <3>3, <3>4 DEF PopHead, Goto
  <2>4. CASE UNCHANGED vars
    BY <2>4, <2>b DEF vars
  <2> QED
    BY <2>1, <2>2, <2>3, <2>4 DEF WakeupInv, Next, PopStep, SpuriousWake
<1> QED
  BY <1>1, <1>4, <1>5 DEF WakeupInv

\* The invariant holds as long as no wake-up is spurious.
LEMMA WakeupInvariant == ASSUME ~SpuriousWakeups PROVE Spec => []WakeupInv
<1>1. WakeupInv /\ [Next]_vars => WakeupInv'
  BY WakeupStep
<1> QED
  BY <1>1, WakeupInit, PTL DEF Spec

\* If pthread_cond_wait returned only when signalled, every thread that comes
\* out of it would find an element.
THEOREM ElementsMatchWakeups ==
  ASSUME ~SpuriousWakeups PROVE Spec => []WokenHasElement
<1>1. Spec => []WakeupInv
  BY WakeupInvariant
<1>2. WakeupInv => WokenHasElement
  BY DEF WakeupInv
<1> QED
  BY <1>1, <1>2, PTL

\* ... and no caller of os_async_queue_pop would ever be handed NULL.
THEOREM PopReturnsElement ==
  ASSUME ~SpuriousWakeups PROVE Spec => []NoNullPop
<1>1. Spec => []WakeupInv
  BY WakeupInvariant
<1>2. WakeupInv => NoNullPop
  BY DEF WakeupInv
<1> QED
  BY <1>1, <1>2, PTL

\* A lost wake-up is never made good: no step of any thread, in any order,
\* lets the consumers catch up with the queue.
THEOREM LostWakeupsStayLost ==
  ASSUME ~SpuriousWakeups PROVE Spec => BacklogNeverShrinks
<1>1. WakeupInv /\ [Next]_vars => [Backlog' >= Backlog]_vars
  <2> SUFFICES ASSUME WakeupInv, [Next]_vars
               PROVE  Backlog' >= Backlog
    OBVIOUS
  <2>1. TypeOK'
    BY TypeStep DEF WakeupInv
  <2>2. Len(queue) \in Nat /\ Cardinality(Claimed) \in Nat
    BY ClaimedFinite DEF WakeupInv, TypeOK
  <2> QED
    BY <2>1, <2>2, ClaimEffect DEF WakeupInv, Backlog
<1>2. Spec => []WakeupInv
  BY WakeupInvariant
<1> QED
  BY <1>1, <1>2, PTL DEF Spec, BacklogNeverShrinks

\* And only a push that finds no thread waiting loses one.
THEOREM OnlySignalsLoseWakeups ==
  ASSUME ~SpuriousWakeups PROVE Spec => BacklogGrowsOnlyBySignal
<1> DEFINE Unheard == Waiting = {} /\ \E t \in Producers : PushSignal(t)
<1>1. WakeupInv /\ [Next]_vars
      => [Backlog' > Backlog => Unheard]_vars
  <2> SUFFICES ASSUME WakeupInv, [Next]_vars, Backlog' > Backlog
               PROVE  Unheard
    OBVIOUS
  <2>1. TypeOK'
    BY TypeStep DEF WakeupInv
  <2>2. Len(queue) \in Nat /\ Cardinality(Claimed) \in Nat
    BY ClaimedFinite DEF WakeupInv, TypeOK
  <2> QED
    BY <2>1, <2>2, ClaimEffect DEF WakeupInv, Backlog
<1>2. Spec => []WakeupInv
  BY WakeupInvariant
<1> QED
  BY <1>1, <1>2, PTL DEF Spec, BacklogGrowsOnlyBySignal

-----------------------------------------------------------------------------
(* AsyncQueue implements CondQueue, spurious wake-ups or not *)

\* At most the mutex's owner is between its append and its signal, so nobody
\* takes the element in between.
LEMMA AppendedStep ==
  TypeOK /\ MutualExclusion /\ AppendedBeforeSignal /\ [Next]_vars
  => AppendedBeforeSignal'
<1> SUFFICES ASSUME TypeOK, MutualExclusion, AppendedBeforeSignal, [Next]_vars
             PROVE  AppendedBeforeSignal'
  OBVIOUS
<1> USE DEF AppendedBeforeSignal, Threads
<1>a. /\ pc \in [Threads -> PCs] /\ queue \in Seq(Data)
      /\ Len(queue) \in Nat /\ QueueBound \in Nat
  BY AsyncQueueAssumption DEF TypeOK
<1>b. \A t, u \in Threads : pc[t] \in Holding /\ pc[u] \in Holding => t = u
  BY DEF MutualExclusion
<1>1. ASSUME NEW t \in Producers, PushLock(t) PROVE AppendedBeforeSignal'
  BY <1>1, <1>a DEF PushLock, Goto
<1>2. ASSUME NEW t \in Producers, PushTail(t) PROVE AppendedBeforeSignal'
  <2>1. PICK d \in Data : queue' = Append(queue, d)
    BY <1>2 DEF PushTail
  <2>2. queue' # <<>> /\ Len(queue') = Len(queue) + 1
    BY <1>a, <2>1
  <2>3. pc[t] = "push_tail" /\ pc' = [pc EXCEPT ![t] = "signal"]
    BY <1>2 DEF PushTail, Goto
  <2>4. \A u \in Threads : pc'[u] # "push_tail"
    BY <1>a, <1>b, <2>3 DEF Holding
  <2>5. Len(queue') <= QueueBound
    BY <1>a, <2>2, <2>3
  <2> QED
    BY <2>2, <2>4, <2>5
<1>3. ASSUME NEW t \in Producers, PushSignal(t) \/ PushUnlock(t)
      PROVE  AppendedBeforeSignal'
  BY <1>3, <1>a DEF PushSignal, PushUnlock, Goto, Waiting
<1>4. ASSUME NEW t \in Consumers, PopLock(t) \/ PopWait(t) \/ SpuriousWake(t)
                                  \/ PopRelock(t) \/ PopUnlock(t)
      PROVE  AppendedBeforeSignal'
  BY <1>4, <1>a DEF PopLock, PopWait, SpuriousWake, PopRelock, PopUnlock, Goto
<1>5. ASSUME NEW t \in Consumers, PopHead(t) PROVE AppendedBeforeSignal'
  <2>1. pc[t] = "pop_head" /\ pc' = [pc EXCEPT ![t] = "pop_unlock"]
    BY <1>5 DEF PopHead, Goto
  <2>2. \A u \in Threads : pc'[u] # "push_tail" /\ pc'[u] # "signal"
    BY <1>a, <1>b, <2>1 DEF Holding
  <2>3. Len(queue') <= QueueBound
    <3>1. CASE queue # <<>>
      <4>1. Len(Tail(queue)) = Len(queue) - 1
        BY <1>a, <3>1, HeadTailProperties
      <4> QED
        BY <1>5, <1>a, <3>1, <4>1 DEF PopHead
    <3>2. CASE queue = <<>>
      BY <1>5, <3>2 DEF PopHead
    <3> QED
      BY <3>1, <3>2
  <2> QED
    BY <2>2, <2>3
<1>6. CASE UNCHANGED vars
  BY <1>6 DEF vars
<1> QED
  BY <1>1, <1>2, <1>3, <1>4, <1>5, <1>6 DEF Next, PushStep, PopStep

\* A queue whose last element is dropped and appended again is itself.
LEMMA AppendLast ==
  ASSUME NEW S, NEW s \in Seq(S), s # <<>>
  PROVE  /\ s[Len(s)] \in S
         /\ Len(SubSeq(s, 1, Len(s) - 1)) = Len(s) - 1
         /\ s = Append(SubSeq(s, 1, Len(s) - 1), s[Len(s)])
<1> DEFINE f == SubSeq(s, 1, Len(s) - 1)
<1>1. Len(s) \in Nat /\ Len(s) # 0
  BY EmptySeq
<1>2. \A i \in 1 .. Len(s) : s[i] \in S
  BY ElementOfSeq
<1>3. /\ f \in Seq(S) /\ Len(f) = Len(s) - 1
      /\ \A i \in 1 .. Len(s) - 1 : f[i] = s[i]
  <2>1. \A i \in 1 .. Len(s) - 1 : s[i] \in S
    BY <1>1, <1>2
  <2>2. /\ f \in Seq(S)
        /\ Len(f) = IF 1 <= Len(s) - 1 THEN Len(s) - 1 - 1 + 1 ELSE 0
        /\ \A i \in 1 .. Len(s) - 1 - 1 + 1 : f[i] = s[1 + i - 1]
    BY <1>1, <2>1, SubSeqProperties
  <2> HIDE DEF f
  <2>3. Len(f) = Len(s) - 1
    <3>1. \A n \in Nat \ {0} : (IF 1 <= n - 1 THEN n - 1 - 1 + 1 ELSE 0) = n - 1
      OBVIOUS
    <3> QED
      BY <1>1, <2>2, <3>1, Zenon
  <2>4. ASSUME NEW i \in 1 .. Len(s) - 1 PROVE f[i] = s[i]
    <3>1. i \in 1 .. Len(s) - 1 - 1 + 1 /\ 1 + i - 1 = i
      BY <1>1
    <3> QED
      BY <2>2, <3>1
  <2> QED
    BY <2>2, <2>3, <2>4
<1>4. s[Len(s)] \in S
  BY <1>1, <1>2
<1> HIDE DEF f
<1>5. /\ Append(f, s[Len(s)]) \in Seq(S)
      /\ Len(Append(f, s[Len(s)])) = Len(s)
      /\ \A i \in 1 .. Len(f) : Append(f, s[Len(s)])[i] = f[i]
      /\ Append(f, s[Len(s)])[Len(f) + 1] = s[Len(s)]
  BY <1>1, <1>3, <1>4, AppendProperties
<1>6. \A i \in 1 .. Len(s) : s[i] = Append(f, s[Len(s)])[i]
  BY <1>1, <1>3, <1>5
<1>7. s = Append(f, s[Len(s)])
  BY <1>5, <1>6, SeqEqual
<1> QED
  BY <1>3, <1>4, <1>7 DEF f

\* Dropping the element just appended gives the queue back.
LEMMA FrontOfAppend ==
  ASSUME NEW S, NEW s \in Seq(S), NEW d \in S
  PROVE  SubSeq(Append(s, d), 1, Len(Append(s, d)) - 1) = s
<1> DEFINE a == Append(s, d)
<1>1. /\ a \in Seq(S) /\ Len(a) = Len(s) + 1 /\ Len(s) \in Nat
      /\ \A i \in 1 .. Len(s) : a[i] = s[i]
  BY AppendProperties, LenProperties
<1> HIDE DEF a
<1>2. \A i \in 1 .. Len(a) : a[i] \in S
  BY <1>1, ElementOfSeq
<1>3. /\ SubSeq(a, 1, Len(a) - 1) \in Seq(S)
      /\ Len(SubSeq(a, 1, Len(a) - 1)) = Len(s)
      /\ \A i \in 1 .. Len(s) : SubSeq(a, 1, Len(a) - 1)[i] = a[i]
  BY <1>1, <1>2, SubSeqProperties
<1>4. SubSeq(a, 1, Len(a) - 1) = s
  BY <1>1, <1>3, SeqEqual
<1> QED
  BY <1>4 DEF a

\* What the refinement mapping gives for a queue nobody is signalling for.
LEMMA AbsQueueSettled ==
  ASSUME \A t \in Threads : pc[t] # "signal" PROVE absQueue = queue
BY DEF absQueue

\* Each statement is a step of CondQueue or leaves what it sees unchanged.
LEMMA RefinementStep ==
  ASSUME TypeOK, TypeOK', MutualExclusion, MutualExclusion',
         AppendedBeforeSignal, [Next]_vars
  PROVE  [Abs!CondNext]_(Abs!condVars)
<1> USE DEF Threads
<1>a. /\ pc \in [Threads -> PCs] /\ pc' \in [Threads -> PCs]
      /\ queue \in Seq(Data) /\ Len(queue) \in Nat /\ QueueBound \in Nat
  BY AsyncQueueAssumption DEF TypeOK
<1>b. \A t, u \in Threads : pc[t] \in Holding /\ pc[u] \in Holding => t = u
  BY DEF MutualExclusion
<1>c. \A t, u \in Threads : pc'[t] \in Holding /\ pc'[u] \in Holding => t = u
  BY DEF MutualExclusion
<1>1. ASSUME NEW t \in Producers, PushLock(t) PROVE UNCHANGED Abs!condVars
  <2>1. absQueue' = absQueue
    BY <1>1, <1>a DEF PushLock, Goto, absQueue
  <2>2. absState' = absState
    BY <1>1, <1>a DEF PushLock, Goto, absState
  <2> QED
    BY <1>1, <2>1, <2>2 DEF PushLock, Abs!condVars
<1>2. ASSUME NEW t \in Producers, PushTail(t) PROVE UNCHANGED Abs!condVars
  <2>1. PICK d \in Data : queue' = Append(queue, d)
    BY <1>2 DEF PushTail
  <2>2. pc[t] = "push_tail" /\ pc' = [pc EXCEPT ![t] = "signal"]
    BY <1>2 DEF PushTail, Goto
  <2>3. absQueue = queue
    BY <1>b, <2>2, AbsQueueSettled DEF Holding
  <2>4. absQueue' = SubSeq(queue', 1, Len(queue') - 1)
    BY <1>a, <2>2 DEF absQueue
  <2>5. SubSeq(Append(queue, d), 1, Len(Append(queue, d)) - 1) = queue
    BY <1>a, FrontOfAppend
  <2>6. absState' = absState
    BY <1>a, <2>2 DEF absState
  <2> QED
    BY <1>2, <2>1, <2>3, <2>4, <2>5, <2>6 DEF PushTail, Abs!condVars
<1>3. ASSUME NEW t \in Producers, PushSignal(t) PROVE Abs!CondNext
  <2>1. pc[t] = "signal" /\ queue' = queue /\ data' = data
    BY <1>3 DEF PushSignal
  <2>2. queue # <<>> /\ Len(queue) <= QueueBound
    BY <2>1 DEF AppendedBeforeSignal
  <2>3. absQueue = SubSeq(queue, 1, Len(queue) - 1)
    BY <2>1 DEF absQueue
  <2>4. pc'[t] = "push_unlock"
    BY <1>3, <1>a DEF PushSignal, Waiting
  <2>5. absQueue' = queue
    BY <1>c, <2>1, <2>4 DEF absQueue, Holding
  <2>6. /\ queue[Len(queue)] \in Data
        /\ Len(absQueue) = Len(queue) - 1
        /\ queue = Append(absQueue, queue[Len(queue)])
    BY <1>a, <2>2, <2>3, AppendLast
  <2>7. Abs!Signal
    <3>1. ASSUME NEW w \in Waiting,
                 pc' = [pc EXCEPT ![t] = "push_unlock", ![w] = "woken"]
          PROVE  Abs!Signal
      <4>1. w \in Abs!Blocked
        BY <3>1 DEF Abs!Blocked, absState, Waiting
      <4>2. absState' = [absState EXCEPT ![w] = "woken"]
        BY <1>a, <2>1, <3>1 DEF absState, Waiting
      <4> QED
        BY <4>1, <4>2 DEF Abs!Signal
    <3>2. ASSUME Waiting = {}, pc' = [pc EXCEPT ![t] = "push_unlock"]
          PROVE  Abs!Signal
      <4>1. absState' = absState
        BY <1>a, <2>1, <3>2 DEF absState
      <4>2. Abs!Blocked = {}
        BY <3>2 DEF Abs!Blocked, absState, Waiting
      <4> QED
        BY <4>1, <4>2 DEF Abs!Signal
    <3> QED
      BY <1>3, <3>1, <3>2 DEF PushSignal
  <2>8. Abs!Push(queue[Len(queue)])
    BY <2>1, <2>5, <2>6, <2>7 DEF Abs!Push
  <2> QED
    BY <1>a, <2>2, <2>6, <2>8 DEF Abs!CondNext
<1>4. ASSUME NEW t \in Producers, PushUnlock(t) PROVE UNCHANGED Abs!condVars
  <2>1. absQueue' = absQueue
    BY <1>4, <1>a DEF PushUnlock, Goto, absQueue
  <2>2. absState' = absState
    BY <1>4, <1>a DEF PushUnlock, Goto, absState
  <2> QED
    BY <1>4, <2>1, <2>2 DEF PushUnlock, Abs!condVars
<1>5. ASSUME NEW t \in Consumers, PopLock(t) \/ PopRelock(t) \/ PopUnlock(t)
      PROVE  UNCHANGED Abs!condVars
  <2>1. absQueue' = absQueue
    BY <1>5, <1>a DEF PopLock, PopRelock, PopUnlock, Goto, absQueue
  <2>2. absState' = absState
    BY <1>5, <1>a DEF PopLock, PopRelock, PopUnlock, Goto, absState
  <2> QED
    BY <1>5, <2>1, <2>2 DEF PopLock, PopRelock, PopUnlock, Abs!condVars
<1>6. ASSUME NEW t \in Consumers, PopWait(t) PROVE Abs!Wait(t)
  <2>1. absQueue' = absQueue
    BY <1>6, <1>a DEF PopWait, Goto, absQueue
  <2>2. absState[t] = "idle" /\ absState' = [absState EXCEPT ![t] = "blocked"]
    BY <1>6, <1>a DEF PopWait, Goto, absState
  <2> QED
    BY <1>6, <2>1, <2>2 DEF PopWait, Abs!Wait
<1>7. ASSUME NEW t \in Consumers, SpuriousWake(t) PROVE Abs!SpuriousWake(t)
  <2>1. absQueue' = absQueue
    BY <1>7, <1>a DEF SpuriousWake, Goto, absQueue
  <2>2. absState[t] = "blocked" /\ absState' = [absState EXCEPT ![t] = "woken"]
    BY <1>7, <1>a DEF SpuriousWake, Goto, absState
  <2> QED
    BY <1>7, <2>1, <2>2 DEF SpuriousWake, Abs!SpuriousWake
<1>8. ASSUME NEW t \in Consumers, PopHead(t) PROVE Abs!Pop(t)
  <2>1. pc[t] = "pop_head" /\ pc' = [pc EXCEPT ![t] = "pop_unlock"]
    BY <1>8 DEF PopHead, Goto
  <2>2. absQueue = queue
    BY <1>b, <2>1, AbsQueueSettled DEF Holding
  <2>3. absQueue' = queue'
    BY <1>a, <1>c, <2>1 DEF absQueue, Holding
  <2>4. absState[t] = "woken" /\ absState' = [absState EXCEPT ![t] = "idle"]
    BY <1>a, <2>1 DEF absState
  <2> QED
    BY <1>8, <2>2, <2>3, <2>4 DEF PopHead, Abs!Pop
<1>9. CASE UNCHANGED vars
  BY <1>9 DEF vars, Abs!condVars, absQueue, absState
<1> QED
  BY <1>1, <1>2, <1>3, <1>4, <1>5, <1>6, <1>7, <1>8, <1>9
     DEF Next, PushStep, PopStep, Abs!CondNext

\* os_async_queue.c is the coarse queue CondQueue: its mutex makes every call
\* atomic, and adds nothing a caller could see.
THEOREM Refinement == Spec => ImplementsCondQueue
<1>1. Init => Abs!CondInit
  BY DEF Init, Abs!CondInit, absQueue, absState, Threads
<1>2. Init => AppendedBeforeSignal
  BY AsyncQueueAssumption DEF Init, AppendedBeforeSignal, Threads
<1>3. Spec => [](TypeOK /\ MutualExclusion)
  BY TypeCorrect, MutexExcludes, PTL
<1>4. Spec => []AppendedBeforeSignal
  BY <1>2, <1>3, AppendedStep, PTL DEF Spec
<1>5. TypeOK /\ TypeOK' /\ MutualExclusion /\ MutualExclusion'
      /\ AppendedBeforeSignal /\ [Next]_vars => [Abs!CondNext]_(Abs!condVars)
  BY RefinementStep
<1> QED
  BY <1>1, <1>3, <1>4, <1>5, PTL DEF Spec, ImplementsCondQueue, Abs!CondSpec

\* A thread that has been woken finds the abstract queue not empty: a push that
\* has still to signal and the woken thread have an element each.
LEMMA WokenFindsElement ==
  ASSUME WakeupInv, AppendedBeforeSignal, NEW t \in Consumers,
         absState[t] = "woken"
  PROVE  absQueue # <<>>
<1>1. t \in Claimed /\ pc[t] # "signal"
  BY DEF absState, Claimed, Threads
<1>2. queue \in Seq(Data) /\ Len(queue) \in Nat /\ Cardinality(Claimed) <= Len(queue)
  BY DEF WakeupInv, TypeOK, WokenHasElement
<1>3. CASE \A u \in Threads : pc[u] # "signal"
  <2>1. Claimed # {}
    BY <1>1
  <2>2. Cardinality(Claimed) # 0
    BY <2>1, ClaimedFinite, FS_EmptySet
  <2> QED
    BY <1>2, <1>3, <2>2, ClaimedFinite, AbsQueueSettled
<1>4. ASSUME NEW u \in Threads, pc[u] = "signal" PROVE absQueue # <<>>
  <2>1. u \in Claimed \ {t}
    BY <1>1, <1>4 DEF Claimed
  <2>2. /\ IsFiniteSet(Claimed \ {t})
        /\ Cardinality(Claimed \ {t}) = Cardinality(Claimed) - 1
    BY <1>1, ClaimedFinite, FS_RemoveElement
  <2>3. Cardinality(Claimed \ {t}) # 0 /\ Cardinality(Claimed \ {t}) \in Nat
    BY <2>1, <2>2, FS_EmptySet, FS_CardinalityType
  <2>4. queue # <<>> /\ Len(queue) - 1 >= 1
    BY <1>2, <2>2, <2>3, ClaimedFinite
  <2>5. absQueue = SubSeq(queue, 1, Len(queue) - 1)
    BY <1>4 DEF absQueue
  <2>6. Len(absQueue) = Len(queue) - 1
    BY <1>2, <2>4, <2>5, AppendLast
  <2> QED
    BY <1>2, <2>4, <2>6
<1> QED
  BY <1>3, <1>4

\* Each statement of os_async_queue.c is a send, a receive, or nothing that the
\* channel's users can see.
LEMMA FifoStep ==
  ASSUME WakeupInv, WakeupInv', AppendedBeforeSignal, [Next]_vars, ~SpuriousWakeups
  PROVE  [Fifo!FifoNext]_(Fifo!fifoVars)
<1>1. [Abs!CondNext]_(Abs!condVars)
  BY RefinementStep DEF WakeupInv
<1>2. ASSUME NEW d \in Data, Abs!Push(d) PROVE Fifo!Send(d)
  BY <1>2 DEF Abs!Push, Fifo!Send
<1>3. ASSUME NEW t \in Consumers, Abs!Wait(t) PROVE UNCHANGED Fifo!fifoVars
  BY <1>3 DEF Abs!Wait, Fifo!fifoVars
<1>4. ASSUME NEW t \in Consumers, Abs!Pop(t) PROVE Fifo!Receive(t)
  <2>1. absQueue # <<>>
    BY <1>4, WokenFindsElement DEF Abs!Pop
  <2> QED
    BY <1>4, <2>1 DEF Abs!Pop, Fifo!Receive
<1>5. CASE UNCHANGED Abs!condVars
  BY <1>5 DEF Abs!condVars, Fifo!fifoVars
<1> QED
  BY <1>1, <1>2, <1>3, <1>4, <1>5 DEF Abs!CondNext, Abs!SpuriousWake, Fifo!FifoNext

\* The statements of os_async_queue.c are the first-in first-out channel of
\* GLib's queue, as long as pthread_cond_wait returns only when signalled.
THEOREM QueueIsFifo == ASSUME ~SpuriousWakeups PROVE Spec => ImplementsFifo
<1>1. Init => Fifo!FifoInit
  BY DEF Init, Fifo!FifoInit, absQueue, Threads
<1>2. Init => AppendedBeforeSignal
  BY AsyncQueueAssumption DEF Init, AppendedBeforeSignal, Threads
<1>3. Spec => []WakeupInv
  BY WakeupInvariant
<1>4. WakeupInv => TypeOK /\ MutualExclusion
  BY DEF WakeupInv
<1>5. Spec => []AppendedBeforeSignal
  <2>1. Spec => [](TypeOK /\ MutualExclusion)
    BY <1>3, <1>4, PTL
  <2> QED
    BY <1>2, <2>1, AppendedStep, PTL DEF Spec
<1>6. WakeupInv /\ WakeupInv' /\ AppendedBeforeSignal /\ [Next]_vars
      => [Fifo!FifoNext]_(Fifo!fifoVars)
  BY FifoStep
<1> QED
  BY <1>1, <1>3, <1>5, <1>6, PTL DEF Spec, ImplementsFifo, Fifo!FifoSpec

\* Whatever wakes its consumers, os_async_queue.c is the channel whose pop may
\* give up on an empty queue: nothing is lost, overtaken or delivered twice.
THEOREM QueueIsPolled == Spec => ImplementsPolled
<1>1. Spec => ImplementsCondQueue
  BY Refinement
<1>2. Abs!CondInit => Fifo!FifoInit
  BY DEF Abs!CondInit, Fifo!FifoInit
<1>3. [Abs!CondNext]_(Abs!condVars) => [Fifo!PolledNext]_(Fifo!fifoVars)
  <2> SUFFICES ASSUME [Abs!CondNext]_(Abs!condVars)
               PROVE  [Fifo!PolledNext]_(Fifo!fifoVars)
    OBVIOUS
  <2>1. ASSUME NEW d \in Data, Abs!Push(d) PROVE Fifo!Send(d)
    BY <2>1 DEF Abs!Push, Fifo!Send
  <2>2. ASSUME NEW t \in Consumers, Abs!Wait(t) \/ Abs!SpuriousWake(t)
        PROVE  UNCHANGED Fifo!fifoVars
    BY <2>2 DEF Abs!Wait, Abs!SpuriousWake, Fifo!fifoVars
  <2>3. ASSUME NEW t \in Consumers, Abs!Pop(t)
        PROVE  Fifo!Receive(t) \/ Fifo!GiveUp(t)
    BY <2>3 DEF Abs!Pop, Fifo!Receive, Fifo!GiveUp
  <2>4. CASE UNCHANGED Abs!condVars
    BY <2>4 DEF Abs!condVars, Fifo!fifoVars
  <2> QED
    BY <2>1, <2>2, <2>3, <2>4 DEF Abs!CondNext, Fifo!FifoNext, Fifo!PolledNext
<1> QED
  BY <1>1, <1>2, <1>3, PTL DEF ImplementsCondQueue, Abs!CondSpec,
     ImplementsPolled, Fifo!PolledSpec
=============================================================================
