-------------------------- MODULE MessagingProofs ---------------------------
(***************************************************************************)
(* os_task.c and os_msg.c for any numbers of tasks, names, thread ids and  *)
(* messages, spurious wake-ups or not.  The invariant has one part per     *)
(* idea: who is in which call, what the list holds, whose tid is whose,    *)
(* which queues exist, where the messages are, and to whom they were sent. *)
(***************************************************************************)
EXTENDS Messaging, FiniteSetTheorems, SequenceTheorems, WellFoundedInduction, TLAPS

Listed == {"listed", "started", "running", "ended", "queue_freed", "queue_null"}
WithQueue == {"listed", "started", "running", "ended"}
Ending == {"ended", "queue_freed", "queue_null", "unlisted"}

\* Thread a creates task t, or ends it.
Handles(a, t) ==
    \/ pc[a] = "exit" /\ a = t
    \/ pc[a] \in {"create", "undo"} /\ target[a] = t

\* A thread in a call is running, and a task has one thread that creates or
\* ends it.
CallInv ==
    /\ life[Main] = "running"
    /\ \A t \in Threads : pc[t] \notin {"idle", "exit"} => life[t] = "running"
    /\ \A t \in Threads : pc[t] = "exit" => life[t] \in Ending
    /\ \A t \in Threads : pc[t] = "create" => target[t] \in Tasks /\ life[target[t]] = "listed"
    /\ \A t \in Threads : pc[t] = "undo" => target[t] \in Tasks /\ life[target[t]] \in Ending
    /\ \A a, b, t \in Threads : Handles(a, t) /\ Handles(b, t) => a = b

\* The list holds the tasks that are alive, each once.
ListInv ==
    /\ \A i, j \in DOMAIN registry : registry[i] = registry[j] => i = j
    /\ \A t \in Threads : life[t] \in Listed <=> \E i \in DOMAIN registry : registry[i] = t

\* No two threads have one tid at a time.
TidInv ==
    /\ \A t, u \in Threads : tid[t] = tid[u] /\ tid[t] # NULL => t = u
    /\ \A t \in Threads : life[t] = "running" => tid[t] # NULL

\* A task has its queue until it ends, and waits for that one.
QueueInv ==
    /\ \A t \in Threads : hasq[t] /\ life[t] \in WithQueue => qlive[t]
    /\ \A t \in Threads : qlive[t] => life[t] \in WithQueue
    /\ \A t \in Threads : pc[t] \in {"blocked", "woken"} => target[t] = t /\ qlive[t]

\* OneOwner without counting.
MsgInv ==
    /\ \A t \in Threads : msg[t] # NULL <=> pc[t] \in {"lookup", "push", "got"}
    /\ \A t, u \in Threads : msg[t] = msg[u] /\ msg[t] # NULL => t = u
    /\ \A t, u \in Threads : \A i \in DOMAIN chan[u] : msg[t] # chan[u][i]
    /\ \A u, v \in Threads : \A i \in DOMAIN chan[u], j \in DOMAIN chan[v] :
          chan[u][i] = chan[v][j] => u = v /\ i = j
    /\ \A m \in Msgs :
          heap[m] # NULL <=> \/ \E t \in Threads : msg[t] = m
                             \/ \E u \in Threads : m \in InQueue(u)

\* A queue that exists holds what was sent to the name of its task.
NameInv ==
    /\ \A t \in Threads :
          pc[t] = "push" =>
             /\ target[t] \in Threads /\ life[target[t]] # "none"
             /\ qlive[target[t]] => name[target[t]] = heap[msg[t]]
    /\ \A u \in Threads : \A i \in DOMAIN chan[u] :
          qlive[u] /\ heap[chan[u][i]] = name[u]
    /\ \A t \in Threads : pc[t] = "got" => heap[msg[t]] = name[t]

IInv == TypeOK /\ CallInv /\ ListInv /\ TidInv /\ QueueInv /\ MsgInv /\ NameInv

-----------------------------------------------------------------------------
(* Lookups *)

\* A set of positions that is not empty has a first.
LEMMA FirstPosition ==
  ASSUME NEW S \in SUBSET Nat, S # {}
  PROVE  \E i \in S : \A j \in S : i <= j
<1> DEFINE R == OpToRel(<, Nat)
<1>1. \A i, j \in Nat : i < j => <<i, j>> \in R
  BY DEF OpToRel
<1>2. IsWellFoundedOn(R, Nat)
  BY NatLessThanWellFounded
<1> HIDE DEF R
<1>3. PICK i \in S : \A j \in S : ~(<<j, i>> \in R)
  BY <1>2, WFMin
<1>4. ASSUME NEW j \in S PROVE i <= j
  <2>1. ~(j < i)
    BY <1>1, <1>3
  <2> QED
    BY <2>1
<1> QED
  BY <1>4

\* os_task_aq_get finds a task of that name, if it finds one.
LEMMA AqGetFinds ==
  ASSUME TypeOK, NEW n, AqGet(n) # NULL
  PROVE  \E i \in DOMAIN registry : AqGet(n) = registry[i] /\ name[registry[i]] = n
<1> DEFINE hits == {i \in DOMAIN registry : name[registry[i]] = n}
<1>1. hits \in SUBSET Nat
  BY LenProperties DEF TypeOK
<1>2. hits # {} /\ AqGet(n) = registry[CHOOSE i \in hits : \A j \in hits : i <= j]
  BY DEF AqGet, First
<1>3. \E i \in hits : \A j \in hits : i <= j
  BY <1>1, <1>2, FirstPosition
<1> QED
  BY <1>2, <1>3

\* os_task_aq_self finds the caller, whose tid nobody else has.
LEMMA AqSelfFinds ==
  ASSUME TypeOK, ListInv, TidInv, NEW t \in Threads, life[t] = "running"
  PROVE  AqSelf(t) = t
<1> DEFINE hits == {i \in DOMAIN registry : tid[registry[i]] = tid[t]}
<1>1. PICK k \in DOMAIN registry : registry[k] = t
  BY DEF ListInv, Listed
<1>2. \A i \in DOMAIN registry : registry[i] \in Threads
  BY LenProperties DEF TypeOK
<1>3. hits = {k}
  BY <1>1, <1>2 DEF ListInv, TidInv
<1>4. k \in Nat
  BY LenProperties DEF TypeOK
<1>5. (CHOOSE i \in hits : \A j \in hits : i <= j) = k
  BY <1>3, <1>4
<1> QED
  BY <1>1, <1>3, <1>5 DEF AqSelf, First

-----------------------------------------------------------------------------
(* Types and calls *)

\* A sequence without its i-th element.
Removed(s, i) == SubSeq(s, 1, i - 1) \o SubSeq(s, i + 1, Len(s))

LEMMA Removal ==
  ASSUME NEW S, NEW s \in Seq(S), NEW i \in DOMAIN s
  PROVE  /\ Removed(s, i) \in Seq(S)
         /\ Len(Removed(s, i)) = Len(s) - 1
         /\ \A j \in 1 .. Len(s) - 1 : Removed(s, i)[j] = IF j < i THEN s[j] ELSE s[j + 1]
<1>1. /\ Len(s) \in Nat /\ i \in 1 .. Len(s)
      /\ \A j \in 1 .. Len(s) : s[j] \in S
  BY LenProperties
<1>2. /\ SubSeq(s, 1, i - 1) \in Seq(S)
      /\ Len(SubSeq(s, 1, i - 1)) = i - 1
      /\ \A j \in 1 .. i - 1 : SubSeq(s, 1, i - 1)[j] = s[j]
  BY <1>1, SubSeqProperties
<1>3. /\ SubSeq(s, i + 1, Len(s)) \in Seq(S)
      /\ Len(SubSeq(s, i + 1, Len(s))) = Len(s) - i
      /\ \A j \in 1 .. Len(s) - i : SubSeq(s, i + 1, Len(s))[j] = s[i + j]
  BY <1>1, SubSeqProperties
<1> DEFINE a == SubSeq(s, 1, i - 1)
           b == SubSeq(s, i + 1, Len(s))
           r == a \o b
<1>4. /\ r \in Seq(S)
      /\ Len(r) = Len(a) + Len(b)
      /\ \A j \in 1 .. Len(a) + Len(b) : r[j] = IF j <= Len(a) THEN a[j] ELSE b[j - Len(a)]
  <2> HIDE DEF a, b
  <2> QED
    BY <1>2, <1>3, ConcatProperties DEF a, b
<1>5. Len(a) = i - 1 /\ Len(b) = Len(s) - i
  BY <1>2, <1>3
<1>6. /\ \A j \in 1 .. i - 1 : a[j] = s[j]
      /\ \A j \in 1 .. Len(s) - i : b[j] = s[i + j]
  BY <1>2, <1>3
<1>7. Removed(s, i) = r
  BY DEF Removed
<1> HIDE DEF a, b, r
<1>8. ASSUME NEW j \in 1 .. Len(s) - 1
      PROVE  r[j] = IF j < i THEN s[j] ELSE s[j + 1]
  <2>1. CASE j < i
    BY <1>1, <1>4, <1>5, <1>6, <2>1
  <2>2. CASE ~(j < i)
    <3>1. j - (i - 1) \in 1 .. Len(s) - i /\ i + (j - (i - 1)) = j + 1
      BY <1>1, <2>2
    <3>2. r[j] = b[j - (i - 1)]
      BY <1>1, <1>4, <1>5, <2>2
    <3> QED
      BY <1>6, <2>2, <3>1, <3>2
  <2> QED
    BY <2>1, <2>2
<1> QED
  BY <1>1, <1>4, <1>5, <1>7, <1>8

\* What is in hand is a message, and the queue found is a task's.
LEMMA InHand ==
  ASSUME IInv, NEW t \in Threads
  PROVE  /\ pc[t] \in {"lookup", "push", "got"} => msg[t] \in Msgs
         /\ pc[t] = "push" => target[t] \in Threads
         /\ pc[t] \in {"blocked", "woken"} => target[t] = t
         /\ pc[t] \in {"create", "undo"} => target[t] \in Tasks
BY DEF IInv, TypeOK, CallInv, QueueInv, MsgInv, NameInv

\* The variables keep their types.
LEMMA TypeStep ==
  ASSUME IInv, Next
  PROVE  TypeOK'
<1>0. PICK t \in Threads : CreateStep(t) \/ EndStep(t) \/ SendStep(t) \/ RecvStep(t)
  BY DEF Next
<1> USE DEF TypeOK, taskVars, callVars
<1>a. TypeOK /\ Tasks \subseteq Threads
  BY DEF IInv, Threads
<1>1. ASSUME NEW u \in Tasks, NEW n \in Names, NEW async \in BOOLEAN, Create(t, u, n, async)
      PROVE  TypeOK'
  <2>1. registry' \in Seq(Threads)
    BY <1>1, <1>a, AppendProperties DEF Create
  <2> QED
    BY <1>1, <1>a, <2>1 DEF Create, Call, Lives, PCs
<1>2. CASE Start(t)
  BY <1>2, <1>a DEF Start, Call, Return, Lives, PCs
<1>14. CASE StartFails(t) \/ FunctionReturns(t)
  BY <1>14, <1>a DEF StartFails, FunctionReturns, Lives, PCs
<1>15. CASE Routine(t)
  BY <1>15, <1>a DEF Routine, FreeTids, Lives
<1>3. ASSUME NEW u \in Tasks, FreeQueue(t, u) PROVE TypeOK'
  BY <1>3, <1>a, EmptySeq DEF FreeQueue, Advance, Lives
<1>4. ASSUME NEW u \in Tasks, ClearQueue(t, u) PROVE TypeOK'
  BY <1>4, <1>a DEF ClearQueue, Advance, Lives
<1>5. ASSUME NEW u \in Tasks, Unlist(t, u) PROVE TypeOK'
  <2>0. PICK i \in DOMAIN registry : registry' = Removed(registry, i)
    BY <1>5 DEF Unlist, Removed
  <2>1. registry' \in Seq(Threads)
    BY <1>a, <2>0, Removal
  <2> QED
    BY <1>5, <1>a, <2>1 DEF Unlist, Advance, Lives
<1>6. ASSUME NEW u \in Tasks, FreeTask(t, u) PROVE TypeOK'
  BY <1>6, <1>a DEF FreeTask, Advance, Return, Call, Lives, PCs
<1>7. ASSUME NEW m \in Msgs, NEW n \in Names, Compose(t, m, n) PROVE TypeOK'
  BY <1>7, <1>a DEF Compose, Call, PCs
<1>8. CASE Lookup(t)
  <2>1. AqGet(heap[msg[t]]) \in Threads
    <3>1. PICK i \in DOMAIN registry : AqGet(heap[msg[t]]) = registry[i]
      BY <1>8, <1>a, AqGetFinds DEF Lookup, HasQueue
    <3> QED
      BY <1>a, <3>1, LenProperties
  <2> QED
    BY <1>8, <1>a, <2>1 DEF Lookup, Call, PCs
<1>9. CASE LookupFails(t) \/ PushFreed(t) \/ FreeMsg(t)
  BY <1>9, <1>a DEF LookupFails, PushFreed, FreeMsg, Return, Call, PCs
<1>10. CASE Push(t)
  <2>1. target[t] \in Threads /\ msg[t] \in Msgs
    BY <1>10, InHand DEF Push
  <2>2. chan' \in [Threads -> Seq(Msgs)]
    BY <1>10, <1>a, <2>1, AppendProperties DEF Push
  <2>3. pc' \in [Threads -> PCs]
    BY <1>10, <1>a DEF Push, Blocked, PCs
  <2> QED
    BY <1>10, <1>a, <2>2, <2>3 DEF Push
<1>11. CASE Wait(t)
  <2>1. AqSelf(t) = t
    BY <1>11, AqSelfFinds DEF IInv, Wait, Idle
  <2> QED
    BY <1>11, <1>a, <2>1 DEF Wait, Call, PCs
<1>12. CASE SpuriousWake(t)
  BY <1>12, <1>a DEF SpuriousWake, PCs
<1>13. CASE Pop(t)
  <2>1. target[t] = t
    BY <1>13, InHand DEF Pop
  <2>2. CASE chan[t] # <<>>
    <3>1. Head(chan[t]) \in Msgs /\ Tail(chan[t]) \in Seq(Msgs)
      BY <1>a, <2>2, HeadTailProperties
    <3>2. /\ pc' = [pc EXCEPT ![t] = "got"] /\ msg' = [msg EXCEPT ![t] = Head(chan[t])]
          /\ target' = [target EXCEPT ![t] = NULL]
          /\ chan' = [chan EXCEPT ![t] = Tail(chan[t])]
      BY <1>13, <2>1, <2>2 DEF Pop, Call
    <3>3. UNCHANGED <<taskVars, qlive, heap, wild>>
      BY <1>13 DEF Pop
    <3> QED
      BY <1>a, <3>1, <3>2, <3>3 DEF PCs
  <2>3. CASE chan[t] = <<>>
    BY <1>13, <1>a, <2>1, <2>3 DEF Pop, Return, Call, PCs
  <2> QED
    BY <2>2, <2>3
<1> QED
  BY <1>0, <1>1, <1>2, <1>3, <1>4, <1>5, <1>6, <1>7, <1>8, <1>9, <1>10, <1>11, <1>12, <1>13,
     <1>14, <1>15
  DEF CreateStep, EndStep, SendStep, RecvStep

\* The first state satisfies the invariant.
LEMMA InitInv == Init => IInv
<1> SUFFICES ASSUME Init PROVE IInv
  OBVIOUS
<1> USE MessagingAssumption DEF Init, Threads
<1>1. TypeOK
  <2>1. registry \in Seq(Threads) /\ chan \in [Threads -> Seq(Msgs)]
    BY EmptySeq
  <2>2. /\ life \in [Threads -> Lives] /\ pc \in [Threads -> PCs]
        /\ name \in [Threads -> Names \cup {MainName, NULL}]
        /\ tid \in [Threads -> Tids \cup {MainTid, NULL}]
    BY DEF Lives, PCs
  <2>3. /\ hasq \in [Threads -> BOOLEAN] /\ qlive \in [Threads -> BOOLEAN]
        /\ heap \in [Msgs -> Names \cup {NULL}]
        /\ msg \in [Threads -> Msgs \cup {NULL}]
        /\ target \in [Threads -> Threads \cup {NULL}]
        /\ wild \in BOOLEAN
    OBVIOUS
  <2> QED
    BY <2>1, <2>2, <2>3 DEF TypeOK
<1>2. CallInv
  BY DEF CallInv, Handles
<1>3. ListInv
  BY DEF ListInv, Listed
<1>4. TidInv /\ QueueInv
  BY DEF TidInv, QueueInv
<1>5. MsgInv /\ NameInv
  BY DEF MsgInv, NameInv, InQueue
<1> QED
  BY <1>1, <1>2, <1>3, <1>4, <1>5 DEF IInv

\* A step on no task, or one that leaves its place in the list alone.
LEMMA ListUntouched ==
  ASSUME ListInv, UNCHANGED registry,
         \A t \in Threads : life'[t] \in Listed <=> life[t] \in Listed
  PROVE  ListInv'
BY DEF ListInv

\* The list keeps up with the lives of tasks.
LEMMA ListStep ==
  ASSUME IInv, Next
  PROVE  ListInv'
<1>0. PICK t \in Threads : CreateStep(t) \/ EndStep(t) \/ SendStep(t) \/ RecvStep(t)
  BY DEF Next
<1>a. TypeOK /\ ListInv /\ CallInv /\ Tasks \subseteq Threads
  BY DEF IInv, Threads
<1>b. Len(registry) \in Nat /\ DOMAIN registry = 1 .. Len(registry)
  BY <1>a, LenProperties DEF TypeOK
<1>1. ASSUME NEW u \in Tasks, NEW n \in Names, NEW async \in BOOLEAN, Create(t, u, n, async)
      PROVE  ListInv'
  <2>1. /\ DOMAIN registry' = 1 .. Len(registry) + 1
        /\ registry'[Len(registry) + 1] = u
        /\ \A i \in DOMAIN registry : registry'[i] = registry[i]
    BY <1>1, <1>a, AppendProperties, LenProperties DEF Create, TypeOK
  <2>2. /\ life[u] = "none" /\ life'[u] = "listed"
        /\ \A v \in Threads \ {u} : life'[v] = life[v]
    BY <1>1, <1>a DEF Create, TypeOK
  <2>3. \A i \in DOMAIN registry : registry[i] # u
    BY <1>a, <2>2 DEF ListInv, Listed
  <2>4. \A i \in DOMAIN registry' : i \in DOMAIN registry \/ i = Len(registry) + 1
    BY <1>b, <2>1
  <2>5. Len(registry) + 1 \in DOMAIN registry' /\ \A i \in DOMAIN registry : i \in DOMAIN registry'
    BY <1>b, <2>1
  <2>6. \A i, j \in DOMAIN registry' : registry'[i] = registry'[j] => i = j
    BY <1>a, <2>1, <2>3, <2>4 DEF ListInv
  <2>7. \A v \in Threads :
          (\E i \in DOMAIN registry' : registry'[i] = v)
          <=> v = u \/ \E i \in DOMAIN registry : registry[i] = v
    BY <2>1, <2>4, <2>5
  <2>8. \A v \in Threads : life'[v] \in Listed <=> v = u \/ life[v] \in Listed
    BY <2>2 DEF Listed
  <2> QED
    BY <1>a, <2>6, <2>7, <2>8 DEF ListInv
<1>2. CASE Start(t) \/ StartFails(t)
  BY <1>2, <1>a, ListUntouched DEF Start, StartFails, CallInv, TypeOK, Listed
<1>3. CASE Routine(t) \/ FunctionReturns(t)
  BY <1>3, <1>a, ListUntouched DEF Routine, FunctionReturns, Idle, TypeOK, Listed
<1>4. ASSUME NEW u \in Tasks, FreeQueue(t, u) \/ ClearQueue(t, u) \/ FreeTask(t, u)
      PROVE  ListInv'
  BY <1>4, <1>a, ListUntouched DEF FreeQueue, ClearQueue, FreeTask, Advance, TypeOK, Listed
<1>5. ASSUME NEW u \in Tasks, Unlist(t, u) PROVE ListInv'
  <2>1. PICK k \in DOMAIN registry : registry[k] = u /\ registry' = Removed(registry, k)
    BY <1>5 DEF Unlist, Removed
  <2>2. /\ DOMAIN registry' = 1 .. Len(registry) - 1
        /\ \A j \in DOMAIN registry' :
              registry'[j] = IF j < k THEN registry[j] ELSE registry[j + 1]
    <3>1. /\ Removed(registry, k) \in Seq(Threads)
          /\ Len(Removed(registry, k)) = Len(registry) - 1
          /\ \A j \in 1 .. Len(registry) - 1 :
                Removed(registry, k)[j] = IF j < k THEN registry[j] ELSE registry[j + 1]
      BY <1>a, Removal DEF TypeOK
    <3>2. DOMAIN Removed(registry, k) = 1 .. Len(registry) - 1
      BY <3>1, LenProperties
    <3> QED
      BY <2>1, <3>1, <3>2
  <2>3. /\ life'[u] = "unlisted" /\ \A v \in Threads \ {u} : life'[v] = life[v]
    BY <1>5, <1>a DEF Unlist, Advance, TypeOK
  <2>4. ASSUME NEW i \in DOMAIN registry', NEW j \in DOMAIN registry',
               registry'[i] = registry'[j]
        PROVE  i = j
    <3> DEFINE from(x) == IF x < k THEN x ELSE x + 1
    <3>1. /\ from(i) \in DOMAIN registry /\ registry'[i] = registry[from(i)]
          /\ from(j) \in DOMAIN registry /\ registry'[j] = registry[from(j)]
      BY <1>b, <2>1, <2>2
    <3>2. from(i) = from(j)
      <4> HIDE DEF from
      <4> QED
        BY <1>a, <2>4, <3>1 DEF ListInv
    <3> QED
      BY <1>b, <2>1, <2>2, <3>2
  <2>5. ASSUME NEW v \in Threads
        PROVE  (\E i \in DOMAIN registry' : registry'[i] = v)
               <=> v # u /\ \E i \in DOMAIN registry : registry[i] = v
    <3>1. ASSUME NEW i \in DOMAIN registry', registry'[i] = v
          PROVE  v # u /\ \E j \in DOMAIN registry : registry[j] = v
      <4>1. CASE i < k
        <5>1. i \in DOMAIN registry /\ registry[i] = v
          BY <1>b, <2>1, <2>2, <3>1, <4>1
        <5>2. i # k
          BY <1>b, <2>1, <4>1
        <5> QED
          BY <1>a, <2>1, <5>1, <5>2 DEF ListInv
      <4>2. CASE ~(i < k)
        <5>1. i + 1 \in DOMAIN registry /\ registry[i + 1] = v
          BY <1>b, <2>1, <2>2, <3>1, <4>2
        <5>2. i + 1 # k
          BY <1>b, <2>1, <2>2, <4>2
        <5> QED
          BY <1>a, <2>1, <5>1, <5>2 DEF ListInv
      <4> QED
        BY <4>1, <4>2
    <3>2. ASSUME v # u, NEW j \in DOMAIN registry, registry[j] = v
          PROVE  \E i \in DOMAIN registry' : registry'[i] = v
      <4>1. j # k
        BY <2>1, <3>2
      <4>2. CASE j < k
        <5>1. j \in DOMAIN registry' /\ registry'[j] = v
          BY <1>b, <2>1, <2>2, <3>2, <4>2
        <5> QED
          BY <5>1
      <4>3. CASE j > k
        <5>1. j - 1 \in DOMAIN registry' /\ ~(j - 1 < k) /\ (j - 1) + 1 = j
          BY <1>b, <2>1, <2>2, <4>3
        <5>2. registry'[j - 1] = v
          BY <2>2, <3>2, <5>1
        <5> QED
          BY <5>1, <5>2
      <4> QED
        BY <1>b, <2>1, <4>1, <4>2, <4>3
    <3> QED
      BY <3>1, <3>2
  <2>6. \A v \in Threads : life'[v] \in Listed <=> v # u /\ life[v] \in Listed
    BY <2>3 DEF Listed
  <2> QED
    BY <1>a, <2>4, <2>5, <2>6 DEF ListInv
<1>6. CASE SendStep(t) \/ RecvStep(t)
  BY <1>6, <1>a, ListUntouched
  DEF SendStep, RecvStep, Compose, Lookup, LookupFails, Push, PushFreed, Wait, SpuriousWake,
      Pop, FreeMsg, taskVars
<1> QED
  BY <1>0, <1>1, <1>2, <1>3, <1>4, <1>5, <1>6 DEF CreateStep, EndStep

\* No two threads have one tid: __os_task_routine takes one that nobody has.
LEMMA TidStep ==
  ASSUME IInv, Next
  PROVE  TidInv'
<1>0. PICK t \in Threads : CreateStep(t) \/ EndStep(t) \/ SendStep(t) \/ RecvStep(t)
  BY DEF Next
<1>a. TypeOK /\ TidInv /\ CallInv /\ Tasks \subseteq Threads
  BY DEF IInv, Threads
<1>1. ASSUME UNCHANGED tid,
             \A u \in Threads : life'[u] = "running" => life[u] = "running"
      PROVE  TidInv'
  BY <1>1, <1>a DEF TidInv
<1>2. CASE Routine(t)
  <2>1. PICK i \in FreeTids : tid' = [tid EXCEPT ![t] = i]
    BY <1>2 DEF Routine
  <2>2. i # NULL /\ \A u \in Threads : tid[u] # i
    BY MessagingAssumption DEF FreeTids
  <2>3. /\ tid'[t] = i /\ life' = [life EXCEPT ![t] = "running"]
        /\ \A u \in Threads \ {t} : tid'[u] = tid[u] /\ life'[u] = life[u]
    BY <1>2, <1>a, <2>1 DEF Routine, TypeOK
  <2> QED
    BY <1>a, <2>2, <2>3 DEF TidInv
<1>3. ASSUME NEW u \in Tasks, FreeTask(t, u) PROVE TidInv'
  BY <1>3, <1>a DEF FreeTask, Advance, TypeOK, TidInv
<1>4. ASSUME NEW u \in Tasks, NEW n \in Names, NEW async \in BOOLEAN, Create(t, u, n, async)
      PROVE  TidInv'
  BY <1>4, <1>1, <1>a DEF Create, TypeOK
<1>5. CASE Start(t) \/ StartFails(t) \/ FunctionReturns(t)
  BY <1>5, <1>1, <1>a DEF Start, StartFails, FunctionReturns, CallInv, TypeOK
<1>6. ASSUME NEW u \in Tasks, FreeQueue(t, u) \/ ClearQueue(t, u) \/ Unlist(t, u)
      PROVE  TidInv'
  BY <1>6, <1>1, <1>a DEF FreeQueue, ClearQueue, Unlist, Advance, TypeOK
<1>7. CASE SendStep(t) \/ RecvStep(t)
  BY <1>7, <1>1
  DEF SendStep, RecvStep, Compose, Lookup, LookupFails, Push, PushFreed, Wait, SpuriousWake,
      Pop, FreeMsg, taskVars
<1> QED
  BY <1>0, <1>2, <1>3, <1>4, <1>5, <1>6, <1>7 DEF CreateStep, EndStep

\* A step inside a call, or the return from one, of a running thread.
LEMMA CallUntouched ==
  ASSUME CallInv, UNCHANGED life,
         \A t \in Threads : \/ pc'[t] = pc[t] /\ target'[t] = target[t]
                            \/ pc'[t] = "idle"
                            \/ pc'[t] \notin {"exit", "create", "undo"} /\ life[t] = "running"
  PROVE  CallInv'
BY DEF CallInv, Handles

\* A task is in the hands of one thread while it is created, and while it ends.
LEMMA CallStep ==
  ASSUME IInv, Next
  PROVE  CallInv'
<1>0. PICK t \in Threads : CreateStep(t) \/ EndStep(t) \/ SendStep(t) \/ RecvStep(t)
  BY DEF Next
<1>a. TypeOK /\ CallInv /\ Tasks \subseteq Threads /\ Main \in Threads /\ Main \notin Tasks
  BY MessagingAssumption DEF IInv, Threads
<1>1. ASSUME NEW u \in Tasks, NEW n \in Names, NEW async \in BOOLEAN, Create(t, u, n, async)
      PROVE  CallInv'
  <2>1. /\ life[t] = "running" /\ pc[t] = "idle" /\ life[u] = "none" /\ life'[u] = "listed"
        /\ pc'[t] = "create" /\ target'[t] = u
        /\ \A v \in Threads \ {u} : life'[v] = life[v]
        /\ \A v \in Threads \ {t} : pc'[v] = pc[v] /\ target'[v] = target[v]
    BY <1>1, <1>a DEF Create, Idle, Call, TypeOK
  <2>2. \A v \in Threads : ~Handles(v, u)
    BY <1>a, <2>1 DEF CallInv, Handles, Ending
  <2> QED
    BY <1>a, <2>1, <2>2 DEF CallInv, Handles, Ending
<1>2. CASE Start(t)
  <2>1. /\ pc[t] = "create" /\ target[t] \in Tasks /\ life[target[t]] = "listed"
        /\ pc'[t] = "idle" /\ life'[target[t]] = "started"
        /\ \A v \in Threads \ {target[t]} : life'[v] = life[v]
        /\ \A v \in Threads \ {t} : pc'[v] = pc[v] /\ target'[v] = target[v]
    BY <1>2, <1>a DEF Start, Return, Call, TypeOK, CallInv
  <2>2. \A v \in Threads : Handles(v, target[t]) => v = t
    BY <1>a, <2>1 DEF CallInv, Handles
  <2> QED
    BY <1>a, <2>1, <2>2 DEF CallInv, Handles, Ending
<1>3. CASE StartFails(t)
  <2>1. /\ pc[t] = "create" /\ target[t] \in Tasks /\ life[target[t]] = "listed"
        /\ pc'[t] = "undo" /\ life'[target[t]] = "ended" /\ UNCHANGED target
        /\ \A v \in Threads \ {target[t]} : life'[v] = life[v]
        /\ \A v \in Threads \ {t} : pc'[v] = pc[v]
    BY <1>3, <1>a DEF StartFails, TypeOK, CallInv
  <2>2. \A v \in Threads : Handles(v, target[t]) => v = t
    BY <1>a, <2>1 DEF CallInv, Handles
  <2> QED
    BY <1>a, <2>1, <2>2 DEF CallInv, Handles, Ending
<1>4. CASE Routine(t)
  <2>1. /\ life[t] = "started" /\ life'[t] = "running" /\ UNCHANGED <<pc, target>>
        /\ \A v \in Threads \ {t} : life'[v] = life[v]
    BY <1>4, <1>a DEF Routine, TypeOK, callVars
  <2> QED
    BY <1>a, <2>1 DEF CallInv, Handles, Ending
<1>5. CASE FunctionReturns(t)
  <2>1. /\ t # Main /\ life[t] = "running" /\ pc[t] = "idle"
        /\ life'[t] = "ended" /\ pc'[t] = "exit" /\ UNCHANGED target
        /\ \A v \in Threads \ {t} : life'[v] = life[v] /\ pc'[v] = pc[v]
    BY <1>5, <1>a DEF FunctionReturns, Idle, TypeOK
  <2>2. \A v \in Threads : ~Handles(v, t)
    BY <1>a, <2>1 DEF CallInv, Handles, Ending
  <2> QED
    BY <1>a, <2>1, <2>2 DEF CallInv, Handles, Ending
<1>6. ASSUME NEW u \in Tasks, FreeQueue(t, u) \/ ClearQueue(t, u) \/ Unlist(t, u)
      PROVE  CallInv'
  <2>1. /\ life[u] \in Ending /\ life'[u] \in Ending /\ UNCHANGED <<pc, target>>
        /\ \A v \in Threads \ {u} : life'[v] = life[v]
    BY <1>6, <1>a DEF FreeQueue, ClearQueue, Unlist, Advance, TypeOK, callVars, Ending
  <2> QED
    BY <1>a, <2>1 DEF CallInv, Handles, Ending
<1>7. ASSUME NEW u \in Tasks, FreeTask(t, u) PROVE CallInv'
  <2>1. /\ Handles(t, u) /\ life[u] = "unlisted" /\ life'[u] = "freed" /\ pc'[t] = "idle"
        /\ \A v \in Threads \ {u} : life'[v] = life[v]
        /\ \A v \in Threads \ {t} : pc'[v] = pc[v] /\ target'[v] = target[v]
    BY <1>7, <1>a DEF FreeTask, Advance, Ends, Handles, Return, Call, TypeOK
  <2>2. \A v \in Threads : Handles(v, u) => v = t
    BY <1>a, <2>1 DEF CallInv
  <2> QED
    BY <1>a, <2>1, <2>2 DEF CallInv, Handles, Ending
<1>8. CASE SendStep(t)
  <2>1. life[t] = "running" /\ UNCHANGED life
    BY <1>8, <1>a
    DEF SendStep, Compose, Lookup, LookupFails, Push, PushFreed, Idle, taskVars, CallInv
  <2>2. CASE Push(t)
    <3>1. \A v \in Threads \ {t} : target'[v] = target[v]
      BY <2>2, <1>a DEF Push, TypeOK
    <3>2. /\ pc'[t] = "idle"
          /\ \A v \in Threads \ {t} : pc'[v] = pc[v] \/ (pc[v] = "blocked" /\ pc'[v] = "woken")
      BY <2>2, <1>a DEF Push, Blocked, TypeOK
    <3>3. \A v \in Threads : pc[v] = "blocked" => life[v] = "running"
      BY <1>a DEF CallInv
    <3> QED
      BY <1>a, <2>1, <3>1, <3>2, <3>3, CallUntouched
  <2>3. ASSUME ~Push(t)
        PROVE  \A v \in Threads :
                  \/ pc'[v] = pc[v] /\ target'[v] = target[v]
                  \/ v = t /\ pc'[v] \in {"lookup", "push", "idle"}
    BY <1>8, <1>a, <2>3
    DEF SendStep, Compose, Lookup, LookupFails, PushFreed, Return, Call, callVars, TypeOK
  <2> QED
    BY <1>a, <2>1, <2>2, <2>3, CallUntouched
<1>9. CASE RecvStep(t)
  <2>1. life[t] = "running" /\ UNCHANGED life
    BY <1>9, <1>a DEF RecvStep, Wait, SpuriousWake, Pop, FreeMsg, Idle, taskVars, CallInv
  <2>2. \A v \in Threads :
          \/ pc'[v] = pc[v] /\ target'[v] = target[v]
          \/ v = t /\ pc'[v] \in {"blocked", "woken", "got", "idle"}
    BY <1>9, <1>a DEF RecvStep, Wait, SpuriousWake, Pop, FreeMsg, Return, Call, TypeOK
  <2> QED
    BY <1>a, <2>1, <2>2, CallUntouched
<1> QED
  BY <1>0, <1>1, <1>2, <1>3, <1>4, <1>5, <1>6, <1>7, <1>8, <1>9 DEF CreateStep, EndStep

\* A task has its queue from its creation to its end, and waits for no other.
LEMMA QueueStep ==
  ASSUME IInv, Next
  PROVE  QueueInv'
<1>0. PICK t \in Threads : CreateStep(t) \/ EndStep(t) \/ SendStep(t) \/ RecvStep(t)
  BY DEF Next
<1>a. TypeOK /\ CallInv /\ QueueInv /\ Tasks \subseteq Threads
  BY DEF IInv, Threads
<1>1. ASSUME UNCHANGED <<hasq, qlive>>,
             \A u \in Threads : life'[u] \in WithQueue <=> life[u] \in WithQueue,
             \A u \in Threads : pc'[u] \in {"blocked", "woken"}
                                => pc[u] \in {"blocked", "woken"} /\ target'[u] = target[u]
      PROVE  QueueInv'
  BY <1>1, <1>a DEF QueueInv
<1>2. ASSUME NEW u \in Tasks, NEW n \in Names, NEW async \in BOOLEAN, Create(t, u, n, async)
      PROVE  QueueInv'
  <2>1. /\ life[u] = "none" /\ life'[u] = "listed" /\ pc'[t] = "create"
        /\ hasq'[u] = async /\ qlive'[u] = async
        /\ \A v \in Threads \ {u} : life'[v] = life[v] /\ hasq'[v] = hasq[v] /\ qlive'[v] = qlive[v]
        /\ \A v \in Threads \ {t} : pc'[v] = pc[v] /\ target'[v] = target[v]
    BY <1>2, <1>a DEF Create, Call, TypeOK
  <2> QED
    BY <1>a, <2>1 DEF QueueInv, CallInv, WithQueue
<1>3. CASE Start(t) \/ StartFails(t)
  BY <1>3, <1>1, <1>a DEF Start, StartFails, Return, Call, CallInv, TypeOK, WithQueue
<1>4. CASE Routine(t) \/ FunctionReturns(t)
  BY <1>4, <1>1, <1>a DEF Routine, FunctionReturns, Idle, callVars, TypeOK, WithQueue
<1>5. ASSUME NEW u \in Tasks, FreeQueue(t, u) PROVE QueueInv'
  <2>1. /\ life[u] = "ended" /\ life'[u] = "queue_freed" /\ qlive'[u] = FALSE
        /\ UNCHANGED <<hasq, pc, target>>
        /\ \A v \in Threads \ {u} : life'[v] = life[v] /\ qlive'[v] = qlive[v]
    BY <1>5, <1>a DEF FreeQueue, Advance, callVars, TypeOK
  <2> QED
    BY <1>a, <2>1 DEF QueueInv, CallInv, WithQueue
<1>6. ASSUME NEW u \in Tasks, ClearQueue(t, u) PROVE QueueInv'
  <2>1. /\ life[u] = "queue_freed" /\ life'[u] = "queue_null" /\ hasq'[u] = FALSE
        /\ UNCHANGED <<qlive, pc, target>>
        /\ \A v \in Threads \ {u} : life'[v] = life[v] /\ hasq'[v] = hasq[v]
    BY <1>6, <1>a DEF ClearQueue, Advance, callVars, TypeOK
  <2> QED
    BY <1>a, <2>1 DEF QueueInv, WithQueue
<1>7. ASSUME NEW u \in Tasks, Unlist(t, u) \/ FreeTask(t, u) PROVE QueueInv'
  BY <1>7, <1>1, <1>a
  DEF Unlist, FreeTask, Advance, Return, Call, callVars, TypeOK, WithQueue
<1>8. CASE SendStep(t)
  <2>1. UNCHANGED <<hasq, qlive, life>>
    BY <1>8 DEF SendStep, Compose, Lookup, LookupFails, Push, PushFreed, taskVars
  <2>2. CASE Push(t)
    BY <2>1, <2>2, <1>1, <1>a DEF Push, Blocked, TypeOK
  <2>3. CASE ~Push(t)
    <3>1. \A v \in Threads :
            \/ pc'[v] = pc[v] /\ target'[v] = target[v]
            \/ pc'[v] \in {"lookup", "push", "idle"}
      BY <1>8, <1>a, <2>3
      DEF SendStep, Compose, Lookup, LookupFails, PushFreed, Return, Call, callVars, TypeOK
    <3> QED
      BY <2>1, <3>1, <1>1
  <2> QED
    BY <2>2, <2>3
<1>9. CASE Wait(t)
  <2>1. life[t] = "running" /\ AqSelf(t) = t
    BY <1>9, AqSelfFinds DEF IInv, Wait, Idle
  <2>2. hasq[t] /\ qlive[t]
    BY <1>9, <1>a, <2>1 DEF Wait, HasQueue, QueueInv, WithQueue
  <2>3. /\ target'[t] = t /\ UNCHANGED <<hasq, qlive, life>>
        /\ \A v \in Threads \ {t} : pc'[v] = pc[v] /\ target'[v] = target[v]
    BY <1>9, <1>a, <2>1 DEF Wait, Call, TypeOK, taskVars
  <2> QED
    BY <1>a, <2>2, <2>3 DEF QueueInv
<1>10. CASE SpuriousWake(t) \/ Pop(t) \/ FreeMsg(t)
  BY <1>10, <1>1, <1>a DEF SpuriousWake, Pop, FreeMsg, Return, Call, taskVars, TypeOK
<1> QED
  BY <1>0, <1>2, <1>3, <1>4, <1>5, <1>6, <1>7, <1>8, <1>9, <1>10
  DEF CreateStep, EndStep, RecvStep

-----------------------------------------------------------------------------
(* Messages *)

\* The thread and the queues keep what they have.
LEMMA MsgUntouched ==
  ASSUME MsgInv, UNCHANGED <<msg, chan, heap>>,
         \A t \in Threads : pc'[t] \in {"lookup", "push", "got"}
                           <=> pc[t] \in {"lookup", "push", "got"}
  PROVE  MsgInv'
BY DEF MsgInv, InQueue

\* Thread t frees the message it has in hand.
LEMMA MsgFreed ==
  ASSUME IInv, NEW t \in Threads, pc[t] \in {"lookup", "push", "got"}, UNCHANGED chan,
         heap' = [heap EXCEPT ![msg[t]] = NULL], Return(t)
  PROVE  MsgInv'
<1>1. TypeOK /\ MsgInv /\ msg[t] \in Msgs
  BY InHand DEF IInv
<1>2. /\ msg'[t] = NULL /\ pc'[t] = "idle"
      /\ \A v \in Threads \ {t} : msg'[v] = msg[v] /\ pc'[v] = pc[v]
      /\ heap'[msg[t]] = NULL /\ \A m \in Msgs \ {msg[t]} : heap'[m] = heap[m]
  BY <1>1 DEF Return, Call, TypeOK
<1>3. NULL \notin Msgs /\ \A u \in Threads : \A i \in DOMAIN chan[u] : chan[u][i] \in Msgs
  BY <1>1, LenProperties, MessagingAssumption DEF TypeOK
<1>4. \A u \in Threads : InQueue(u)' = InQueue(u) /\ msg[t] \notin InQueue(u)
  BY <1>1 DEF MsgInv, InQueue
<1>5. ASSUME NEW m \in Msgs
      PROVE  heap'[m] # NULL <=> \/ \E v \in Threads : msg'[v] = m
                                 \/ \E u \in Threads : m \in InQueue(u)'
  <2>1. CASE m = msg[t]
    BY <1>1, <1>2, <1>3, <1>4, <2>1 DEF MsgInv
  <2>2. CASE m # msg[t]
    <3>1. (\E v \in Threads : msg'[v] = m) <=> (\E v \in Threads : msg[v] = m)
      BY <1>2, <1>3, <2>2
    <3> QED
      BY <1>1, <1>2, <1>4, <2>2, <3>1 DEF MsgInv
  <2> QED
    BY <2>1, <2>2
<1>6. \A v \in Threads : msg'[v] # NULL <=> pc'[v] \in {"lookup", "push", "got"}
  BY <1>1, <1>2 DEF MsgInv
<1>7. \A u, v \in Threads : msg'[u] = msg'[v] /\ msg'[u] # NULL => u = v
  BY <1>1, <1>2 DEF MsgInv
<1>8. \A v, u \in Threads : \A i \in DOMAIN chan'[u] : msg'[v] # chan'[u][i]
  BY <1>1, <1>2, <1>3 DEF MsgInv
<1> QED
  BY <1>1, <1>5, <1>6, <1>7, <1>8 DEF MsgInv

\* os_msg_send allocates at an address nobody uses.
LEMMA MsgComposed ==
  ASSUME IInv, NEW t \in Threads, NEW m \in Msgs, NEW n \in Names, Compose(t, m, n)
  PROVE  MsgInv'
<1>1. TypeOK /\ MsgInv
  BY DEF IInv
<1>2. /\ msg'[t] = m /\ pc'[t] = "lookup" /\ UNCHANGED chan
      /\ \A v \in Threads \ {t} : msg'[v] = msg[v] /\ pc'[v] = pc[v]
      /\ heap[m] = NULL /\ heap'[m] = n /\ \A x \in Msgs \ {m} : heap'[x] = heap[x]
  BY <1>1 DEF Compose, Call, TypeOK
<1>3. m # NULL /\ n # NULL /\ msg[t] = NULL
  BY <1>1, MessagingAssumption DEF Compose, Idle, MsgInv
<1>4. /\ \A u \in Threads : InQueue(u)' = InQueue(u) /\ m \notin InQueue(u)
      /\ \A v \in Threads : msg[v] # m
      /\ \A u \in Threads : \A i \in DOMAIN chan[u] : chan[u][i] # m
  BY <1>1, <1>2 DEF MsgInv, InQueue
<1>5. ASSUME NEW x \in Msgs
      PROVE  heap'[x] # NULL <=> \/ \E v \in Threads : msg'[v] = x
                                 \/ \E u \in Threads : x \in InQueue(u)'
  <2>1. CASE x = m
    BY <1>2, <1>3, <2>1
  <2>2. CASE x # m
    <3>1. NULL \notin Msgs
      BY MessagingAssumption
    <3>2. (\E v \in Threads : msg'[v] = x) <=> (\E v \in Threads : msg[v] = x)
      BY <1>2, <1>3, <2>2, <3>1
    <3> QED
      BY <1>1, <1>2, <1>4, <2>2, <3>2 DEF MsgInv
  <2> QED
    BY <2>1, <2>2
<1>6. \A v \in Threads : msg'[v] # NULL <=> pc'[v] \in {"lookup", "push", "got"}
  BY <1>1, <1>2, <1>3 DEF MsgInv
<1>7. \A u, v \in Threads : msg'[u] = msg'[v] /\ msg'[u] # NULL => u = v
  BY <1>1, <1>2, <1>4 DEF MsgInv
<1>8. \A v, u \in Threads : \A i \in DOMAIN chan'[u] : msg'[v] # chan'[u][i]
  BY <1>1, <1>2, <1>4 DEF MsgInv
<1> QED
  BY <1>1, <1>2, <1>5, <1>6, <1>7, <1>8 DEF MsgInv

\* os_async_queue_free frees what the queue holds, and nothing else.
LEMMA QueueFreed ==
  ASSUME IInv, NEW t \in Threads, NEW u \in Tasks, FreeQueue(t, u)
  PROVE  MsgInv'
<1>1. TypeOK /\ MsgInv /\ u \in Threads
  BY DEF IInv, Threads
<1>2. /\ chan'[u] = <<>> /\ UNCHANGED <<msg, pc>>
      /\ \A v \in Threads \ {u} : chan'[v] = chan[v]
      /\ \A m \in Msgs : heap'[m] = IF m \in InQueue(u) THEN NULL ELSE heap[m]
  BY <1>1 DEF FreeQueue, TypeOK, callVars
<1>3. InQueue(u)' = {} /\ \A v \in Threads \ {u} : InQueue(v)' = InQueue(v)
  BY <1>2 DEF InQueue
<1>4. \A v \in Threads \ {u} : \A m \in InQueue(v) : m \notin InQueue(u)
  BY <1>1 DEF MsgInv, InQueue
<1>5. \A v \in Threads : msg[v] \notin InQueue(u)
  BY <1>1 DEF MsgInv, InQueue
<1>6. \A m \in Msgs :
        heap'[m] # NULL <=> \/ \E v \in Threads : msg'[v] = m
                            \/ \E v \in Threads : m \in InQueue(v)'
  BY <1>1, <1>2, <1>3, <1>4, <1>5 DEF MsgInv
<1>7. \A v \in Threads : \A i \in DOMAIN chan'[v] : v # u
  BY <1>2
<1>8. \A v, w \in Threads : \A i \in DOMAIN chan'[v], j \in DOMAIN chan'[w] :
        chan'[v][i] = chan'[w][j] => v = w /\ i = j
  BY <1>1, <1>2, <1>7 DEF MsgInv
<1>9. \A v, w \in Threads : \A i \in DOMAIN chan'[w] : msg'[v] # chan'[w][i]
  BY <1>1, <1>2, <1>7 DEF MsgInv
<1> QED
  BY <1>1, <1>2, <1>6, <1>8, <1>9 DEF MsgInv

\* A push moves the message from its sender to the end of the queue.
LEMMA MsgPushed ==
  ASSUME IInv, NEW t \in Threads, Push(t)
  PROVE  MsgInv'
<1>0. PICK q \in Threads, m \in Msgs : q = target[t] /\ m = msg[t]
  BY InHand DEF Push
<1>1. TypeOK /\ MsgInv /\ m # NULL
  BY MessagingAssumption DEF IInv
<1>2. /\ pc[t] = "push" /\ pc'[t] = "idle" /\ msg'[t] = NULL /\ UNCHANGED heap
      /\ \A v \in Threads \ {t} : msg'[v] = msg[v]
      /\ \A v \in Threads \ {t} : pc'[v] = pc[v] \/ (pc[v] = "blocked" /\ pc'[v] = "woken")
  BY <1>0, <1>1 DEF Push, Blocked, TypeOK
<1>3. /\ chan'[q] = Append(chan[q], m)
      /\ \A u \in Threads \ {q} : chan'[u] = chan[u]
  BY <1>0, <1>1 DEF Push, TypeOK
<1>4. /\ Len(chan[q]) \in Nat /\ DOMAIN chan[q] = 1 .. Len(chan[q])
      /\ DOMAIN chan'[q] = 1 .. Len(chan[q]) + 1
      /\ chan'[q][Len(chan[q]) + 1] = m
      /\ \A i \in DOMAIN chan[q] : chan'[q][i] = chan[q][i]
  BY <1>1, <1>3, AppendProperties, LenProperties DEF TypeOK
<1>5. \A u \in Threads : \A i \in DOMAIN chan'[u] :
        \/ i \in DOMAIN chan[u] /\ chan'[u][i] = chan[u][i]
        \/ u = q /\ i = Len(chan[q]) + 1 /\ chan'[u][i] = m
  BY <1>3, <1>4
<1>6. \A u \in Threads : \A i \in DOMAIN chan[u] : i \in DOMAIN chan'[u] /\ chan'[u][i] = chan[u][i]
  BY <1>3, <1>4
<1>7. Len(chan[q]) + 1 \in DOMAIN chan'[q]
  BY <1>4
<1>8. \A u \in Threads : \A i \in DOMAIN chan[u] : chan[u][i] # m
  BY <1>0, <1>1 DEF MsgInv
<1>9. ASSUME NEW x \in Msgs
      PROVE  heap'[x] # NULL <=> \/ \E v \in Threads : msg'[v] = x
                                 \/ \E u \in Threads : x \in InQueue(u)'
  <2>1. (\E u \in Threads : x \in InQueue(u)') <=> x = m \/ \E u \in Threads : x \in InQueue(u)
    <3>1. \A u \in Threads : x \in InQueue(u)' => x = m \/ x \in InQueue(u)
      BY <1>5 DEF InQueue
    <3>2. \A u \in Threads : x \in InQueue(u) => x \in InQueue(u)'
      BY <1>6 DEF InQueue
    <3>3. m \in InQueue(q)'
      BY <1>4, <1>7 DEF InQueue
    <3> QED
      BY <1>1, <3>1, <3>2, <3>3
  <2>2. NULL \notin Msgs
    BY MessagingAssumption
  <2>3. (\E v \in Threads : msg'[v] = x) <=> x # m /\ \E v \in Threads : msg[v] = x
    BY <1>0, <1>1, <1>2, <2>2 DEF MsgInv
  <2>4. heap[m] # NULL
    BY <1>0, <1>1 DEF MsgInv
  <2> QED
    BY <1>1, <1>2, <2>1, <2>3, <2>4 DEF MsgInv
<1>10. \A v \in Threads : msg'[v] # NULL <=> pc'[v] \in {"lookup", "push", "got"}
  BY <1>0, <1>1, <1>2 DEF MsgInv
<1>11. \A u, v \in Threads : msg'[u] = msg'[v] /\ msg'[u] # NULL => u = v
  BY <1>0, <1>1, <1>2 DEF MsgInv
<1>12. ASSUME NEW v \in Threads, NEW u \in Threads, NEW i \in DOMAIN chan'[u]
       PROVE  msg'[v] # chan'[u][i]
  <2>1. v # t => msg'[v] = msg[v] /\ msg[v] # m
    BY <1>0, <1>1, <1>2 DEF MsgInv
  <2>2. chan'[u][i] # NULL
    BY <1>1, <1>5, LenProperties, MessagingAssumption DEF TypeOK
  <2> QED
    BY <1>1, <1>2, <1>5, <2>1, <2>2 DEF MsgInv
<1>13. ASSUME NEW u \in Threads, NEW v \in Threads,
              NEW i \in DOMAIN chan'[u], NEW j \in DOMAIN chan'[v], chan'[u][i] = chan'[v][j]
       PROVE  u = v /\ i = j
  <2>1. CASE chan'[u][i] = m
    <3>1. u = q /\ i = Len(chan[q]) + 1
      BY <1>5, <1>8, <2>1
    <3>2. chan'[v][j] = m
      BY <1>13, <2>1
    <3>3. v = q /\ j = Len(chan[q]) + 1
      BY <1>5, <1>8, <3>2
    <3> QED
      BY <3>1, <3>3
  <2>2. CASE chan'[u][i] # m
    <3>1. i \in DOMAIN chan[u] /\ chan'[u][i] = chan[u][i]
      BY <1>5, <2>2
    <3>2. chan'[v][j] # m
      BY <1>13, <2>2
    <3>3. j \in DOMAIN chan[v] /\ chan'[v][j] = chan[v][j]
      BY <1>5, <3>2
    <3>4. chan[u][i] = chan[v][j]
      BY <1>13, <3>1, <3>3
    <3> QED
      BY <1>1, <3>1, <3>3, <3>4 DEF MsgInv
  <2> QED
    BY <2>1, <2>2
<1> QED
  BY <1>9, <1>10, <1>11, <1>12, <1>13 DEF MsgInv

\* A pop moves the oldest message from the queue to its owner.
LEMMA MsgPopped ==
  ASSUME IInv, NEW t \in Threads, Pop(t), chan[t] # <<>>
  PROVE  MsgInv'
<1>1. TypeOK /\ MsgInv /\ target[t] = t /\ pc[t] = "woken"
  BY InHand DEF IInv, Pop
<1>2. /\ chan' = [chan EXCEPT ![t] = Tail(chan[t])] /\ UNCHANGED heap
      /\ pc' = [pc EXCEPT ![t] = "got"] /\ msg' = [msg EXCEPT ![t] = Head(chan[t])]
  BY <1>1 DEF Pop, Call
<1>3. /\ Len(chan[t]) \in Nat /\ DOMAIN chan[t] = 1 .. Len(chan[t])
      /\ DOMAIN chan'[t] = 1 .. Len(chan[t]) - 1 /\ 1 \in DOMAIN chan[t]
      /\ \A i \in DOMAIN chan'[t] : chan'[t][i] = chan[t][i + 1]
      /\ msg'[t] = chan[t][1] /\ chan[t][1] \in Msgs
  <2>1. chan[t] \in Seq(Msgs) /\ chan'[t] = Tail(chan[t]) /\ msg'[t] = Head(chan[t])
    BY <1>1, <1>2 DEF TypeOK
  <2>2. /\ Tail(chan[t]) \in Seq(Msgs) /\ Len(Tail(chan[t])) = Len(chan[t]) - 1
        /\ \A i \in 1 .. Len(Tail(chan[t])) : Tail(chan[t])[i] = chan[t][i + 1]
        /\ Head(chan[t]) = chan[t][1]
    BY <2>1, HeadTailProperties
  <2>3. Len(chan[t]) \in Nat \ {0} /\ DOMAIN chan[t] = 1 .. Len(chan[t])
    BY <2>1, EmptySeq, LenProperties
  <2>4. DOMAIN Tail(chan[t]) = 1 .. Len(chan[t]) - 1
    BY <2>2, LenProperties
  <2>5. chan[t][1] \in Msgs
    BY <2>1, <2>3
  <2> QED
    BY <2>1, <2>2, <2>3, <2>4, <2>5
<1>4. /\ \A v \in Threads \ {t} : chan'[v] = chan[v] /\ msg'[v] = msg[v] /\ pc'[v] = pc[v]
      /\ pc'[t] = "got"
  BY <1>1, <1>2 DEF TypeOK
<1> DEFINE from(u, i) == IF u = t THEN i + 1 ELSE i
<1>5. \A u \in Threads : \A i \in DOMAIN chan'[u] :
        /\ from(u, i) \in DOMAIN chan[u] /\ chan'[u][i] = chan[u][from(u, i)]
        /\ ~(u = t /\ from(u, i) = 1)
  BY <1>3, <1>4
<1>6. \A i \in DOMAIN chan[t] : i = 1 \/ (i - 1 \in DOMAIN chan'[t] /\ chan'[t][i - 1] = chan[t][i])
  <2> SUFFICES ASSUME NEW i \in DOMAIN chan[t], i # 1
               PROVE  i - 1 \in DOMAIN chan'[t] /\ chan'[t][i - 1] = chan[t][i]
    OBVIOUS
  <2>1. i - 1 \in DOMAIN chan'[t] /\ (i - 1) + 1 = i
    BY <1>3
  <2> QED
    BY <1>3, <2>1
<1>7. \A u \in Threads : \A i, j \in DOMAIN chan'[u] : from(u, i) = from(u, j) => i = j
  <2> SUFFICES ASSUME NEW u \in Threads, NEW i \in DOMAIN chan'[u], NEW j \in DOMAIN chan'[u],
                      from(u, i) = from(u, j)
               PROVE  i = j
    OBVIOUS
  <2>1. CASE u = t
    BY <1>3, <2>1
  <2> QED
    BY <2>1
<1> HIDE DEF from
<1>8. \A u \in Threads : \A i \in DOMAIN chan'[u] : chan'[u][i] # chan[t][1]
  BY <1>1, <1>3, <1>5 DEF MsgInv
<1>9. \A v \in Threads : msg[v] # chan[t][1]
  BY <1>1, <1>3 DEF MsgInv
<1>10. msg[t] = NULL /\ NULL \notin Msgs
  BY <1>1, MessagingAssumption DEF MsgInv
<1>11. \A v \in Threads : msg'[v] # NULL <=> pc'[v] \in {"lookup", "push", "got"}
  BY <1>1, <1>3, <1>4, <1>10 DEF MsgInv
<1>12. \A u, v \in Threads : msg'[u] = msg'[v] /\ msg'[u] # NULL => u = v
  BY <1>1, <1>3, <1>4, <1>9 DEF MsgInv
<1>13. \A v, u \in Threads : \A i \in DOMAIN chan'[u] : msg'[v] # chan'[u][i]
  <2>1. \A v \in Threads : msg'[v] = msg[v] \/ msg'[v] = chan[t][1]
    BY <1>3, <1>4
  <2> QED
    BY <1>1, <1>5, <1>8, <2>1 DEF MsgInv
<1>14. ASSUME NEW u \in Threads, NEW v \in Threads,
              NEW i \in DOMAIN chan'[u], NEW j \in DOMAIN chan'[v], chan'[u][i] = chan'[v][j]
       PROVE  u = v /\ i = j
  <2>1. u = v /\ from(u, i) = from(v, j)
    BY <1>1, <1>5, <1>14 DEF MsgInv
  <2> QED
    BY <1>7, <2>1
<1>15. ASSUME NEW x \in Msgs
       PROVE  heap'[x] # NULL <=> \/ \E v \in Threads : msg'[v] = x
                                  \/ \E u \in Threads : x \in InQueue(u)'
  <2>1. (\E v \in Threads : msg'[v] = x) <=> x = chan[t][1] \/ \E v \in Threads : msg[v] = x
    BY <1>3, <1>4, <1>10
  <2>2. (\E u \in Threads : x \in InQueue(u))
        <=> x = chan[t][1] \/ \E u \in Threads : x \in InQueue(u)'
    <3>1. \A u \in Threads : x \in InQueue(u)' => x \in InQueue(u)
      BY <1>5 DEF InQueue
    <3>2. \A u \in Threads : x \in InQueue(u) => x = chan[t][1] \/ x \in InQueue(u)'
      BY <1>4, <1>6 DEF InQueue
    <3>3. chan[t][1] \in InQueue(t)
      BY <1>3 DEF InQueue
    <3> QED
      BY <3>1, <3>2, <3>3
  <2> QED
    BY <1>1, <1>2, <2>1, <2>2 DEF MsgInv
<1> QED
  BY <1>11, <1>12, <1>13, <1>14, <1>15 DEF MsgInv

\* A message stays in one place until it is freed.
LEMMA MsgStep ==
  ASSUME IInv, Next
  PROVE  MsgInv'
<1>0. PICK t \in Threads : CreateStep(t) \/ EndStep(t) \/ SendStep(t) \/ RecvStep(t)
  BY DEF Next
<1>a. TypeOK /\ MsgInv /\ CallInv
  BY DEF IInv
<1>1. ASSUME pc[t] \notin {"lookup", "push", "got"}, UNCHANGED <<chan, heap>>,
             \A v \in Threads \ {t} : pc'[v] = pc[v],
             \/ UNCHANGED msg
             \/ msg' = [msg EXCEPT ![t] = NULL],
             pc'[t] \notin {"lookup", "push", "got"}
      PROVE  MsgInv'
  <2>1. UNCHANGED msg
    BY <1>1, <1>a DEF MsgInv, TypeOK
  <2> QED
    BY <1>1, <1>a, <2>1, MsgUntouched
<1>2. ASSUME NEW u \in Tasks, NEW n \in Names, NEW async \in BOOLEAN, Create(t, u, n, async)
      PROVE  MsgInv'
  BY <1>2, <1>1, <1>a DEF Create, Idle, Call, TypeOK
<1>3. CASE Start(t) \/ StartFails(t) \/ Routine(t) \/ FunctionReturns(t)
  <2>1. CASE Start(t)
    BY <2>1, <1>1, <1>a DEF Start, Return, Call, TypeOK
  <2>2. CASE StartFails(t) \/ FunctionReturns(t)
    BY <2>2, <1>1, <1>a DEF StartFails, FunctionReturns, Idle, TypeOK
  <2>3. CASE Routine(t)
    BY <2>3, <1>a, MsgUntouched DEF Routine, callVars
  <2> QED
    BY <1>3, <2>1, <2>2, <2>3
<1>4. ASSUME NEW u \in Tasks, FreeQueue(t, u) PROVE MsgInv'
  BY <1>4, QueueFreed
<1>5. ASSUME NEW u \in Tasks, ClearQueue(t, u) \/ Unlist(t, u) PROVE MsgInv'
  BY <1>5, <1>a, MsgUntouched DEF ClearQueue, Unlist, callVars
<1>6. ASSUME NEW u \in Tasks, FreeTask(t, u) PROVE MsgInv'
  BY <1>6, <1>1, <1>a DEF FreeTask, Advance, Ends, Return, Call, TypeOK
<1>7. ASSUME NEW m \in Msgs, NEW n \in Names, Compose(t, m, n) PROVE MsgInv'
  BY <1>7, MsgComposed
<1>8. CASE Lookup(t)
  <2>1. UNCHANGED <<msg, chan, heap>>
    BY <1>8, <1>a DEF Lookup, Call, TypeOK
  <2>2. pc[t] = "lookup" /\ pc' = [pc EXCEPT ![t] = "push"]
    BY <1>8 DEF Lookup, Call
  <2> QED
    BY <1>a, <2>1, <2>2, MsgUntouched DEF TypeOK
<1>9. CASE LookupFails(t) \/ FreeMsg(t)
  BY <1>9, MsgFreed DEF LookupFails, FreeMsg
<1>10. CASE Push(t)
  BY <1>10, MsgPushed
<1>11. CASE PushFreed(t)
  BY <1>11, <1>a, MsgUntouched DEF PushFreed, callVars
<1>12. CASE Wait(t) \/ SpuriousWake(t)
  <2>1. CASE Wait(t)
    BY <2>1, <1>1, <1>a DEF Wait, Idle, Call, TypeOK
  <2>2. CASE SpuriousWake(t)
    BY <2>2, <1>1, <1>a DEF SpuriousWake, TypeOK
  <2> QED
    BY <1>12, <2>1, <2>2
<1>13. CASE Pop(t)
  <2>1. target[t] = t
    BY <1>13, InHand DEF Pop
  <2>2. CASE chan[t] = <<>>
    BY <1>13, <1>1, <1>a, <2>1, <2>2 DEF Pop, Return, Call, TypeOK
  <2> QED
    BY <1>13, <2>2, MsgPopped
<1> QED
  BY <1>0, <1>2, <1>3, <1>4, <1>5, <1>6, <1>7, <1>8, <1>9, <1>10, <1>11, <1>12, <1>13
  DEF CreateStep, EndStep, SendStep, RecvStep

-----------------------------------------------------------------------------
(* Names *)

\* A step that hands no message over and gives or takes no name.
LEMMA NameUntouched ==
  ASSUME IInv, UNCHANGED <<name, chan, heap>>,
         \A t \in Threads : qlive'[t] = qlive[t] /\ (life[t] # "none" => life'[t] # "none"),
         \A t \in Threads : pc'[t] \in {"push", "got"}
                           => pc'[t] = pc[t] /\ msg'[t] = msg[t] /\ target'[t] = target[t]
  PROVE  NameInv'
BY DEF IInv, NameInv

\* Thread t frees the message it has in hand, which is in no queue.
LEMMA NameFreed ==
  ASSUME IInv, NEW t \in Threads, pc[t] \in {"lookup", "push", "got"},
         UNCHANGED <<name, qlive, life, chan>>,
         heap' = [heap EXCEPT ![msg[t]] = NULL], Return(t)
  PROVE  NameInv'
<1>1. TypeOK /\ MsgInv /\ NameInv /\ msg[t] \in Msgs
  BY InHand DEF IInv
<1>2. /\ pc'[t] = "idle"
      /\ \A v \in Threads \ {t} : msg'[v] = msg[v] /\ pc'[v] = pc[v] /\ target'[v] = target[v]
      /\ \A m \in Msgs \ {msg[t]} : heap'[m] = heap[m]
  BY <1>1 DEF Return, Call, TypeOK
<1>3. \A v \in Threads \ {t} : pc[v] \in {"push", "got"} => heap'[msg[v]] = heap[msg[v]]
  <2>1. \A v \in Threads \ {t} :
          pc[v] \in {"push", "got"} => msg[v] \in Msgs /\ msg[v] # msg[t]
    BY <1>1, InHand, MessagingAssumption DEF MsgInv
  <2> QED
    BY <1>2, <2>1
<1>4. \A u \in Threads : \A i \in DOMAIN chan[u] : heap'[chan[u][i]] = heap[chan[u][i]]
  BY <1>1, <1>2, LenProperties DEF TypeOK, MsgInv
<1> QED
  BY <1>1, <1>2, <1>3, <1>4 DEF NameInv

\* Messages go to the task of that name, or nowhere.
LEMMA NameStep ==
  ASSUME IInv, Next
  PROVE  NameInv'
<1>0. PICK t \in Threads : CreateStep(t) \/ EndStep(t) \/ SendStep(t) \/ RecvStep(t)
  BY DEF Next
<1>a. /\ TypeOK /\ CallInv /\ ListInv /\ QueueInv /\ MsgInv /\ NameInv
      /\ Tasks \subseteq Threads
  BY DEF IInv, Threads
<1>b. \A u \in Threads : \A i \in DOMAIN chan[u] : chan[u][i] \in Msgs
  BY <1>a, LenProperties DEF TypeOK
<1>1. ASSUME NEW u \in Tasks, NEW n \in Names, NEW async \in BOOLEAN, Create(t, u, n, async)
      PROVE  NameInv'
  <2>1. /\ life[u] = "none" /\ life'[u] = "listed" /\ pc'[t] = "create"
        /\ UNCHANGED <<chan, heap>>
        /\ \A v \in Threads \ {u} : /\ life'[v] = life[v] /\ name'[v] = name[v]
                                    /\ qlive'[v] = qlive[v]
        /\ \A v \in Threads \ {t} : /\ pc'[v] = pc[v] /\ msg'[v] = msg[v]
                                    /\ target'[v] = target[v]
    BY <1>1, <1>a DEF Create, Call, TypeOK
  <2>2. ~qlive[u] /\ pc[u] # "got"
    BY <1>a, <2>1 DEF QueueInv, CallInv, WithQueue
  <2>3. \A v \in Threads : pc[v] = "push" => target[v] # u
    BY <1>a, <2>1 DEF NameInv
  <2> QED
    BY <1>a, <2>1, <2>2, <2>3 DEF NameInv
<1>2. CASE Start(t) \/ StartFails(t)
  BY <1>2, <1>a, NameUntouched DEF Start, StartFails, Return, Call, TypeOK
<1>3. CASE Routine(t) \/ FunctionReturns(t)
  BY <1>3, <1>a, NameUntouched DEF Routine, FunctionReturns, callVars, TypeOK
<1>4. ASSUME NEW u \in Tasks, FreeQueue(t, u) PROVE NameInv'
  <2>1. /\ UNCHANGED <<name, pc, msg, target>> /\ life'[u] = "queue_freed"
        /\ chan'[u] = <<>> /\ qlive'[u] = FALSE
        /\ \A v \in Threads \ {u} : /\ life'[v] = life[v] /\ chan'[v] = chan[v]
                                    /\ qlive'[v] = qlive[v]
        /\ \A m \in Msgs : m \notin InQueue(u) => heap'[m] = heap[m]
    BY <1>4, <1>a DEF FreeQueue, Advance, callVars, TypeOK
  <2>2. \A v \in Threads : pc[v] \in {"push", "got"} => heap'[msg[v]] = heap[msg[v]]
    <3>1. \A v \in Threads : msg[v] \notin InQueue(u)
      BY <1>a DEF MsgInv, InQueue
    <3> QED
      BY <2>1, <3>1, InHand
  <2>3. \A v \in Threads \ {u} : \A i \in DOMAIN chan[v] : heap'[chan[v][i]] = heap[chan[v][i]]
    <3>1. \A v \in Threads \ {u} : \A i \in DOMAIN chan[v] : chan[v][i] \notin InQueue(u)
      BY <1>a DEF MsgInv, InQueue
    <3> QED
      BY <1>b, <2>1, <3>1
  <2>4. \A v \in Threads : \A i \in DOMAIN chan'[v] : qlive'[v] /\ heap'[chan'[v][i]] = name'[v]
    BY <1>a, <2>1, <2>3 DEF NameInv
  <2>5. \A v \in Threads : pc'[v] = "push" => /\ target'[v] \in Threads
                                              /\ life'[target'[v]] # "none"
    BY <1>a, <2>1 DEF NameInv
  <2> QED
    BY <1>a, <2>1, <2>2, <2>4, <2>5 DEF NameInv
<1>5. ASSUME NEW u \in Tasks, ClearQueue(t, u) \/ Unlist(t, u) PROVE NameInv'
  BY <1>5, <1>a, NameUntouched DEF ClearQueue, Unlist, Advance, callVars, TypeOK
<1>6. ASSUME NEW u \in Tasks, FreeTask(t, u) PROVE NameInv'
  <2>1. /\ life[u] = "unlisted" /\ life'[u] = "freed" /\ pc'[t] = "idle"
        /\ UNCHANGED <<qlive, chan, heap>>
        /\ \A v \in Threads \ {u} : life'[v] = life[v] /\ name'[v] = name[v]
        /\ \A v \in Threads \ {t} : /\ pc'[v] = pc[v] /\ msg'[v] = msg[v]
                                    /\ target'[v] = target[v]
    BY <1>6, <1>a DEF FreeTask, Advance, Return, Call, TypeOK
  <2>2. ~qlive[u] /\ pc[u] # "got"
    BY <1>a, <2>1 DEF QueueInv, CallInv, WithQueue
  <2> QED
    BY <1>a, <2>1, <2>2 DEF NameInv
<1>7. ASSUME NEW m \in Msgs, NEW n \in Names, Compose(t, m, n) PROVE NameInv'
  <2>1. /\ UNCHANGED <<name, life, qlive, chan>> /\ pc'[t] = "lookup" /\ heap[m] = NULL
        /\ \A v \in Threads \ {t} : /\ pc'[v] = pc[v] /\ msg'[v] = msg[v]
                                    /\ target'[v] = target[v]
        /\ \A x \in Msgs \ {m} : heap'[x] = heap[x]
    BY <1>7, <1>a DEF Compose, Call, taskVars, TypeOK
  <2>2. \A v \in Threads : pc[v] \in {"push", "got"} => heap'[msg[v]] = heap[msg[v]]
    BY <1>a, <2>1, InHand DEF MsgInv
  <2>3. \A u \in Threads : \A i \in DOMAIN chan[u] : heap'[chan[u][i]] = heap[chan[u][i]]
    BY <1>a, <1>b, <2>1 DEF MsgInv, InQueue
  <2> QED
    BY <1>a, <2>1, <2>2, <2>3 DEF NameInv
<1>8. CASE Lookup(t)
  <2> DEFINE n == heap[msg[t]]
  <2>1. PICK i \in DOMAIN registry : AqGet(n) = registry[i] /\ name[registry[i]] = n
    BY <1>8, <1>a, AqGetFinds DEF Lookup, HasQueue
  <2>2. registry[i] \in Threads
    BY <1>a, LenProperties DEF TypeOK
  <2>3. life[registry[i]] # "none"
    BY <1>a, <2>2 DEF ListInv, Listed
  <2>4. /\ UNCHANGED <<name, life, qlive, chan, heap, msg>>
        /\ pc'[t] = "push" /\ target'[t] = registry[i]
        /\ \A v \in Threads \ {t} : pc'[v] = pc[v] /\ target'[v] = target[v]
    BY <1>8, <1>a, <2>1 DEF Lookup, Call, taskVars, TypeOK
  <2> QED
    BY <1>a, <2>1, <2>2, <2>3, <2>4 DEF NameInv
<1>9. CASE LookupFails(t) \/ FreeMsg(t)
  BY <1>9, NameFreed DEF LookupFails, FreeMsg, taskVars
<1>10. CASE Push(t)
  <2>0. PICK q \in Threads, m \in Msgs : q = target[t] /\ m = msg[t]
    BY <1>10, InHand DEF Push
  <2>1. /\ UNCHANGED <<name, life, qlive, heap>> /\ pc[t] = "push" /\ qlive[q] /\ pc'[t] = "idle"
        /\ \A v \in Threads \ {t} : msg'[v] = msg[v] /\ target'[v] = target[v]
        /\ \A v \in Threads \ {t} : pc'[v] = pc[v] \/ pc'[v] = "woken"
        /\ chan'[q] = Append(chan[q], m) /\ \A u \in Threads \ {q} : chan'[u] = chan[u]
    BY <1>10, <1>a, <2>0 DEF Push, Blocked, taskVars, TypeOK
  <2>2. heap[m] = name[q]
    BY <1>a, <2>0, <2>1 DEF NameInv
  <2>3. /\ DOMAIN chan'[q] = 1 .. Len(chan[q]) + 1 /\ DOMAIN chan[q] = 1 .. Len(chan[q])
        /\ Len(chan[q]) \in Nat /\ chan'[q][Len(chan[q]) + 1] = m
        /\ \A i \in DOMAIN chan[q] : chan'[q][i] = chan[q][i]
    BY <1>a, <2>1, AppendProperties, LenProperties DEF TypeOK
  <2>4. \A i \in DOMAIN chan'[q] : i \in DOMAIN chan[q] \/ i = Len(chan[q]) + 1
    BY <2>3
  <2>5. \A u \in Threads : \A i \in DOMAIN chan'[u] : qlive'[u] /\ heap'[chan'[u][i]] = name'[u]
    BY <1>a, <2>1, <2>2, <2>3, <2>4 DEF NameInv
  <2> QED
    BY <1>a, <2>1, <2>5 DEF NameInv
<1>11. CASE PushFreed(t)
  BY <1>11, NameUntouched DEF PushFreed, taskVars, callVars
<1>12. CASE Wait(t) \/ SpuriousWake(t)
  BY <1>12, <1>a, NameUntouched DEF Wait, SpuriousWake, Call, taskVars, TypeOK
<1>13. CASE Pop(t)
  <2>1. target[t] = t
    BY <1>13, InHand DEF Pop
  <2>2. CASE chan[t] = <<>>
    BY <1>13, <1>a, <2>1, <2>2, NameUntouched DEF Pop, Return, Call, taskVars, TypeOK
  <2>3. CASE chan[t] # <<>>
    <3>1. /\ UNCHANGED <<name, life, qlive, heap>>
          /\ pc'[t] = "got" /\ msg'[t] = Head(chan[t]) /\ chan'[t] = Tail(chan[t])
          /\ \A v \in Threads \ {t} : /\ pc'[v] = pc[v] /\ msg'[v] = msg[v]
                                      /\ target'[v] = target[v] /\ chan'[v] = chan[v]
      BY <1>13, <1>a, <2>1, <2>3 DEF Pop, Call, taskVars, TypeOK
    <3>2. /\ Tail(chan[t]) \in Seq(Msgs) /\ Len(Tail(chan[t])) = Len(chan[t]) - 1
          /\ \A i \in 1 .. Len(Tail(chan[t])) : Tail(chan[t])[i] = chan[t][i + 1]
          /\ Head(chan[t]) = chan[t][1]
      BY <1>a, <2>3, HeadTailProperties DEF TypeOK
    <3>3. Len(chan[t]) \in Nat \ {0} /\ DOMAIN chan[t] = 1 .. Len(chan[t])
      BY <1>a, <2>3, EmptySeq, LenProperties DEF TypeOK
    <3>4. DOMAIN chan'[t] = 1 .. Len(chan[t]) - 1
      BY <3>1, <3>2, LenProperties
    <3>5. 1 \in DOMAIN chan[t] /\ \A i \in DOMAIN chan'[t] : i + 1 \in DOMAIN chan[t]
      BY <3>3, <3>4
    <3>6. \A i \in DOMAIN chan'[t] : chan'[t][i] = chan[t][i + 1]
      BY <3>1, <3>2, <3>3, <3>4
    <3>7. \A u \in Threads : \A i \in DOMAIN chan'[u] : qlive'[u] /\ heap'[chan'[u][i]] = name'[u]
      <4>1. ASSUME NEW i \in DOMAIN chan'[t] PROVE qlive[t] /\ heap[chan[t][i + 1]] = name[t]
        BY <1>a, <3>5 DEF NameInv
      <4>2. \A i \in DOMAIN chan'[t] : qlive'[t] /\ heap'[chan'[t][i]] = name'[t]
        BY <3>1, <3>6, <4>1
      <4>3. ASSUME NEW u \in Threads, u # t
            PROVE  \A i \in DOMAIN chan'[u] : qlive'[u] /\ heap'[chan'[u][i]] = name'[u]
        <5>1. \A i \in DOMAIN chan[u] : qlive[u] /\ heap[chan[u][i]] = name[u]
          BY <1>a DEF NameInv
        <5> QED
          BY <3>1, <4>3, <5>1
      <4> QED
        BY <4>2, <4>3
    <3>8. heap'[msg'[t]] = name'[t]
      BY <1>a, <3>1, <3>2, <3>5 DEF NameInv
    <3> QED
      BY <1>a, <3>1, <3>7, <3>8 DEF NameInv
  <2> QED
    BY <2>2, <2>3
<1> QED
  BY <1>0, <1>1, <1>2, <1>3, <1>4, <1>5, <1>6, <1>7, <1>8, <1>9, <1>10, <1>11, <1>12, <1>13
  DEF CreateStep, EndStep, SendStep, RecvStep

-----------------------------------------------------------------------------
\* The invariant is inductive.
LEMMA InvStep == IInv /\ [Next]_vars => IInv'
<1> SUFFICES ASSUME IInv, [Next]_vars PROVE IInv'
  OBVIOUS
<1>1. CASE Next
  BY <1>1, TypeStep, CallStep, ListStep, TidStep, QueueStep, MsgStep, NameStep DEF IInv
<1>2. CASE UNCHANGED vars
  BY <1>2 DEF IInv, TypeOK, CallInv, ListInv, TidInv, QueueInv, MsgInv, NameInv, Handles,
     InQueue, vars, taskVars, callVars
<1> QED
  BY <1>1, <1>2

\* The variables of os_task.c and os_msg.c keep their types.
THEOREM MessagingTypes == Spec => []TypeOK
<1>1. IInv => TypeOK
  BY DEF IInv
<1> QED
  BY InitInv, InvStep, <1>1, PTL DEF Spec

\* os_task_list holds each task once, from its creation to its unlinking: no
\* lookup reads a freed task, however many threads create and end tasks.
THEOREM RegistryHoldsLiveTasks == Spec => []RegistryValid
<1>1. IInv => RegistryValid
  <2> SUFFICES ASSUME IInv, NEW i \in DOMAIN registry
               PROVE  life[registry[i]] \in Listed
    BY DEF RegistryValid, Listed, IInv, ListInv
  <2>1. registry[i] \in Threads
    BY LenProperties DEF IInv, TypeOK
  <2> QED
    BY <2>1 DEF IInv, ListInv
<1> QED
  BY InitInv, InvStep, <1>1, PTL DEF Spec

\* os_task_aq_self finds the caller's own queue, though tids are reused, and that
\* queue exists for as long as its task waits in it.
THEOREM NobodyReceivesForAnother == Spec => []ReceivesFromOwnQueue
<1>1. IInv => ReceivesFromOwnQueue
  BY AqSelfFinds DEF IInv, QueueInv, ReceivesFromOwnQueue
<1> QED
  BY InitInv, InvStep, <1>1, PTL DEF Spec

\* What MsgInv says, counted.
LEMMA OwnersCounted == IInv => OneOwner
<1> SUFFICES ASSUME IInv, NEW m \in Msgs
             PROVE  Cardinality(Holders(m)) = IF heap[m] = NULL THEN 0 ELSE 1
  BY DEF OneOwner
<1> DEFINE hands == {t \in Threads : msg[t] = m}
           at(u) == {i \in DOMAIN chan[u] : chan[u][i] = m}
<1>1. Holders(m) = ({"thread"} \X hands) \cup UNION {{u} \X at(u) : u \in Threads}
  BY DEF Holders
<1>2. MsgInv /\ m # NULL
  BY MessagingAssumption DEF IInv
<1>3. CASE hands # {}
  <2>1. PICK t \in hands : TRUE
    BY <1>3
  <2>2. hands = {t} /\ \A u \in Threads : at(u) = {}
    BY <1>2, <2>1 DEF MsgInv
  <2>3. Holders(m) = {<<"thread", t>>}
    BY <1>1, <2>2
  <2>4. heap[m] # NULL
    BY <1>2, <2>1 DEF MsgInv
  <2> QED
    BY <2>3, <2>4, FS_Singleton
<1>4. ASSUME hands = {}, NEW u \in Threads, at(u) # {}
      PROVE  Cardinality(Holders(m)) = IF heap[m] = NULL THEN 0 ELSE 1
  <2>1. PICK i \in at(u) : TRUE
    BY <1>4
  <2>2. at(u) = {i} /\ \A v \in Threads \ {u} : at(v) = {}
    BY <1>2, <2>1 DEF MsgInv
  <2>3. Holders(m) = {<<u, i>>}
    BY <1>1, <1>4, <2>2
  <2>4. heap[m] # NULL
    BY <1>2, <2>1 DEF MsgInv, InQueue
  <2> QED
    BY <2>3, <2>4, FS_Singleton
<1>5. CASE hands = {} /\ \A u \in Threads : at(u) = {}
  <2>1. Holders(m) = {}
    BY <1>1, <1>5
  <2>2. heap[m] = NULL
    BY <1>2, <1>5 DEF MsgInv, InQueue
  <2> QED
    BY <2>1, <2>2, FS_EmptySet
<1> QED
  BY <1>3, <1>4, <1>5

\* A message has one owner from its malloc to its free, whichever tasks end and
\* whichever sends fail: none is leaked, freed twice or received twice.
THEOREM MessageHasOneOwner == Spec => []OneOwner
BY InitInv, InvStep, OwnersCounted, PTL DEF Spec

\* What a task receives was sent to its name.
THEOREM MessageReachesItsName == Spec => []DeliveredToName
<1>1. IInv => DeliveredToName
  BY DEF IInv, NameInv, DeliveredToName
<1> QED
  BY InitInv, InvStep, <1>1, PTL DEF Spec
=============================================================================
