----------------------------- MODULE AsyncQueue -----------------------------
(***************************************************************************)
(* os_async_queue.c statement by statement: a mutex, a condition variable  *)
(* and the list of os_queue.c, used by any number of threads.              *)
(*                                                                         *)
(* pc[t] is the next statement of thread t:                                *)
(*                                                                         *)
(*   os_async_queue_push             os_async_queue_pop                    *)
(*     idle         mutex_lock         idle         mutex_lock             *)
(*     push_tail    os_queue_push_tail wait         cond_wait, first half  *)
(*     signal       cond_signal        blocked        waiting              *)
(*     push_unlock  mutex_unlock       woken          relocking the mutex  *)
(*                                     pop_head     os_queue_pop_head      *)
(*                                     pop_unlock   mutex_unlock           *)
(***************************************************************************)
EXTENDS Integers, Sequences, FiniteSets

CONSTANTS Producers,        \* the threads that call os_async_queue_push
          Consumers,        \* the threads that call os_async_queue_pop
          Data,             \* the pointers that are pushed
          NULL,             \* the null pointer
          NoThread,         \* the owner of a free mutex
          SpuriousWakeups,  \* whether pthread_cond_wait may return unsignalled
          QueueBound        \* a bound of the model: the code has none

ASSUME AsyncQueueAssumption ==
    /\ IsFiniteSet(Producers) /\ IsFiniteSet(Consumers)
    /\ NULL \notin Data
    /\ NoThread \notin Producers \cup Consumers
    /\ SpuriousWakeups \in BOOLEAN
    /\ QueueBound \in Nat

VARIABLES mutex,   \* the owner of q->mutex, or NoThread
          queue,   \* the elements of q->queue, oldest first
          pc,      \* the next statement of each thread
          data     \* data[t]: the local `data` of t's last pop

vars == <<mutex, queue, pc, data>>

\* A thread may use either end: os_msg_recv and os_msg_send run in any task.
Threads == Producers \cup Consumers

\* The statements executed with the mutex held.
Holding == {"push_tail", "signal", "push_unlock", "wait", "pop_head", "pop_unlock"}

PCs == {"idle", "blocked", "woken"} \cup Holding

TypeOK ==
    /\ mutex \in Threads \cup {NoThread}
    /\ queue \in Seq(Data)
    /\ pc \in [Threads -> PCs]
    /\ data \in [Consumers -> Data \cup {NULL}]

Init ==
    /\ mutex = NoThread
    /\ queue = <<>>
    /\ pc = [t \in Threads |-> "idle"]
    /\ data = [t \in Consumers |-> NULL]

Goto(t, from, to) == pc[t] = from /\ pc' = [pc EXCEPT ![t] = to]

Lock(t)   == mutex = NoThread /\ mutex' = t
Unlock(t) == mutex' = NoThread

\* The threads waiting for q->cond.
Waiting == {t \in Consumers : pc[t] = "blocked"}

-----------------------------------------------------------------------------
(***************************************************************************)
(* Faulty statements.  No specification uses them: each stands for a slip  *)
(* in the code that one of the properties below has to notice.             *)
(***************************************************************************)

\* a push without the check of `data`
PushTailUnchecked(t) ==
    /\ Goto(t, "push_tail", "signal")
    /\ \E d \in Data \cup {NULL} : queue' = Append(queue, d)
    /\ UNCHANGED <<mutex, data>>

\* an append that fails quietly, as os_queue_push_tail does without a node
PushTailLost(t) == Goto(t, "push_tail", "signal") /\ UNCHANGED <<mutex, queue, data>>

\* pthread_cond_broadcast for pthread_cond_signal
PushBroadcast(t) ==
    /\ pc[t] = "signal"
    /\ pc' = [w \in Threads |-> IF w = t THEN "push_unlock"
                               ELSE IF w \in Waiting THEN "woken" ELSE pc[w]]
    /\ UNCHANGED <<mutex, queue, data>>

\* a push that signals nobody
PushNoSignal(t) == Goto(t, "signal", "push_unlock") /\ UNCHANGED <<mutex, queue, data>>

\* `if` the queue is empty, wait: the predicate tested once, not in a loop
PopWaitIf(t) ==
    IF queue = <<>>
    THEN Goto(t, "wait", "blocked") /\ Unlock(t) /\ UNCHANGED <<queue, data>>
    ELSE Goto(t, "wait", "pop_head") /\ UNCHANGED <<mutex, queue, data>>

\* a wait that returns without the mutex
PopRelockNot(t) == Goto(t, "woken", "pop_head") /\ UNCHANGED <<mutex, queue, data>>

\* os_queue_pop_tail for os_queue_pop_head
PopTail(t) ==
    /\ Goto(t, "pop_head", "pop_unlock")
    /\ queue # <<>>
    /\ data' = [data EXCEPT ![t] = queue[Len(queue)]]
    /\ queue' = SubSeq(queue, 1, Len(queue) - 1)
    /\ UNCHANGED mutex

\* a return without the unlock
PopNoUnlock(t) == Goto(t, "pop_unlock", "idle") /\ UNCHANGED <<mutex, queue, data>>

-----------------------------------------------------------------------------
\* os_async_queue_push

PushLock(t) ==
    /\ Len(queue) < QueueBound
    /\ Goto(t, "idle", "push_tail")
    /\ Lock(t)
    /\ UNCHANGED <<queue, data>>

PushTail(t) ==
    /\ Goto(t, "push_tail", "signal")
    /\ \E d \in Data : queue' = Append(queue, d)
    /\ UNCHANGED <<mutex, data>>

\* pthread_cond_signal moves one waiting thread, if there is one, to the mutex.
PushSignal(t) ==
    /\ pc[t] = "signal"
    /\ \/ \E w \in Waiting :
             pc' = [pc EXCEPT ![t] = "push_unlock", ![w] = "woken"]
       \/ Waiting = {} /\ pc' = [pc EXCEPT ![t] = "push_unlock"]
    /\ UNCHANGED <<mutex, queue, data>>

PushUnlock(t) == Goto(t, "push_unlock", "idle") /\ Unlock(t) /\ UNCHANGED <<queue, data>>

-----------------------------------------------------------------------------
\* os_async_queue_pop

PopLock(t) == Goto(t, "idle", "wait") /\ Lock(t) /\ UNCHANGED <<queue, data>>

\* pthread_cond_wait releases the mutex and blocks in one step, without any
\* test of the queue before it.
PopWait(t) == Goto(t, "wait", "blocked") /\ Unlock(t) /\ UNCHANGED <<queue, data>>

SpuriousWake(t) ==
    /\ SpuriousWakeups
    /\ Goto(t, "blocked", "woken")
    /\ UNCHANGED <<mutex, queue, data>>

PopRelock(t) == Goto(t, "woken", "pop_head") /\ Lock(t) /\ UNCHANGED <<queue, data>>

PopHead(t) ==
    /\ Goto(t, "pop_head", "pop_unlock")
    /\ \/ /\ queue # <<>>
          /\ data' = [data EXCEPT ![t] = Head(queue)]
          /\ queue' = Tail(queue)
       \/ /\ queue = <<>>
          /\ data' = [data EXCEPT ![t] = NULL]
          /\ UNCHANGED queue
    /\ UNCHANGED mutex

PopUnlock(t) == Goto(t, "pop_unlock", "idle") /\ Unlock(t) /\ UNCHANGED <<queue, data>>

-----------------------------------------------------------------------------
PushStep(t) == PushLock(t) \/ PushTail(t) \/ PushSignal(t) \/ PushUnlock(t)

PopStep(t) ==
    \/ PopLock(t) \/ PopWait(t) \/ SpuriousWake(t)
    \/ PopRelock(t) \/ PopHead(t) \/ PopUnlock(t)

Next == (\E t \in Producers : PushStep(t)) \/ (\E t \in Consumers : PopStep(t))

Spec == Init /\ [][Next]_vars

(***************************************************************************)
(* A thread inside a call keeps running, and a thread that waits for the   *)
(* mutex gets it if the mutex is free again and again.  No thread has to   *)
(* call anything, and a blocked thread is woken only by a signal.          *)
(***************************************************************************)
Fairness ==
    /\ \A t \in Producers : WF_vars(PushTail(t) \/ PushSignal(t) \/ PushUnlock(t))
    /\ \A t \in Consumers : WF_vars(PopWait(t) \/ PopHead(t) \/ PopUnlock(t))
    /\ \A t \in Consumers : SF_vars(PopRelock(t))

FairSpec == Spec /\ Fairness

-----------------------------------------------------------------------------
(* Safety *)

\* q->mutex excludes: its owner, and only its owner, is at a statement between
\* a lock (or the return of cond_wait) and the next unlock (or cond_wait).
MutualExclusion == \A t \in Threads : mutex = t <=> pc[t] \in Holding

\* The threads that will take an element without anybody doing anything more:
\* those already woken, and one for the push that has not signalled yet.
Claimed == {t \in Threads : pc[t] \in {"signal", "woken", "pop_head"}}

\* Elements and wake-ups stay paired: two woken threads never compete for one
\* element, although os_async_queue_pop does not test the queue after its wait.
WokenHasElement == Cardinality(Claimed) <= Len(queue)

\* os_async_queue_pop never hands NULL to its caller: os_msg.c:34 asserts it,
\* and init/main.c:101 dereferences what os_msg_recv returns.
NoNullPop == \A t \in Consumers : pc[t] = "pop_unlock" => data[t] \in Data

\* What else the two proofs by induction rest on: an element appended and not
\* yet signalled is still there, and the bound of the model is kept.
AppendedBeforeSignal ==
    /\ Len(queue) <= QueueBound
    /\ \A t \in Threads : pc[t] = "push_tail" => Len(queue) < QueueBound
    /\ \A t \in Threads : pc[t] = "signal" => queue # <<>>

-----------------------------------------------------------------------------
(* The cost of waiting without a predicate *)

\* The elements nobody has been woken for.
Backlog == Len(queue) - Cardinality(Claimed)

\* A push that signals while no thread waits strands an element, and no later
\* step of any thread makes up for it: each pop consumes one more signal, so
\* the queue runs that many elements behind for the rest of its life.
BacklogNeverShrinks == [][Backlog' >= Backlog]_vars

\* Only a signal that finds nobody waiting strands an element: os_async_queue_pop
\* itself, in whatever order its threads get the mutex, loses nothing.
BacklogGrowsOnlyBySignal ==
    [][Backlog' > Backlog => Waiting = {} /\ \E t \in Producers : PushSignal(t)]_vars

-----------------------------------------------------------------------------
(* Liveness *)

\* A signalled os_async_queue_pop returns, however often others take the mutex.
WokenReturns == \A t \in Consumers : pc[t] = "woken" ~> pc[t] = "idle"

-----------------------------------------------------------------------------
(***************************************************************************)
(* The mutex makes each call atomic: a push takes effect at its signal, a  *)
(* pop when it starts to wait and again when it takes the head.  An        *)
(* element appended by a push that has not signalled yet is not in the     *)
(* abstract queue.                                                         *)
(***************************************************************************)
absQueue ==
    IF \E t \in Threads : pc[t] = "signal"
    THEN SubSeq(queue, 1, Len(queue) - 1)
    ELSE queue

absState ==
    [t \in Consumers |->
        CASE pc[t] = "blocked" -> "blocked"
          [] pc[t] \in {"woken", "pop_head"} -> "woken"
          [] OTHER -> "idle"]

Abs == INSTANCE CondQueue WITH queue <- absQueue, state <- absState, got <- data

ImplementsCondQueue == Abs!CondSpec

(***************************************************************************)
(* Without spurious wake-ups it is the first-in first-out channel that     *)
(* callers take it for, and that GLib's queue is.                          *)
(***************************************************************************)
Fifo == INSTANCE FifoQueue WITH chan <- absQueue, got <- data

ImplementsFifo == Fifo!FifoSpec

\* With them it is the weaker channel: a pop may come back with NULL from an
\* empty queue, but no element is lost, overtaken or handed out twice for that.
ImplementsPolled == Fifo!PolledSpec
=============================================================================
