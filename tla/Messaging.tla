----------------------------- MODULE Messaging ------------------------------
(***************************************************************************)
(* os_task.c and os_msg.c: threads register under a name, send messages to *)
(* names and receive from their own queue, while others are created and    *)
(* end.  A critical section of os_task_mutex, or of a task's queue, is one *)
(* step; the statements of os_task_exit and of a failed os_task_create are *)
(* steps of their own, and so are the lookup and the push of a send.       *)
(***************************************************************************)
EXTENDS Naturals, Sequences, FiniteSets

CONSTANTS Tasks,            \* the tasks that may be created, each at most once
          Main,             \* the thread of main(), registered at load time
          Names,            \* the names given to tasks and sent to
          MainName,         \* the name of the process
          Tids,             \* the values of pthread_self, reused by later threads
          MainTid,          \* that of the main thread
          Msgs,             \* the addresses malloc returns for a message
          NULL,             \* the null pointer, and the tid of no thread
          SpuriousWakeups   \* whether pthread_cond_wait may return unsignalled

ASSUME MessagingAssumption ==
    /\ Main \notin Tasks
    /\ MainTid \notin Tids
    /\ NULL \notin Tasks \cup {Main} \cup Names \cup {MainName}
                   \cup Tids \cup {MainTid} \cup Msgs
    /\ SpuriousWakeups \in BOOLEAN

Threads == Tasks \cup {Main}

VARIABLES
    registry,  \* os_task_list, oldest first
    life,      \* where each task is between its malloc and its free
    name, tid, \* task->info.name and task->info.tid
    hasq,      \* hasq[t]: task->q is not NULL
    qlive,     \* qlive[t]: the queue made for t has not been freed
    chan,      \* chan[t]: the messages in that queue
    heap,      \* heap[m]: the dst of the message at address m, NULL if free
    pc,        \* what each thread is doing in a call
    msg,       \* the message it holds there
    target,    \* the task whose queue, or whose creation, the call is about
    wild       \* whether a freed queue has been used

taskVars == <<registry, life, name, tid, hasq>>
callVars == <<pc, msg, target>>
vars == <<taskVars, qlive, chan, heap, callVars, wild>>

\* A task is listed before it has a thread, which starts and records its tid;
\* then, in order, the statements of os_task_exit.
Lives == {"none", "listed", "started", "running", "ended", "queue_freed", "queue_null",
          "unlisted", "freed"}

PCs == {"idle", "lookup", "push", "blocked", "woken", "got", "create", "undo", "exit"}

TypeOK ==
    /\ registry \in Seq(Threads)
    /\ life \in [Threads -> Lives]
    /\ name \in [Threads -> Names \cup {MainName, NULL}]
    /\ tid \in [Threads -> Tids \cup {MainTid, NULL}]
    /\ hasq \in [Threads -> BOOLEAN] /\ qlive \in [Threads -> BOOLEAN]
    /\ chan \in [Threads -> Seq(Msgs)]
    /\ heap \in [Msgs -> Names \cup {NULL}]
    /\ pc \in [Threads -> PCs]
    /\ msg \in [Threads -> Msgs \cup {NULL}]
    /\ target \in [Threads -> Threads \cup {NULL}]
    /\ wild \in BOOLEAN

\* __os_task_init registers the main thread, which has no queue.
Init ==
    /\ registry = <<Main>>
    /\ life = [t \in Threads |-> IF t = Main THEN "running" ELSE "none"]
    /\ name = [t \in Threads |-> IF t = Main THEN MainName ELSE NULL]
    /\ tid = [t \in Threads |-> IF t = Main THEN MainTid ELSE NULL]
    /\ hasq = [t \in Threads |-> FALSE] /\ qlive = [t \in Threads |-> FALSE]
    /\ chan = [t \in Threads |-> <<>>]
    /\ heap = [m \in Msgs |-> NULL]
    /\ pc = [t \in Threads |-> "idle"]
    /\ msg = [t \in Threads |-> NULL]
    /\ target = [t \in Threads |-> NULL]
    /\ wild = FALSE

Idle(t) == life[t] = "running" /\ pc[t] = "idle"

\* t goes to statement `to` of its call, with message m and task u.
Call(t, to, m, u) ==
    /\ pc' = [pc EXCEPT ![t] = to]
    /\ msg' = [msg EXCEPT ![t] = m]
    /\ target' = [target EXCEPT ![t] = u]

Return(t) == Call(t, "idle", NULL, NULL)

\* The first registered task that satisfies P, or NULL.
First(P(_)) ==
    LET hits == {i \in DOMAIN registry : P(registry[i])}
    IN  IF hits = {} THEN NULL
        ELSE registry[CHOOSE i \in hits : \A j \in hits : i <= j]

-----------------------------------------------------------------------------
(* Faulty steps, used by no specification: slips the properties must notice. *)

\* a comparison that stops at a prefix all the given names share
AqGetPrefix(n) == First(LAMBDA u : (name[u] \in Names) = (n \in Names))

\* a routine that does not record its tid
RoutineNoTid(t) ==
    /\ life[t] = "started"
    /\ life' = [life EXCEPT ![t] = "running"]
    /\ UNCHANGED <<registry, name, tid, hasq, qlive, chan, heap, callVars, wild>>

\* Thread a ends task t: its own, or the one it has failed to create.
Ends(a, t) == (a = t /\ pc[a] = "exit") \/ (pc[a] = "undo" /\ target[a] = t)

Advance(a, t, from, to) ==
    /\ Ends(a, t)
    /\ life[t] = from
    /\ life' = [life EXCEPT ![t] = to]

\* a queue freed without its messages
FreeQueueOnly(a, t) ==
    /\ Advance(a, t, "ended", "queue_freed")
    /\ qlive' = [qlive EXCEPT ![t] = FALSE]
    /\ chan' = [chan EXCEPT ![t] = <<>>]
    /\ UNCHANGED <<registry, name, tid, hasq, heap, callVars, wild>>

\* a task that stays in the list
UnlistNot(a, t) ==
    /\ Advance(a, t, "queue_null", "unlisted")
    /\ UNCHANGED <<registry, name, tid, hasq, qlive, chan, heap, callVars, wild>>

\* a message forgotten before it is pushed
PushForgotten(t) ==
    /\ pc[t] = "push" /\ qlive[target[t]]
    /\ chan' = [chan EXCEPT ![target[t]] = Append(@, NULL)]
    /\ Return(t)
    /\ UNCHANGED <<taskVars, qlive, heap, wild>>

-----------------------------------------------------------------------------
\* os_task_aq_get and os_task_aq_self stop at the first match, and return its
\* q even if that is NULL.
AqGet(n)  == First(LAMBDA u : name[u] = n)
AqSelf(t) == First(LAMBDA u : tid[u] = tid[t])

HasQueue(u) == u # NULL /\ hasq[u]

InQueue(u) == {chan[u][i] : i \in DOMAIN chan[u]}

-----------------------------------------------------------------------------
(* Creation: os_task_create and os_task_create2 by thread c *)

\* The task is in the list, and can be sent to, before it has a thread.
Create(c, t, n, async) ==
    /\ Idle(c) /\ life[t] = "none"
    /\ life' = [life EXCEPT ![t] = "listed"]
    /\ name' = [name EXCEPT ![t] = n]
    /\ hasq' = [hasq EXCEPT ![t] = async]
    /\ qlive' = [qlive EXCEPT ![t] = async]
    /\ registry' = Append(registry, t)
    /\ Call(c, "create", NULL, t)
    /\ UNCHANGED <<tid, chan, heap, wild>>

\* pthread_create succeeds and os_task_create returns ...
Start(c) ==
    /\ pc[c] = "create"
    /\ life' = [life EXCEPT ![target[c]] = "started"]
    /\ Return(c)
    /\ UNCHANGED <<registry, name, tid, hasq, qlive, chan, heap, wild>>

FreeTids == Tids \ {tid[t] : t \in Threads}

\* ... and __os_task_routine, later, records its pthread_self, which may be
\* that of a thread that has ended.
Routine(t) ==
    /\ life[t] = "started"
    /\ life' = [life EXCEPT ![t] = "running"]
    /\ \E i \in FreeTids : tid' = [tid EXCEPT ![t] = i]
    /\ UNCHANGED <<registry, name, hasq, qlive, chan, heap, callVars, wild>>

StartFails(c) ==
    /\ pc[c] = "create"
    /\ life' = [life EXCEPT ![target[c]] = "ended"]
    /\ pc' = [pc EXCEPT ![c] = "undo"]
    /\ UNCHANGED <<registry, name, tid, hasq, qlive, chan, heap, msg, target, wild>>

-----------------------------------------------------------------------------
(* The end of task t: os_task_exit by t, or the failure path by its creator *)

FunctionReturns(t) ==
    /\ t # Main /\ Idle(t)
    /\ life' = [life EXCEPT ![t] = "ended"]
    /\ pc' = [pc EXCEPT ![t] = "exit"]
    /\ UNCHANGED <<registry, name, tid, hasq, qlive, chan, heap, msg, target, wild>>

\* os_async_queue_free, which frees the messages nobody has received.
FreeQueue(a, t) ==
    /\ Advance(a, t, "ended", "queue_freed")
    /\ qlive' = [qlive EXCEPT ![t] = FALSE]
    /\ chan' = [chan EXCEPT ![t] = <<>>]
    /\ heap' = [m \in Msgs |-> IF m \in InQueue(t) THEN NULL ELSE heap[m]]
    /\ UNCHANGED <<registry, name, tid, hasq, callVars, wild>>

\* task->q = NULL, outside os_task_mutex.
ClearQueue(a, t) ==
    /\ Advance(a, t, "queue_freed", "queue_null")
    /\ hasq' = [hasq EXCEPT ![t] = FALSE]
    /\ UNCHANGED <<registry, name, tid, qlive, chan, heap, callVars, wild>>

Unlist(a, t) ==
    /\ Advance(a, t, "queue_null", "unlisted")
    /\ \E i \in DOMAIN registry :
          /\ registry[i] = t
          /\ registry' = SubSeq(registry, 1, i - 1) \o SubSeq(registry, i + 1, Len(registry))
    /\ UNCHANGED <<name, tid, hasq, qlive, chan, heap, callVars, wild>>

\* free(task); the thread, if there is one, ends and gives its tid up.
FreeTask(a, t) ==
    /\ Advance(a, t, "unlisted", "freed")
    /\ tid' = [tid EXCEPT ![t] = NULL]
    /\ name' = [name EXCEPT ![t] = NULL]
    /\ Return(a)
    /\ UNCHANGED <<registry, hasq, qlive, chan, heap, wild>>

-----------------------------------------------------------------------------
(* os_msg_send and os_msg_send2 by thread t *)

\* The message is allocated and filled in, with its dst.
Compose(t, m, n) ==
    /\ Idle(t) /\ heap[m] = NULL
    /\ heap' = [heap EXCEPT ![m] = n]
    /\ Call(t, "lookup", m, NULL)
    /\ UNCHANGED <<taskVars, qlive, chan, wild>>

\* A queue was found ...
Lookup(t) ==
    /\ pc[t] = "lookup"
    /\ LET u == AqGet(heap[msg[t]])
       IN  HasQueue(u) /\ Call(t, "push", msg[t], u)
    /\ UNCHANGED <<taskVars, qlive, chan, heap, wild>>

\* ... or not: -1, and the message is freed, by send2 or by its caller.
LookupFails(t) ==
    /\ pc[t] = "lookup"
    /\ ~HasQueue(AqGet(heap[msg[t]]))
    /\ heap' = [heap EXCEPT ![msg[t]] = NULL]
    /\ Return(t)
    /\ UNCHANGED <<taskVars, qlive, chan, wild>>

Blocked(u) == {t \in Threads : pc[t] = "blocked" /\ target[t] = u}

\* os_async_queue_push on the queue found, os_task_mutex no longer held.
Push(t) ==
    /\ pc[t] = "push" /\ qlive[target[t]]
    /\ chan' = [chan EXCEPT ![target[t]] = Append(@, msg[t])]
    /\ msg' = [msg EXCEPT ![t] = NULL]
    /\ \/ /\ Blocked(target[t]) = {}
          /\ pc' = [pc EXCEPT ![t] = "idle"]
       \/ \E w \in Blocked(target[t]) :
             pc' = [pc EXCEPT ![t] = "idle", ![w] = "woken"]
    /\ target' = [target EXCEPT ![t] = NULL]
    /\ UNCHANGED <<taskVars, qlive, heap, wild>>

\* The queue has been freed since: what happens from here on is undefined.
PushFreed(t) ==
    /\ pc[t] = "push" /\ ~qlive[target[t]]
    /\ wild' = TRUE
    /\ UNCHANGED <<taskVars, qlive, chan, heap, callVars>>

-----------------------------------------------------------------------------
(* os_msg_recv and os_msg_recv2 by thread t *)

\* A thread without a queue, like main(), is handed NULL at once.
Wait(t) ==
    /\ Idle(t)
    /\ LET u == AqSelf(t) IN HasQueue(u) /\ Call(t, "blocked", NULL, u)
    /\ UNCHANGED <<taskVars, qlive, chan, heap, wild>>

SpuriousWake(t) ==
    /\ SpuriousWakeups
    /\ pc[t] = "blocked"
    /\ pc' = [pc EXCEPT ![t] = "woken"]
    /\ UNCHANGED <<taskVars, qlive, chan, heap, msg, target, wild>>

Pop(t) ==
    /\ pc[t] = "woken"
    /\ \/ /\ chan[target[t]] # <<>>
          /\ Call(t, "got", Head(chan[target[t]]), NULL)
          /\ chan' = [chan EXCEPT ![target[t]] = Tail(@)]
       \/ /\ chan[target[t]] = <<>>
          /\ Return(t)
          /\ UNCHANGED chan
    /\ UNCHANGED <<taskVars, qlive, heap, wild>>

\* The receiver, or os_msg_recv2 once it has copied the data, frees it.
FreeMsg(t) ==
    /\ pc[t] = "got"
    /\ heap' = [heap EXCEPT ![msg[t]] = NULL]
    /\ Return(t)
    /\ UNCHANGED <<taskVars, qlive, chan, wild>>

-----------------------------------------------------------------------------
CreateStep(c) ==
    \/ \E t \in Tasks, n \in Names, async \in BOOLEAN : Create(c, t, n, async)
    \/ Start(c) \/ StartFails(c) \/ Routine(c)

EndStep(a) ==
    \/ FunctionReturns(a)
    \/ \E t \in Tasks : FreeQueue(a, t) \/ ClearQueue(a, t) \/ Unlist(a, t) \/ FreeTask(a, t)

SendStep(t) ==
    \/ \E m \in Msgs, n \in Names : Compose(t, m, n)
    \/ Lookup(t) \/ LookupFails(t) \/ Push(t) \/ PushFreed(t)

RecvStep(t) == Wait(t) \/ SpuriousWake(t) \/ Pop(t) \/ FreeMsg(t)

Next ==
    /\ ~wild
    /\ \E t \in Threads : CreateStep(t) \/ EndStep(t) \/ SendStep(t) \/ RecvStep(t)

Spec == Init /\ [][Next]_vars

-----------------------------------------------------------------------------
(* Safety *)

\* The list holds tasks that exist, each once: os_task_aq_get never reads a
\* freed task, and os_task_exit unlinks what is linked.
RegistryValid ==
    /\ \A i, j \in DOMAIN registry : registry[i] = registry[j] => i = j
    /\ \A i \in DOMAIN registry : life[registry[i]] \notin {"none", "unlisted", "freed"}

\* Although pthread_self values come back, os_task_aq_self finds the caller:
\* nobody receives from a queue that is not its own.
ReceivesFromOwnQueue ==
    \A t \in Threads :
        /\ life[t] = "running" => AqSelf(t) = t
        /\ pc[t] \in {"blocked", "woken"} => target[t] = t /\ qlive[t]

\* A message belongs to one thread or to one place in one queue from its
\* malloc to its free, across the end of tasks: none is leaked, freed twice or
\* received twice.
Holders(m) ==
    ({"thread"} \X {t \in Threads : msg[t] = m})
    \cup UNION {{u} \X {i \in DOMAIN chan[u] : chan[u][i] = m} : u \in Threads}
OneOwner ==
    \A m \in Msgs : Cardinality(Holders(m)) = IF heap[m] = NULL THEN 0 ELSE 1

\* A task receives only messages sent to its name, whichever tasks of the same
\* name, or tid, came and went.
DeliveredToName == \A t \in Threads : pc[t] = "got" => heap[msg[t]] = name[t]

-----------------------------------------------------------------------------
(* What the samples expect *)

\* sample/task_broadcast.c:24: a send to a task that is gone fails, and leaves
\* the message with its sender.
NoUseAfterFree == ~wild
=============================================================================
