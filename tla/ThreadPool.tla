----------------------------- MODULE ThreadPool -----------------------------
(***************************************************************************)
(* os_threadpool.c: one pool over its lifetime.  Its owner creates it and  *)
(* destroys it, any thread adds tasks to it, and its workers take them     *)
(* from an os_async_queue.  The queue is CondQueue, whose steps are the    *)
(* critical sections of os_async_queue.c.                                  *)
(***************************************************************************)
EXTENDS Integers, Sequences, FiniteSets

CONSTANTS MaxThreads,       \* the largest thread_count a create asks for
          Tasks,            \* the addresses malloc returns for a pool task
          NULL,             \* the null pointer
          SpuriousWakeups   \* whether pthread_cond_wait may return unsignalled

ASSUME ThreadPoolAssumption ==
    /\ MaxThreads \in 1 .. 63           \* MAX_THREADS, os_threadpool.h:8
    /\ IsFiniteSet(Tasks)
    /\ NULL \notin Tasks
    /\ SpuriousWakeups \in BOOLEAN

Workers == 1 .. MaxThreads

VARIABLES phase,  \* where the owner is in the life of the pool
          pool,   \* its thread_count, asked for and reached
          pc,     \* pc[w]: the statement of os_threadpool_thread w is at
          heap,   \* heap[k]: what the task at address k is
          queue, state, got   \* pool->queue

queueVars == <<queue, state, got>>
vars == <<phase, pool, pc, heap, queueVars>>

Q == INSTANCE CondQueue WITH Consumers <- Workers, Data <- Tasks,
                             QueueBound <- Cardinality(Tasks)

\* A task is not allocated; allocated, with a function or without one; or
\* allocated although nothing points to it any more.
Live == {"task", "null_function"}

TypeOK ==
    /\ phase \in {"none", "creating", "ready", "failing", "destroying"}
    /\ pool \in [wanted : 0 .. MaxThreads, thread_count : 0 .. MaxThreads]
    /\ pool.thread_count <= pool.wanted
    /\ pc \in [Workers -> {"unstarted", "pop", "popped", "run", "exited"}]
    /\ heap \in [Tasks -> {"free", "lost"} \cup Live]
    /\ Q!CondTypeOK

NoPool == [wanted |-> 0, thread_count |-> 0]

Init ==
    /\ phase = "none"
    /\ pool = NoPool
    /\ pc = [w \in Workers |-> "unstarted"]
    /\ heap = [k \in Tasks |-> "free"]
    /\ Q!CondInit

-----------------------------------------------------------------------------
(* Faulty steps, used by no specification: slips the properties must notice. *)

\* a worker that forgets to free its task
FinishNoFree(w) ==
    /\ pc[w] = "run"
    /\ pc' = [pc EXCEPT ![w] = "pop"]
    /\ UNCHANGED <<phase, pool, heap, queueVars>>

\* `if` the queue is empty, wait
WorkerWaitIf(w) ==
    /\ pc[w] = "pop"
    /\ state[w] = "idle"
    /\ state' = [state EXCEPT ![w] = IF queue = <<>> THEN "blocked" ELSE "woken"]
    /\ UNCHANGED <<phase, pool, pc, heap, queue, got>>

\* os_queue_pop_tail for os_queue_pop_head
WorkerPopTail(w) ==
    /\ state[w] = "woken" /\ queue # <<>>
    /\ state' = [state EXCEPT ![w] = "idle"]
    /\ got' = [got EXCEPT ![w] = queue[Len(queue)]]
    /\ queue' = SubSeq(queue, 1, Len(queue) - 1)
    /\ pc' = [pc EXCEPT ![w] = "popped"]
    /\ UNCHANGED <<phase, pool, heap>>

\* a loop over the workers that runs once too often
StartOneMore ==
    /\ phase = "creating" /\ pool.thread_count <= pool.wanted
    /\ pool' = [pool EXCEPT !.thread_count = @ + 1]
    /\ UNCHANGED <<phase, pc, heap, queueVars>>

\* a destroy that joins nobody
JoinNobody ==
    /\ phase \in {"failing", "destroying"}
    /\ phase' = "none"
    /\ pool' = NoPool
    /\ queue' = <<>>
    /\ UNCHANGED <<pc, heap, state, got>>

-----------------------------------------------------------------------------
(* The owner: os_threadpool_create and os_threadpool_destroy *)

\* The pool, its queue and its array of threads; a failed malloc undoes what
\* came before it and leaves no pool.
Create(n) ==
    /\ phase = "none"
    /\ phase' = "creating"
    /\ pool' = [wanted |-> n, thread_count |-> 0]
    /\ UNCHANGED <<pc, heap, queueVars>>

\* pthread_create succeeds for the next worker ...
StartWorker ==
    /\ phase = "creating" /\ pool.thread_count < pool.wanted
    /\ pool' = [pool EXCEPT !.thread_count = @ + 1]
    /\ pc' = [pc EXCEPT ![pool.thread_count + 1] = "pop"]
    /\ UNCHANGED <<phase, heap, queueVars>>

\* ... or fails, and create destroys the pool it has begun.
StartFails ==
    /\ phase = "creating" /\ pool.thread_count < pool.wanted
    /\ phase' = "failing"
    /\ UNCHANGED <<pool, pc, heap, queueVars>>

CreateReturns ==
    /\ phase = "creating" /\ pool.thread_count = pool.wanted
    /\ phase' = "ready"
    /\ UNCHANGED <<pool, pc, heap, queueVars>>

Destroy ==
    /\ phase = "ready"
    /\ phase' = "destroying"
    /\ UNCHANGED <<pool, pc, heap, queueVars>>

\* pthread_join of every started worker has returned: the threads and the
\* queue are freed, with whatever the queue still holds.
JoinAll ==
    /\ phase \in {"failing", "destroying"}
    /\ \A w \in 1 .. pool.thread_count : pc[w] = "exited"
    /\ phase' = "none"
    /\ pool' = NoPool
    /\ queue' = <<>>
    /\ heap' = [k \in Tasks |-> IF \E i \in DOMAIN queue : queue[i] = k
                                THEN "free" ELSE heap[k]]
    /\ UNCHANGED <<pc, state, got>>

-----------------------------------------------------------------------------
(* os_threadpool_add, by any thread that has the pool *)

\* pool->queue_size is compared with a constant create has bounded it by, and
\* never with the length of the queue.  An add that finds no memory changes nothing
\* of the pool.
Add(k, f) ==
    /\ phase \in {"ready", "destroying"}
    /\ heap[k] = "free"
    /\ heap' = [heap EXCEPT ![k] = f]
    /\ Q!Push(k)
    /\ UNCHANGED <<phase, pool, pc>>

-----------------------------------------------------------------------------
(* os_threadpool_thread *)

WorkerWait(w) ==
    /\ pc[w] = "pop"
    /\ Q!Wait(w)
    /\ UNCHANGED <<phase, pool, pc, heap>>

WorkerSpurious(w) == Q!SpuriousWake(w) /\ UNCHANGED <<phase, pool, pc, heap>>

WorkerPop(w) ==
    /\ Q!Pop(w)
    /\ pc' = [pc EXCEPT ![w] = "popped"]
    /\ UNCHANGED <<phase, pool, heap>>

\* task && task->function
WorkerRun(w) ==
    /\ pc[w] = "popped"
    /\ got[w] # NULL /\ heap[got[w]] = "task"
    /\ pc' = [pc EXCEPT ![w] = "run"]
    /\ UNCHANGED <<phase, pool, heap, queueVars>>

\* No task, or one without a function: back to the queue, the task unfreed.
WorkerSkip(w) ==
    /\ pc[w] = "popped"
    /\ \/ got[w] = NULL /\ UNCHANGED heap
       \/ /\ got[w] # NULL /\ heap[got[w]] # "task"
          /\ heap' = [heap EXCEPT ![got[w]] = "lost"]
    /\ pc' = [pc EXCEPT ![w] = "pop"]
    /\ UNCHANGED <<phase, pool, queueVars>>

\* The function returns, and the task is freed.
WorkerFinish(w) ==
    /\ pc[w] = "run"
    /\ heap' = [heap EXCEPT ![got[w]] = "free"]
    /\ pc' = [pc EXCEPT ![w] = "pop"]
    /\ UNCHANGED <<phase, pool, queueVars>>

-----------------------------------------------------------------------------
OwnerStep ==
    \/ \E n \in 1 .. MaxThreads : Create(n)
    \/ StartWorker \/ StartFails \/ CreateReturns \/ Destroy \/ JoinAll

WorkerStep(w) ==
    WorkerWait(w) \/ WorkerPop(w) \/ WorkerRun(w) \/ WorkerSkip(w) \/ WorkerFinish(w)

Next ==
    \/ OwnerStep
    \/ \E k \in Tasks, f \in Live : Add(k, f)
    \/ \E w \in Workers : WorkerStep(w) \/ WorkerSpurious(w)

Spec == Init /\ [][Next]_vars

(***************************************************************************)
(* The workers and a create or destroy in progress keep running; functions *)
(* return.  Nobody has to create, destroy or add.                          *)
(***************************************************************************)
FairSpec ==
    /\ Spec
    /\ \A w \in Workers : WF_vars(WorkerStep(w))
    /\ WF_vars(StartWorker \/ StartFails \/ CreateReturns \/ JoinAll)

-----------------------------------------------------------------------------
(* Safety *)

\* Where a task is: its positions in the queue and the workers that hold it.
Places(k) ==
    ({"queue"} \X {i \in DOMAIN queue : queue[i] = k})
    \cup ({"worker"} \X {w \in Workers : pc[w] \in {"popped", "run"} /\ got[w] = k})

\* A task is in one place from its add to its free, and nowhere outside: no
\* task is run twice, by two workers, or after its free.
OnePlace ==
    \A k \in Tasks : Cardinality(Places(k)) = IF heap[k] \in Live THEN 1 ELSE 0

\* The queue is not freed under a worker, by a failed create or by a destroy.
QueueOutlivesWorkers ==
    phase = "none" => \A w \in Workers : pc[w] \in {"unstarted", "exited"}

\* The tasks no worker has been woken for.  A worker that comes back to an
\* os_async_queue_pop with tasks queued does not look at them, so a pool that
\* was busy when a task was added stays that many tasks behind until some
\* pthread_cond_wait happens to return unsignalled.
PoolBacklog == Len(queue) - Cardinality(Q!Woken)
CatchesUpOnlyBySpuriousWake ==
    [][PoolBacklog' < PoolBacklog => \E w \in Workers : WorkerSpurious(w)]_vars

\* os_threadpool_destroy, and a failed create that calls it, come back only
\* from a pool none of whose workers was started: pool->shutdown, which they
\* leave unset, is read by no worker, and the join of a worker never returns.
ReturnsOnlyWithoutWorkers ==
    [][phase' = "none" /\ phase \in {"failing", "destroying"}
       => pool.thread_count = 0]_vars

-----------------------------------------------------------------------------
(* Liveness *)

\* A task that a worker has been woken for is taken, and its worker comes back
\* for more, whatever the other workers take meanwhile.
SignalledTaskTaken ==
    \A k \in Tasks :
        (queue # <<>> /\ Head(queue) = k /\ Q!Woken # {})
        ~> (\A i \in DOMAIN queue : queue[i] # k)

=============================================================================
