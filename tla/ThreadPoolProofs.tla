-------------------------- MODULE ThreadPoolProofs --------------------------
(***************************************************************************)
(* os_threadpool.c for any number of workers and any addresses of tasks,   *)
(* spurious wake-ups or not: the life of a pool, and where its tasks are.  *)
(***************************************************************************)
EXTENDS ThreadPool, FiniteSetTheorems, SequenceTheorems, TLAPS

\* How the life of the pool and of its workers go together: a worker that was
\* started never ends, and a pool with an owner outside create has one.
LifeInv ==
    /\ \A w \in Workers : pc[w] = "unstarted" <=> pool.thread_count < w
    /\ \A w \in Workers : pc[w] # "exited"
    /\ \A w \in Workers : state[w] # "idle" => pc[w] = "pop"
    /\ phase = "none" => pool.thread_count = 0
    /\ phase = "creating" => pool.wanted > 0
    /\ phase \in {"ready", "destroying"} => pool.thread_count > 0
    /\ phase \in {"none", "creating", "failing"} => queue = <<>>

PoolInv == TypeOK /\ LifeInv

Holds(w) == pc[w] \in {"popped", "run"}

\* OnePlace without counting: the places of a task are a queue without
\* repetitions and the workers, and what is in one of them is allocated.
PlaceInv ==
    /\ \A i, j \in DOMAIN queue : queue[i] = queue[j] => i = j
    /\ \A w \in Workers : Holds(w) => \A i \in DOMAIN queue : queue[i] # got[w]
    /\ \A v, w \in Workers :
          Holds(v) /\ Holds(w) /\ got[v] = got[w] /\ got[v] # NULL => v = w
    /\ \A w \in Workers : pc[w] = "run" => got[w] # NULL
    /\ \A k \in Tasks :
          heap[k] \in Live <=> \/ \E i \in DOMAIN queue : queue[i] = k
                               \/ \E w \in Workers : Holds(w) /\ got[w] = k

-----------------------------------------------------------------------------
\* thread_count is the number of a worker, or 0.
LEMMA WorkerNumbers ==
  MaxThreads \in Nat /\ 1 \in Workers /\ Workers \subseteq Nat
BY ThreadPoolAssumption DEF Workers

\* What a pop takes from the queue is a task, and the rest is a queue.
LEMMA PopTypes ==
  ASSUME TypeOK, NEW w \in Workers, Q!Pop(w)
  PROVE  Q!CondTypeOK'
<1>1. CASE queue # <<>>
  <2>1. Head(queue) \in Tasks /\ Tail(queue) \in Seq(Tasks)
    BY <1>1, HeadTailProperties DEF TypeOK, Q!CondTypeOK
  <2> QED
    BY <1>1, <2>1 DEF TypeOK, Q!CondTypeOK, Q!Pop
<1>2. CASE queue = <<>>
  BY <1>2 DEF TypeOK, Q!CondTypeOK, Q!Pop
<1> QED
  BY <1>1, <1>2

\* A push leaves a queue and wakes one worker at most.
LEMMA PushTypes ==
  ASSUME TypeOK, NEW k \in Tasks, Q!Push(k)
  PROVE  Q!CondTypeOK'
<1>1. queue' \in Seq(Tasks)
  BY AppendProperties DEF TypeOK, Q!CondTypeOK, Q!Push
<1>2. state' \in [Workers -> {"idle", "blocked", "woken"}]
  BY DEF TypeOK, Q!CondTypeOK, Q!Push, Q!Signal, Q!Blocked
<1> QED
  BY <1>1, <1>2 DEF TypeOK, Q!CondTypeOK, Q!Push

\* Before anything is created.
LEMMA PoolInitInv == Init => PoolInv /\ PlaceInv
<1> SUFFICES ASSUME Init PROVE PoolInv /\ PlaceInv
  OBVIOUS
<1>1. TypeOK
  BY WorkerNumbers, EmptySeq DEF Init, TypeOK, NoPool, Q!CondInit, Q!CondTypeOK
<1>2. LifeInv
  BY WorkerNumbers DEF Init, LifeInv, NoPool, Workers, Q!CondInit
<1>3. PlaceInv
  BY DEF Init, PlaceInv, Holds, Live, Q!CondInit
<1> QED
  BY <1>1, <1>2, <1>3 DEF PoolInv

\* A create and a destroy go on only in a pool without workers.
LEMMA JoinNeedsNoWorker ==
  ASSUME PoolInv, JoinAll
  PROVE  /\ phase = "failing" /\ pool.thread_count = 0
         /\ queue = <<>>
         /\ \A w \in Workers : pc[w] = "unstarted"
         /\ heap' = heap
<1>1. pool.thread_count = 0
  <2>1. SUFFICES ASSUME pool.thread_count > 0 PROVE FALSE
    BY DEF PoolInv, TypeOK
  <2>2. 1 \in 1 .. pool.thread_count
    BY <2>1 DEF PoolInv, TypeOK
  <2>3. pc[1] = "exited"
    BY <2>2 DEF JoinAll
  <2> QED
    BY <2>3, WorkerNumbers DEF PoolInv, LifeInv
<1>2. phase = "failing" /\ queue = <<>>
  BY <1>1 DEF PoolInv, LifeInv, JoinAll
<1>3. \A w \in Workers : pc[w] = "unstarted"
  BY <1>1 DEF PoolInv, LifeInv, Workers
<1>4. heap' = heap
  BY <1>2 DEF PoolInv, TypeOK, JoinAll
<1> QED
  BY <1>1, <1>2, <1>3, <1>4

-----------------------------------------------------------------------------
\* The owner's steps.
LEMMA OwnerKeepsPoolInv ==
  ASSUME PoolInv, OwnerStep
  PROVE  PoolInv'
<1> USE WorkerNumbers DEF PoolInv
<1>1. ASSUME NEW n \in 1 .. MaxThreads, Create(n) PROVE PoolInv'
  BY <1>1 DEF Create, TypeOK, LifeInv, Q!CondTypeOK, queueVars
<1>2. CASE StartWorker
  <2>1. pool.thread_count + 1 \in Workers
    BY <1>2 DEF StartWorker, TypeOK, Workers
  <2>2. TypeOK'
    BY <1>2, <2>1 DEF StartWorker, TypeOK, Q!CondTypeOK, queueVars
  <2>3. \A w \in Workers : pc'[w] = "unstarted" <=> pool'.thread_count < w
    BY <1>2, <2>1 DEF StartWorker, TypeOK, LifeInv, Workers
  <2> QED
    BY <1>2, <2>1, <2>2, <2>3 DEF StartWorker, TypeOK, LifeInv, queueVars
<1>3. CASE StartFails
  BY <1>3 DEF StartFails, TypeOK, LifeInv, Q!CondTypeOK, queueVars
<1>4. CASE CreateReturns
  BY <1>4 DEF CreateReturns, TypeOK, LifeInv, Q!CondTypeOK, queueVars
<1>5. CASE Destroy
  BY <1>5 DEF Destroy, TypeOK, LifeInv, Q!CondTypeOK, queueVars
<1>6. CASE JoinAll
  <2>1. queue' = queue /\ state' = state /\ got' = got /\ pc' = pc /\ heap' = heap
    BY <1>6, JoinNeedsNoWorker DEF JoinAll
  <2>2. TypeOK'
    BY <1>6, <2>1 DEF JoinAll, TypeOK, NoPool, Q!CondTypeOK
  <2>3. LifeInv'
    BY <1>6, <2>1, JoinNeedsNoWorker DEF JoinAll, LifeInv, NoPool, Workers
  <2> QED
    BY <2>2, <2>3
<1> QED
  BY <1>1, <1>2, <1>3, <1>4, <1>5, <1>6 DEF OwnerStep

\* A signal wakes a worker that was in a pop before.
LEMMA AddKeepsPoolInv ==
  ASSUME PoolInv, NEW k \in Tasks, NEW f \in Live, Add(k, f)
  PROVE  PoolInv'
<1>1. TypeOK'
  BY PushTypes DEF PoolInv, Add, TypeOK
<1>2. \A w \in Workers : state'[w] # "idle" => pc'[w] = "pop"
  BY DEF PoolInv, TypeOK, LifeInv, Add, Q!Push, Q!Signal, Q!Blocked, Q!CondTypeOK
<1> QED
  BY <1>1, <1>2 DEF PoolInv, LifeInv, Add

\* The workers' steps.
LEMMA WorkerKeepsPoolInv ==
  ASSUME PoolInv, NEW w \in Workers, WorkerStep(w) \/ WorkerSpurious(w)
  PROVE  PoolInv'
<1> USE WorkerNumbers DEF PoolInv
<1>1. CASE WorkerWait(w)
  BY <1>1 DEF WorkerWait, Q!Wait, TypeOK, LifeInv, Q!CondTypeOK
<1>2. CASE WorkerSpurious(w)
  BY <1>2 DEF WorkerSpurious, Q!SpuriousWake, TypeOK, LifeInv, Q!CondTypeOK
<1>3. CASE WorkerPop(w)
  <2>1. TypeOK'
    BY <1>3, PopTypes DEF WorkerPop, TypeOK
  <2>2. pc[w] = "pop" /\ state'[w] = "idle"
    BY <1>3 DEF WorkerPop, Q!Pop, TypeOK, LifeInv, Q!CondTypeOK
  <2>3. queue = <<>> => queue' = <<>>
    BY <1>3 DEF WorkerPop, Q!Pop
  <2>4. \A v \in Workers \ {w} : state'[v] = state[v] /\ pc'[v] = pc[v]
    BY <1>3 DEF WorkerPop, Q!Pop, TypeOK, Q!CondTypeOK
  <2>5. pc'[w] = "popped" /\ UNCHANGED <<phase, pool>>
    BY <1>3 DEF WorkerPop, TypeOK
  <2> QED
    BY <2>1, <2>2, <2>3, <2>4, <2>5 DEF LifeInv
<1>4. CASE WorkerRun(w)
  BY <1>4 DEF WorkerRun, TypeOK, LifeInv, Q!CondTypeOK, queueVars
<1>5. CASE WorkerSkip(w)
  BY <1>5 DEF WorkerSkip, TypeOK, LifeInv, Q!CondTypeOK, queueVars
<1>6. CASE WorkerFinish(w)
  BY <1>6 DEF WorkerFinish, TypeOK, LifeInv, Q!CondTypeOK, queueVars
<1> QED
  BY <1>1, <1>2, <1>3, <1>4, <1>5, <1>6 DEF WorkerStep

\* PoolInv is inductive.
LEMMA PoolStep == PoolInv /\ [Next]_vars => PoolInv'
<1> SUFFICES ASSUME PoolInv, [Next]_vars PROVE PoolInv'
  OBVIOUS
<1>1. CASE UNCHANGED vars
  BY <1>1 DEF PoolInv, TypeOK, LifeInv, vars, queueVars, Q!CondTypeOK
<1> QED
  BY <1>1, OwnerKeepsPoolInv, AddKeepsPoolInv, WorkerKeepsPoolInv DEF Next

\* The variables of os_threadpool.c keep their types, for any number of threads.
THEOREM PoolTypes == Spec => []TypeOK
<1>1. PoolInv => TypeOK
  BY DEF PoolInv
<1> QED
  BY PoolInitInv, PoolStep, <1>1, PTL DEF Spec

\* The queue of a pool is not freed while a worker may use it: not by a create
\* that fails half-way, and not by os_threadpool_destroy.
THEOREM QueueIsSafe == Spec => []QueueOutlivesWorkers
<1>1. PoolInv => QueueOutlivesWorkers
  BY WorkerNumbers DEF PoolInv, LifeInv, QueueOutlivesWorkers, Workers
<1> QED
  BY PoolInitInv, PoolStep, <1>1, PTL DEF Spec

\* os_threadpool_destroy never returns from a pool that has a worker.
THEOREM DestroyWaitsForEver == Spec => ReturnsOnlyWithoutWorkers
<1>1. PoolInv /\ [Next]_vars
      => [phase' = "none" /\ phase \in {"failing", "destroying"}
          => pool.thread_count = 0]_vars
  <2> SUFFICES ASSUME PoolInv, Next, phase' = "none", phase \in {"failing", "destroying"}
               PROVE  pool.thread_count = 0
    BY DEF vars
  <2>1. JoinAll
    BY DEF Next, OwnerStep, Create, StartWorker, StartFails, CreateReturns, Destroy,
           Add, WorkerStep, WorkerSpurious, WorkerWait, WorkerPop, WorkerRun,
           WorkerSkip, WorkerFinish
  <2> QED
    BY <2>1, JoinNeedsNoWorker
<1> QED
  BY PoolInitInv, PoolStep, <1>1, PTL DEF Spec, ReturnsOnlyWithoutWorkers

-----------------------------------------------------------------------------
\* There are finitely many workers, so the woken ones can be counted.
LEMMA WokenWorkers == IsFiniteSet(Q!Woken) /\ Cardinality(Q!Woken) \in Nat
<1>1. IsFiniteSet(Workers)
  BY WorkerNumbers, FS_Interval DEF Workers
<1>2. Q!Woken \in SUBSET Workers
  BY DEF Q!Woken
<1> QED
  BY <1>1, <1>2, FS_Subset, FS_CardinalityType

\* A push adds one task and one woken worker at most.
LEMMA PushKeepsBacklog ==
  ASSUME TypeOK, NEW k \in Tasks, Q!Push(k)
  PROVE  ~(PoolBacklog' < PoolBacklog)
<1>1. Len(queue) \in Nat /\ Len(queue') = Len(queue) + 1
  BY AppendProperties, LenProperties DEF TypeOK, Q!CondTypeOK, Q!Push
<1>2. CASE \E w \in Q!Blocked : state' = [state EXCEPT ![w] = "woken"]
  <2>1. PICK w \in Q!Blocked : state' = [state EXCEPT ![w] = "woken"]
    BY <1>2
  <2>2. Q!Woken' = Q!Woken \cup {w} /\ w \notin Q!Woken
    BY <2>1 DEF TypeOK, Q!CondTypeOK, Q!Woken, Q!Blocked
  <2>3. Cardinality(Q!Woken') = Cardinality(Q!Woken) + 1
    BY <2>2, WokenWorkers, FS_AddElement
  <2> QED
    BY <1>1, <2>3, WokenWorkers DEF PoolBacklog
<1>3. CASE UNCHANGED state
  <2>1. Q!Woken' = Q!Woken
    BY <1>3 DEF Q!Woken
  <2> QED
    BY <1>1, <2>1, WokenWorkers DEF PoolBacklog
<1> QED
  BY <1>2, <1>3 DEF Q!Push, Q!Signal

\* A pop takes one task at most, and its worker is no longer woken.
LEMMA PopKeepsBacklog ==
  ASSUME TypeOK, NEW w \in Workers, Q!Pop(w)
  PROVE  ~(PoolBacklog' < PoolBacklog)
<1>1. Q!Woken' = Q!Woken \ {w} /\ w \in Q!Woken
  BY DEF TypeOK, Q!CondTypeOK, Q!Woken, Q!Pop
<1>2. Cardinality(Q!Woken') = Cardinality(Q!Woken) - 1
  BY <1>1, WokenWorkers, FS_RemoveElement
<1>3. Len(queue) \in Nat /\ Len(queue') \in Nat /\ Len(queue') >= Len(queue) - 1
  <2>1. CASE queue # <<>>
    BY <2>1, HeadTailProperties, LenProperties DEF TypeOK, Q!CondTypeOK, Q!Pop
  <2>2. CASE queue = <<>>
    BY <2>2, LenProperties DEF TypeOK, Q!CondTypeOK, Q!Pop
  <2> QED
    BY <2>1, <2>2
<1> QED
  BY <1>2, <1>3, WokenWorkers DEF PoolBacklog

\* Every other step leaves both counts alone, or is spurious.
LEMMA BacklogStep ==
  ASSUME PoolInv, Next, ~ \E w \in Workers : WorkerSpurious(w)
  PROVE  ~(PoolBacklog' < PoolBacklog)
<1>0. PoolBacklog \in Int
  BY WokenWorkers, LenProperties DEF PoolInv, TypeOK, Q!CondTypeOK, PoolBacklog
<1>1. ASSUME UNCHANGED <<queue, state>> PROVE ~(PoolBacklog' < PoolBacklog)
  <2>1. PoolBacklog' = PoolBacklog
    BY <1>1 DEF PoolBacklog, Q!Woken
  <2> QED
    BY <1>0, <2>1
<1>2. CASE OwnerStep
  <2>1. UNCHANGED <<queue, state>>
    BY <1>2, JoinNeedsNoWorker DEF OwnerStep, Create, StartWorker, StartFails,
       CreateReturns, Destroy, JoinAll, queueVars
  <2> QED
    BY <1>1, <2>1
<1>3. ASSUME NEW k \in Tasks, NEW f \in Live, Add(k, f)
      PROVE  ~(PoolBacklog' < PoolBacklog)
  BY <1>3, PushKeepsBacklog DEF PoolInv, Add
<1>4. ASSUME NEW w \in Workers, WorkerStep(w) PROVE ~(PoolBacklog' < PoolBacklog)
  <2>1. CASE WorkerWait(w)
    <3>1. Q!Woken' = Q!Woken /\ queue' = queue
      BY <2>1 DEF PoolInv, TypeOK, Q!CondTypeOK, WorkerWait, Q!Wait, Q!Woken
    <3>2. PoolBacklog' = PoolBacklog
      BY <3>1 DEF PoolBacklog
    <3> QED
      BY <1>0, <3>2
  <2>2. CASE WorkerPop(w)
    BY <2>2, PopKeepsBacklog DEF PoolInv, WorkerPop
  <2>3. CASE WorkerRun(w) \/ WorkerSkip(w) \/ WorkerFinish(w)
    BY <2>3, <1>1 DEF WorkerRun, WorkerSkip, WorkerFinish, queueVars
  <2> QED
    BY <1>4, <2>1, <2>2, <2>3 DEF WorkerStep
<1> QED
  BY <1>2, <1>3, <1>4 DEF Next

\* A pool whose workers were all busy when a task was added stays behind: only a
\* pthread_cond_wait that returns unsignalled makes up for it.
THEOREM BusyPoolStaysBehind == Spec => CatchesUpOnlyBySpuriousWake
<1>1. PoolInv /\ [Next]_vars
      => [PoolBacklog' < PoolBacklog => \E w \in Workers : WorkerSpurious(w)]_vars
  <2> SUFFICES ASSUME PoolInv, Next, ~ \E w \in Workers : WorkerSpurious(w)
               PROVE  ~(PoolBacklog' < PoolBacklog)
    BY DEF vars
  <2> QED
    BY BacklogStep
<1> QED
  BY PoolInitInv, PoolStep, <1>1, PTL DEF Spec, CatchesUpOnlyBySpuriousWake

-----------------------------------------------------------------------------
\* Steps that touch no task: of the owner, and of a worker on its way to a pop.
LEMMA PlaceUntouched ==
  ASSUME PlaceInv, UNCHANGED <<queue, got, heap>>,
         \A w \in Workers : /\ Holds(w)' <=> Holds(w)
                            /\ pc'[w] = "run" => pc[w] = "run" \/ got[w] # NULL
  PROVE  PlaceInv'
BY DEF PlaceInv

\* A task is at a free address when it is added, so nobody has it yet.
LEMMA AddKeepsPlaces ==
  ASSUME PoolInv, PlaceInv, NEW k \in Tasks, NEW f \in Live, Add(k, f)
  PROVE  PlaceInv'
<1>1. /\ DOMAIN queue = 1 .. Len(queue) /\ DOMAIN queue' = 1 .. Len(queue')
      /\ Len(queue) \in Nat /\ Len(queue') = Len(queue) + 1
      /\ \A i \in DOMAIN queue : queue'[i] = queue[i]
      /\ queue'[Len(queue')] = k
  BY LenProperties, AppendProperties DEF PoolInv, TypeOK, Q!CondTypeOK, Add, Q!Push
<1>2. /\ heap[k] = "free" /\ heap' = [heap EXCEPT ![k] = f]
      /\ heap \in [Tasks -> {"free", "lost"} \cup Live]
      /\ UNCHANGED <<pc, got>>
  BY DEF PoolInv, TypeOK, Add, Q!Push
<1>3. \A w \in Workers : Holds(w)' <=> Holds(w)
  BY <1>2 DEF Holds
<1>4. /\ \A i \in DOMAIN queue : queue[i] # k
      /\ \A w \in Workers : Holds(w) => got[w] # k
  BY <1>2 DEF PlaceInv, Live
<1>5. \A i \in DOMAIN queue' : i \in DOMAIN queue \/ i = Len(queue')
  BY <1>1
<1>6. \A i, j \in DOMAIN queue' : queue'[i] = queue'[j] => i = j
  BY <1>1, <1>4, <1>5 DEF PlaceInv
<1>7. \A w \in Workers : Holds(w)' => \A i \in DOMAIN queue' : queue'[i] # got'[w]
  BY <1>1, <1>2, <1>3, <1>4, <1>5 DEF PlaceInv
<1>8. ASSUME NEW x \in Tasks
      PROVE  heap'[x] \in Live <=> \/ \E i \in DOMAIN queue' : queue'[i] = x
                                   \/ \E w \in Workers : Holds(w)' /\ got'[w] = x
  <2>1. (\E i \in DOMAIN queue' : queue'[i] = x)
        <=> x = k \/ \E i \in DOMAIN queue : queue[i] = x
    BY <1>1, <1>5
  <2>2. heap'[x] \in Live <=> x = k \/ heap[x] \in Live
    BY <1>2
  <2> QED
    BY <1>2, <1>3, <2>1, <2>2 DEF PlaceInv
<1> QED
  BY <1>2, <1>3, <1>6, <1>7, <1>8 DEF PlaceInv

\* A pop moves the oldest task from the queue to the worker.
LEMMA PopKeepsPlaces ==
  ASSUME PoolInv, PlaceInv, NEW w \in Workers, WorkerPop(w)
  PROVE  PlaceInv'
<1>1. /\ ~Holds(w) /\ Holds(w)' /\ pc'[w] = "popped" /\ UNCHANGED heap
      /\ \A v \in Workers \ {w} : pc'[v] = pc[v] /\ got'[v] = got[v]
      /\ \A v \in Workers \ {w} : Holds(v)' <=> Holds(v)
  BY DEF PoolInv, TypeOK, LifeInv, Q!CondTypeOK, WorkerPop, Q!Pop, Holds
<1>2. CASE queue = <<>>
  <2>1. got'[w] = NULL /\ UNCHANGED queue
    BY <1>2 DEF PoolInv, TypeOK, Q!CondTypeOK, WorkerPop, Q!Pop
  <2>2. NULL \notin Tasks
    BY ThreadPoolAssumption
  <2>3. \A i \in DOMAIN queue : queue[i] # NULL
    BY <1>2
  <2>4. \A v \in Workers : Holds(v)' => \A i \in DOMAIN queue' : queue'[i] # got'[v]
    BY <1>1, <2>1, <2>3 DEF PlaceInv
  <2>5. \A u, v \in Workers :
           Holds(u)' /\ Holds(v)' /\ got'[u] = got'[v] /\ got'[u] # NULL => u = v
    BY <1>1, <2>1 DEF PlaceInv
  <2>6. \A x \in Tasks : (\E v \in Workers : Holds(v)' /\ got'[v] = x)
                         <=> (\E v \in Workers : Holds(v) /\ got[v] = x)
    BY <1>1, <2>1, <2>2
  <2> QED
    BY <1>1, <2>1, <2>4, <2>5, <2>6 DEF PlaceInv
<1>3. CASE queue # <<>>
  <2>1. /\ Len(queue) \in Nat \ {0} /\ Len(queue') = Len(queue) - 1
        /\ DOMAIN queue = 1 .. Len(queue) /\ DOMAIN queue' = 1 .. Len(queue')
        /\ \A i \in DOMAIN queue' : queue'[i] = queue[i + 1]
        /\ got'[w] = queue[1] /\ queue[1] \in Tasks
    <3>1. queue \in Seq(Tasks) /\ queue' = Tail(queue) /\ got'[w] = Head(queue)
      BY <1>3 DEF PoolInv, TypeOK, Q!CondTypeOK, WorkerPop, Q!Pop
    <3>2. Tail(queue) \in Seq(Tasks) /\ Len(Tail(queue)) = Len(queue) - 1
      BY <1>3, <3>1, HeadTailProperties
    <3>3. \A i \in 1 .. Len(Tail(queue)) : Tail(queue)[i] = queue[i + 1]
      BY <1>3, <3>1, HeadTailProperties
    <3>4. Len(queue) \in Nat \ {0} /\ Head(queue) = queue[1] /\ queue[1] \in Tasks
      BY <1>3, <3>1, EmptySeq, LenProperties
    <3> QED
      BY <3>1, <3>2, <3>3, <3>4, LenProperties
  <2>2. \A i \in DOMAIN queue' : i + 1 \in DOMAIN queue /\ i + 1 # 1
    BY <2>1
  <2>3. \A i, j \in DOMAIN queue' : queue'[i] = queue'[j] => i = j
    <3> SUFFICES ASSUME NEW i \in DOMAIN queue', NEW j \in DOMAIN queue',
                        queue'[i] = queue'[j]
                 PROVE  i = j
      OBVIOUS
    <3>1. i + 1 = j + 1
      BY <2>1, <2>2 DEF PlaceInv
    <3> QED
      BY <2>1, <3>1
  <2>4. \A i \in DOMAIN queue' : queue'[i] # queue[1]
    BY <2>1, <2>2 DEF PlaceInv
  <2>5. \A v \in Workers : Holds(v) => got[v] # queue[1]
    BY <2>1 DEF PlaceInv
  <2>6. \A v \in Workers : Holds(v)' => \A i \in DOMAIN queue' : queue'[i] # got'[v]
    BY <1>1, <2>1, <2>2, <2>4 DEF PlaceInv
  <2>7. \A u, v \in Workers :
           Holds(u)' /\ Holds(v)' /\ got'[u] = got'[v] /\ got'[u] # NULL => u = v
    BY <1>1, <2>1, <2>5 DEF PlaceInv
  <2>8. ASSUME NEW x \in Tasks
        PROVE  heap[x] \in Live <=> \/ \E i \in DOMAIN queue' : queue'[i] = x
                                    \/ \E v \in Workers : Holds(v)' /\ got'[v] = x
    <3>1. (\E i \in DOMAIN queue : queue[i] = x)
          <=> x = queue[1] \/ \E i \in DOMAIN queue' : queue'[i] = x
      <4>1. \A i \in DOMAIN queue : i = 1 \/ (i - 1 \in DOMAIN queue' /\ (i - 1) + 1 = i)
        BY <2>1
      <4>2. 1 \in DOMAIN queue
        BY <2>1
      <4> QED
        BY <2>1, <2>2, <4>1, <4>2
    <3>2. (\E v \in Workers : Holds(v)' /\ got'[v] = x)
          <=> x = queue[1] \/ \E v \in Workers : Holds(v) /\ got[v] = x
      BY <1>1, <2>1
    <3> QED
      BY <3>1, <3>2 DEF PlaceInv
  <2> QED
    BY <1>1, <2>3, <2>6, <2>7, <2>8 DEF PlaceInv
<1> QED
  BY <1>2, <1>3

\* A worker lets go of what it holds: the task is freed, or lost for good.
LEMMA LetGoKeepsPlaces ==
  ASSUME PoolInv, PlaceInv, NEW w \in Workers, NEW x \in {"free", "lost"},
         Holds(w), pc' = [pc EXCEPT ![w] = "pop"], UNCHANGED <<queue, got>>,
         \/ got[w] = NULL /\ UNCHANGED heap
         \/ got[w] # NULL /\ heap' = [heap EXCEPT ![got[w]] = x]
  PROVE  PlaceInv'
<1>1. /\ ~Holds(w)' /\ pc'[w] = "pop"
      /\ \A v \in Workers \ {w} : pc'[v] = pc[v] /\ (Holds(v)' <=> Holds(v))
  BY DEF PoolInv, TypeOK, Holds
<1>2. ASSUME NEW k \in Tasks
      PROVE  heap'[k] \in Live <=> heap[k] \in Live /\ k # got[w]
  BY ThreadPoolAssumption DEF PoolInv, TypeOK, Q!CondTypeOK, Live
<1>3. ASSUME NEW k \in Tasks
      PROVE  (\E v \in Workers : Holds(v)' /\ got'[v] = k)
             <=> (\E v \in Workers : Holds(v) /\ got[v] = k) /\ k # got[w]
  BY <1>1, ThreadPoolAssumption DEF PlaceInv
<1>4. ASSUME NEW k \in Tasks, \E i \in DOMAIN queue : queue[i] = k
      PROVE  k # got[w]
  BY <1>4 DEF PlaceInv
<1>5. \A k \in Tasks :
        heap'[k] \in Live <=> \/ \E i \in DOMAIN queue' : queue'[i] = k
                              \/ \E v \in Workers : Holds(v)' /\ got'[v] = k
  BY <1>2, <1>3, <1>4 DEF PlaceInv
<1> QED
  BY <1>1, <1>5 DEF PlaceInv

\* PlaceInv is inductive, beside PoolInv.
LEMMA PlaceStep == PoolInv /\ PlaceInv /\ [Next]_vars => PlaceInv'
<1> SUFFICES ASSUME PoolInv, PlaceInv, [Next]_vars PROVE PlaceInv'
  OBVIOUS
<1>1. CASE OwnerStep
  <2>1. UNCHANGED <<queue, got, heap>>
    BY <1>1, JoinNeedsNoWorker DEF OwnerStep, Create, StartWorker, StartFails,
       CreateReturns, Destroy, JoinAll, queueVars
  <2>2. CASE StartWorker
    <3>1. pool.thread_count + 1 \in Workers /\ pc[pool.thread_count + 1] = "unstarted"
      BY <2>2, WorkerNumbers DEF StartWorker, PoolInv, TypeOK, LifeInv, Workers
    <3>2. \A w \in Workers : /\ Holds(w)' <=> Holds(w)
                             /\ pc'[w] = "run" => pc[w] = "run"
      BY <2>2, <3>1 DEF StartWorker, PoolInv, TypeOK, Holds
    <3> QED
      BY <2>1, <3>2, PlaceUntouched
  <2>3. CASE UNCHANGED pc
    BY <2>1, <2>3, PlaceUntouched DEF Holds
  <2> QED
    BY <1>1, <2>2, <2>3 DEF OwnerStep, Create, StartFails, CreateReturns, Destroy, JoinAll
<1>2. ASSUME NEW k \in Tasks, NEW f \in Live, Add(k, f) PROVE PlaceInv'
  BY <1>2, AddKeepsPlaces
<1>3. ASSUME NEW w \in Workers, WorkerWait(w) \/ WorkerSpurious(w) PROVE PlaceInv'
  BY <1>3, PlaceUntouched DEF WorkerWait, WorkerSpurious, Q!Wait, Q!SpuriousWake, Holds
<1>4. ASSUME NEW w \in Workers, WorkerPop(w) PROVE PlaceInv'
  BY <1>4, PopKeepsPlaces
<1>5. ASSUME NEW w \in Workers, WorkerRun(w) PROVE PlaceInv'
  <2>1. \A v \in Workers : /\ Holds(v)' <=> Holds(v)
                           /\ pc'[v] = "run" => pc[v] = "run" \/ got[v] # NULL
    BY <1>5 DEF WorkerRun, PoolInv, TypeOK, Holds
  <2> QED
    BY <1>5, <2>1, PlaceUntouched DEF WorkerRun, queueVars
<1>6. ASSUME NEW w \in Workers, WorkerSkip(w) PROVE PlaceInv'
  BY <1>6, LetGoKeepsPlaces DEF WorkerSkip, Holds, queueVars
<1>7. ASSUME NEW w \in Workers, WorkerFinish(w) PROVE PlaceInv'
  <2>1. Holds(w) /\ got[w] # NULL
    BY <1>7 DEF WorkerFinish, PlaceInv, Holds
  <2> QED
    BY <1>7, <2>1, LetGoKeepsPlaces DEF WorkerFinish, queueVars
<1>8. CASE UNCHANGED vars
  BY <1>8, PlaceUntouched DEF vars, queueVars, Holds
<1> QED
  BY <1>1, <1>2, <1>3, <1>4, <1>5, <1>6, <1>7, <1>8 DEF Next, WorkerStep

\* What PlaceInv says, counted.
LEMMA PlacesCounted == PoolInv /\ PlaceInv => OnePlace
<1> SUFFICES ASSUME PoolInv, PlaceInv, NEW k \in Tasks
             PROVE  Cardinality(Places(k)) = IF heap[k] \in Live THEN 1 ELSE 0
  BY DEF OnePlace
<1> DEFINE inQueue == {i \in DOMAIN queue : queue[i] = k}
           atWorkers == {w \in Workers : Holds(w) /\ got[w] = k}
<1>1. Places(k) = ({"queue"} \X inQueue) \cup ({"worker"} \X atWorkers)
  BY DEF Places, Holds
<1>2. CASE inQueue # {}
  <2>1. PICK i \in inQueue : TRUE
    BY <1>2
  <2>2. inQueue = {i} /\ atWorkers = {}
    BY <2>1 DEF PlaceInv
  <2>3. Places(k) = {<<"queue", i>>}
    BY <1>1, <2>2
  <2>4. heap[k] \in Live
    BY <2>1 DEF PlaceInv
  <2> QED
    BY <2>3, <2>4, FS_Singleton
<1>3. CASE inQueue = {} /\ atWorkers # {}
  <2>1. PICK w \in atWorkers : TRUE
    BY <1>3
  <2>2. atWorkers = {w}
    BY <2>1, ThreadPoolAssumption DEF PlaceInv
  <2>3. Places(k) = {<<"worker", w>>}
    BY <1>1, <1>3, <2>2
  <2>4. heap[k] \in Live
    BY <2>1 DEF PlaceInv
  <2> QED
    BY <2>3, <2>4, FS_Singleton
<1>4. CASE inQueue = {} /\ atWorkers = {}
  <2>1. Places(k) = {}
    BY <1>1, <1>4
  <2>2. heap[k] \notin Live
    BY <1>4 DEF PlaceInv
  <2> QED
    BY <2>1, <2>2, FS_EmptySet
<1> QED
  BY <1>2, <1>3, <1>4

\* A pool task is queued once or held by one worker from its add to its free: no
\* task is run twice, by two workers, or after it was freed.
THEOREM TaskHasOnePlace == Spec => []OnePlace
BY PoolInitInv, PoolStep, PlaceStep, PlacesCounted, PTL DEF Spec
=============================================================================
