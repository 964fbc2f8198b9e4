-------------------------- MODULE TcpServerProofs ---------------------------
(***************************************************************************)
(* os_tcp_server.c on its pool for any number of threads and connections,  *)
(* whatever the memory of the struct held.  The invariant says how far the *)
(* server, its accept task and its pool are in their lives, and where each *)
(* connection is.                                                          *)
(***************************************************************************)
EXTENDS TcpServer, SequenceTheorems, FiniteSetTheorems, TLAPS

Workers == 1 .. MaxThreads

\* The life of the server and of its accept task.
ServerInv ==
    /\ owner \in {"none", "refused", "failed"} => acceptor = "none"
    /\ sem = 1 => acceptor = "ended"
    /\ owner = "destroyed" => acceptor = "ended"
    /\ conn # NULL <=> acceptor \in {"cb", "user_data", "add"}

\* The life of the pool, which nobody destroys but a create that fails.
PoolInv ==
    /\ phase \in {"none", "creating", "ready", "failing"}
    /\ phase # "ready" => queue = <<>>
    /\ acceptor \in {"none", "start"} => phase = "none"
    /\ acceptor \in {"accept", "cb", "user_data", "add"} => phase = "ready"
    /\ phase = "none" => pool.thread_count = 0
    /\ \A w \in Workers : pc[w] = "unstarted" <=> pool.thread_count < w
    /\ \A w \in Workers : pc[w] # "exited"
    /\ \A w \in Workers : state[w] # "idle" => pc[w] = "pop"

Holding(w, c) == pc[w] \in {"popped", "run"} /\ got[w] = c
AtWorker(c) == \E w \in Workers : Holding(w, c)
Held(c) == InSeq(c, pending) \/ conn = c \/ InSeq(c, queue) \/ AtWorker(c)

Distinct(s) == \A i, j \in DOMAIN s : s[i] = s[j] => i = j

\* OneHolder without counting.
PlaceInv ==
    /\ Distinct(pending) /\ Distinct(queue)
    /\ \A c \in Conns : InSeq(c, pending) => conn # c /\ ~InSeq(c, queue) /\ ~AtWorker(c)
    /\ \A c \in Conns : InSeq(c, queue) => conn # c /\ ~AtWorker(c)
    /\ \A c \in Conns : AtWorker(c) => conn # c
    /\ \A c \in Conns : \A v, w \in Workers : Holding(v, c) /\ Holding(w, c) => v = w
    /\ \A c \in Conns : InSeq(c, queue) \/ AtWorker(c) => heap[c] = "task"
    /\ \A w \in Workers : pc[w] = "run" => got[w] \in Conns

\* What the client has done says whether somebody holds its connection; one that
\* was let go of stays so.
ClientInv ==
    /\ \A c \in Conns : client[c] \in {"none", "answered"} => ~Held(c)
    /\ \A c \in Conns :
          client[c] \in {"connected", "sent"} =>
             Held(c) \/ c \in dropped \/ node[c].cb = "null"
    /\ \A c \in Conns : c \in dropped => ~Held(c) /\ client[c] # "none"

IInv == TypeOK /\ ServerInv /\ PoolInv /\ PlaceInv /\ ClientInv

-----------------------------------------------------------------------------
(* Sequences *)

\* What is at the end of a longer queue, and at the head of a shorter one.
LEMMA AppendHolds ==
  ASSUME NEW S, NEW s \in Seq(S), NEW x \in S
  PROVE  /\ Append(s, x) \in Seq(S)
         /\ \A y : InSeq(y, Append(s, x)) <=> InSeq(y, s) \/ y = x
         /\ Distinct(s) /\ ~InSeq(x, s) => Distinct(Append(s, x))
<1> DEFINE r == Append(s, x)
<1>1. /\ r \in Seq(S) /\ Len(s) \in Nat
      /\ DOMAIN s = 1 .. Len(s) /\ DOMAIN r = 1 .. Len(s) + 1
      /\ r[Len(s) + 1] = x /\ \A i \in DOMAIN s : r[i] = s[i]
  BY AppendProperties, LenProperties
<1> HIDE DEF r
<1>2. \A i \in DOMAIN r : i \in DOMAIN s \/ i = Len(s) + 1
  BY <1>1
<1>3. Len(s) + 1 \in DOMAIN r /\ \A i \in DOMAIN s : i \in DOMAIN r
  BY <1>1
<1>4. ASSUME NEW y PROVE InSeq(y, r) <=> InSeq(y, s) \/ y = x
  BY <1>1, <1>2, <1>3 DEF InSeq
<1>5. ASSUME Distinct(s), ~InSeq(x, s) PROVE Distinct(r)
  BY <1>1, <1>2, <1>5 DEF Distinct, InSeq
<1> QED
  BY <1>1, <1>4, <1>5 DEF r

LEMMA TailHolds ==
  ASSUME NEW S, NEW s \in Seq(S), s # <<>>, Distinct(s)
  PROVE  /\ Head(s) \in S /\ Tail(s) \in Seq(S)
         /\ InSeq(Head(s), s)
         /\ \A y : InSeq(y, Tail(s)) <=> InSeq(y, s) /\ y # Head(s)
         /\ Distinct(Tail(s))
<1> DEFINE r == Tail(s)
<1>1. /\ r \in Seq(S) /\ Len(r) = Len(s) - 1
      /\ \A i \in 1 .. Len(r) : r[i] = s[i + 1]
      /\ Head(s) = s[1] /\ Head(s) \in S
  BY HeadTailProperties
<1>2. /\ Len(s) \in Nat \ {0} /\ DOMAIN s = 1 .. Len(s)
      /\ DOMAIN r = 1 .. Len(s) - 1
  BY <1>1, EmptySeq, LenProperties
<1> HIDE DEF r
<1>3. /\ 1 \in DOMAIN s
      /\ \A i \in DOMAIN r : i + 1 \in DOMAIN s /\ i + 1 # 1 /\ r[i] = s[i + 1]
  BY <1>1, <1>2
<1>4. ASSUME NEW i \in DOMAIN s, i # 1 PROVE i - 1 \in DOMAIN r /\ r[i - 1] = s[i]
  <2>1. i - 1 \in DOMAIN r /\ (i - 1) + 1 = i
    BY <1>2, <1>4
  <2> QED
    BY <1>3, <2>1
<1>5. ASSUME NEW y PROVE InSeq(y, r) <=> InSeq(y, s) /\ y # Head(s)
  <2>1. InSeq(y, r) => InSeq(y, s) /\ y # s[1]
    BY <1>3 DEF InSeq, Distinct
  <2>2. InSeq(y, s) /\ y # s[1] => InSeq(y, r)
    BY <1>4 DEF InSeq
  <2> QED
    BY <1>1, <2>1, <2>2
<1>6. Distinct(r)
  <2> SUFFICES ASSUME NEW i \in DOMAIN r, NEW j \in DOMAIN r, r[i] = r[j] PROVE i = j
    BY DEF Distinct
  <2>1. i + 1 = j + 1
    BY <1>3 DEF Distinct
  <2> QED
    BY <1>2, <2>1
<1>7. InSeq(Head(s), s)
  BY <1>1, <1>3 DEF InSeq
<1> QED
  BY <1>1, <1>5, <1>6, <1>7 DEF r

\* Nothing is in an empty queue.
LEMMA EmptyHolds == /\ \A c : ~InSeq(c, <<>>)
                    /\ Distinct(<<>>)
BY DEF InSeq, Distinct

-----------------------------------------------------------------------------
(* The first state, and types *)

LEMMA WorkerNumbers ==
  MaxThreads \in Nat /\ 1 \in Workers /\ Workers \subseteq Nat /\ NThreads \in 1 .. MaxThreads
BY TcpServerAssumption DEF Workers

\* Nothing is created, and nobody has connected.
LEMMA InitInv == Init => IInv
<1> SUFFICES ASSUME Init PROVE IInv
  OBVIOUS
<1> USE DEF Init, P!Init, P!Q!CondInit
<1>1. TypeOK
  <2>1. P!TypeOK
    BY WorkerNumbers, EmptySeq DEF P!TypeOK, P!NoPool, P!Workers, P!Q!CondTypeOK
  <2>2. node \in [Conns -> [cb : Pointers, user_data : Pointers]]
    BY DEF Pointers
  <2>3. assigned \in 0 .. Len(Fields)
    BY DEF Fields
  <2>4. pending \in Seq(Conns)
    BY EmptySeq
  <2>5. client \in [Conns -> {"none", "connected", "sent", "answered", "closed"}]
    OBVIOUS
  <2>6. sem \in 0 .. 1 /\ dropped \subseteq Conns /\ zero \in {"stdin", "free", "lost"}
    OBVIOUS
  <2>7. /\ owner = "none" /\ junk \in BOOLEAN /\ wild \in BOOLEAN
        /\ acceptor = "none" /\ conn \in Conns \cup {NULL}
    OBVIOUS
  <2> QED
    BY <2>1, <2>2, <2>3, <2>4, <2>5, <2>6, <2>7 DEF TypeOK
<1>2. ServerInv
  BY DEF ServerInv
<1>3. PoolInv
  BY WorkerNumbers DEF PoolInv, P!NoPool, P!Workers, Workers
<1>4. \A w \in Workers : pc[w] = "unstarted"
  BY DEF P!Workers, Workers
<1>5. \A c \in Conns : ~AtWorker(c) /\ conn # c
  BY <1>4, TcpServerAssumption DEF AtWorker, Holding
<1>6. PlaceInv
  BY <1>4, <1>5, EmptyHolds DEF PlaceInv, Holding
<1>7. ClientInv
  BY <1>5, EmptyHolds DEF ClientInv, Held
<1> QED
  BY <1>1, <1>2, <1>3, <1>6, <1>7 DEF IInv

\* A failed create destroys a pool that has no worker.
LEMMA JoinNeedsNoWorker ==
  ASSUME IInv, P!JoinAll
  PROVE  /\ phase = "failing" /\ phase' = "none"
         /\ pool.thread_count = 0 /\ pool' = P!NoPool
         /\ queue = <<>> /\ UNCHANGED <<queue, heap, pc, state, got>>
<1>1. pool.thread_count = 0
  <2>1. SUFFICES ASSUME pool.thread_count > 0 PROVE FALSE
    BY DEF IInv, TypeOK, P!TypeOK
  <2>2. 1 \in 1 .. pool.thread_count
    BY <2>1 DEF IInv, TypeOK, P!TypeOK
  <2>3. pc[1] = "exited"
    BY <2>2 DEF P!JoinAll
  <2> QED
    BY <2>3, WorkerNumbers DEF IInv, PoolInv
<1>2. phase = "failing" /\ queue = <<>>
  BY DEF IInv, PoolInv, P!JoinAll
<1>3. heap' = heap
  BY <1>2 DEF IInv, TypeOK, P!TypeOK, P!JoinAll
<1> QED
  BY <1>1, <1>2, <1>3 DEF P!JoinAll

\* The steps that leave the pool alone, and those that are its own.
PoolStep ==
    \/ \E n \in 1 .. MaxThreads : P!Create(n)
    \/ P!StartWorker \/ P!StartFails \/ P!CreateReturns \/ P!JoinAll
    \/ \E c \in Conns : P!Add(c, "task")
    \/ \E w \in Workers : P!WorkerStep(w) \/ P!WorkerSpurious(w)

LEMMA PoolSteps ==
  ASSUME IInv, Next
  PROVE  PoolStep \/ UNCHANGED poolVars
<1>1. CASE OwnerStep
  BY <1>1 DEF OwnerStep, CloseStdin, Create, CreateRefused, CreateFails,
      Assign, CreateReturns, Destroy, DestroyReturns
<1>2. CASE AcceptStep
  <2>1. acceptor = "add" => conn \in Conns
    BY DEF IInv, ServerInv, TypeOK
  <2> QED
    BY <1>2, <2>1 DEF AcceptStep, PoolRefused, PoolCreate, PoolStart, PoolCreated, Accept,
       AcceptZero, ReadCb, ReadUserData, Add, AddFails, Exit, PoolStep
<1>3. CASE \E w \in 1 .. MaxThreads : WorkerStep(w) \/ WorkerSpurious(w)
  BY <1>3 DEF WorkerStep, Worker, RoutineDrops, RoutineServes, RoutineJumps, WorkerSpurious,
     PoolStep, P!WorkerStep, Workers
<1>4. CASE \E c \in Conns : Connect(c) \/ Write(c) \/ Close(c)
  BY <1>4 DEF Connect, Write, Close
<1> QED
  BY <1>1, <1>2, <1>3, <1>4 DEF Next

\* The variables of the pool keep their types.
LEMMA PoolTypes ==
  ASSUME IInv, PoolStep
  PROVE  P!TypeOK'
<1>0. P!TypeOK /\ PoolInv /\ Workers = P!Workers
  BY DEF IInv, TypeOK, Workers, P!Workers
<1> USE WorkerNumbers DEF P!TypeOK, P!Q!CondTypeOK, P!queueVars
<1>1. ASSUME NEW n \in 1 .. MaxThreads, P!Create(n) PROVE P!TypeOK'
  BY <1>0, <1>1 DEF P!Create
<1>2. CASE P!StartWorker
  <2>1. pool.thread_count + 1 \in P!Workers
    BY <1>0, <1>2 DEF P!StartWorker, P!Workers
  <2>2. /\ pool' \in [wanted : 0 .. MaxThreads, thread_count : 0 .. MaxThreads]
        /\ pool'.thread_count <= pool'.wanted
    BY <1>0, <1>2 DEF P!StartWorker
  <2>3. pc' \in [P!Workers -> {"unstarted", "pop", "popped", "run", "exited"}]
    BY <1>0, <1>2, <2>1 DEF P!StartWorker
  <2> QED
    BY <1>0, <1>2, <2>2, <2>3 DEF P!StartWorker
<1>3. CASE P!StartFails \/ P!CreateReturns
  BY <1>0, <1>3 DEF P!StartFails, P!CreateReturns
<1>4. CASE P!JoinAll
  BY <1>0, <1>4, JoinNeedsNoWorker DEF P!NoPool
<1>5. ASSUME NEW c \in Conns, P!Add(c, "task") PROVE P!TypeOK'
  <2>1. queue' \in Seq(Conns)
    BY <1>0, <1>5, AppendProperties DEF P!Add, P!Q!Push
  <2>2. state' \in [P!Workers -> {"idle", "blocked", "woken"}]
    BY <1>0, <1>5 DEF P!Add, P!Q!Push, P!Q!Signal, P!Q!Blocked
  <2> QED
    BY <1>0, <1>5, <2>1, <2>2 DEF P!Add, P!Q!Push, P!Live
<1>6. ASSUME NEW w \in Workers, P!WorkerStep(w) \/ P!WorkerSpurious(w) PROVE P!TypeOK'
  <2>1. CASE P!WorkerPop(w)
    <3>1. CASE queue # <<>>
      <4>1. Head(queue) \in Conns /\ Tail(queue) \in Seq(Conns)
        BY <1>0, <3>1, HeadTailProperties
      <4> QED
        BY <1>0, <2>1, <3>1, <4>1 DEF P!WorkerPop, P!Q!Pop
    <3>2. CASE queue = <<>>
      BY <1>0, <2>1, <3>2 DEF P!WorkerPop, P!Q!Pop
    <3> QED
      BY <3>1, <3>2
  <2>2. CASE P!WorkerWait(w) \/ P!WorkerSpurious(w)
    BY <1>0, <2>2 DEF P!WorkerWait, P!WorkerSpurious, P!Q!Wait, P!Q!SpuriousWake
  <2>3. CASE P!WorkerRun(w) \/ P!WorkerSkip(w) \/ P!WorkerFinish(w)
    BY <1>0, <2>3 DEF P!WorkerRun, P!WorkerSkip, P!WorkerFinish
  <2> QED
    BY <1>6, <2>1, <2>2, <2>3 DEF P!WorkerStep
<1> QED
  BY <1>1, <1>2, <1>3, <1>4, <1>5, <1>6 DEF PoolStep

\* The variables of os_tcp_server.c and of its clients keep their types.
LEMMA TypeStep ==
  ASSUME IInv, Next
  PROVE  TypeOK'
<1>0. TypeOK /\ P!TypeOK'
  <2>1. CASE PoolStep
    BY <2>1, PoolTypes DEF IInv
  <2>2. CASE UNCHANGED poolVars
    BY <2>2 DEF IInv, TypeOK, P!TypeOK, P!Q!CondTypeOK, poolVars
  <2> QED
    BY <2>1, <2>2, PoolSteps DEF IInv
<1> USE DEF TypeOK, structVars, acceptVars
<1>1. CASE OwnerStep
  <2>1. Len(Fields) = 4
    BY DEF Fields
  <2>2. CASE CloseStdin \/ Create \/ CreateRefused \/ CreateFails \/ Assign \/ CreateReturns
             \/ Destroy
    BY <1>0, <2>1, <2>2 DEF CloseStdin, CreateRefused, Create, CreateFails,
      Assign, CreateReturns, Destroy
  <2>3. CASE DestroyReturns
    BY <1>0, <2>1, <2>3, EmptySeq DEF DestroyReturns
  <2> QED
    BY <1>1, <2>2, <2>3 DEF OwnerStep
<1>2. CASE AcceptStep
  <2>1. CASE PoolRefused \/ (\E n \in 1 .. MaxThreads : PoolCreate(n)) \/ PoolStart \/ PoolCreated
    BY <1>0, <2>1 DEF PoolRefused, PoolCreate, PoolStart, PoolCreated
  <2>2. CASE Accept \/ AcceptZero
    <3>1. Head(pending) \in Conns /\ Tail(pending) \in Seq(Conns)
      BY <1>0, <2>2, HeadTailProperties DEF Accept, AcceptZero
    <3> QED
      BY <1>0, <2>2, <3>1 DEF Accept, AcceptZero
  <2>3. CASE ReadCb \/ ReadUserData
    <3>1. Read("cb") \in Pointers /\ Read("user_data") \in Pointers
      BY DEF Read, Pointers
    <3>2. node' \in [Conns -> [cb : Pointers, user_data : Pointers]]
      BY <1>0, <2>3, <3>1 DEF ReadCb, ReadUserData
    <3> QED
      BY <1>0, <2>3, <3>2 DEF ReadCb, ReadUserData
  <2>4. CASE Add \/ AddFails
    <3>1. acceptor = "add" => conn \in Conns
      BY <1>0 DEF IInv, ServerInv
    <3> QED
      BY <1>0, <2>4, <3>1 DEF Add, AddFails
  <2>5. CASE Exit
    BY <1>0, <2>5 DEF Exit
  <2> QED
    BY <1>2, <2>1, <2>2, <2>3, <2>4, <2>5 DEF AcceptStep
<1>3. ASSUME NEW w \in 1 .. MaxThreads, WorkerStep(w) \/ WorkerSpurious(w) PROVE TypeOK'
  <2>1. CASE Worker(w) \/ WorkerSpurious(w) \/ RoutineDrops(w)
    BY <1>0, <2>1 DEF Worker, WorkerSpurious, RoutineDrops
  <2>2. CASE RoutineServes(w)
    BY <1>0, <2>2 DEF RoutineServes
  <2>3. CASE RoutineJumps(w)
    BY <1>0, <2>3 DEF RoutineJumps
  <2> QED
    BY <1>3, <2>1, <2>2, <2>3 DEF WorkerStep
<1>4. ASSUME NEW c \in Conns, Connect(c) PROVE TypeOK'
  BY <1>0, <1>4, AppendProperties DEF Connect
<1>5. ASSUME NEW c \in Conns, Write(c) \/ Close(c) PROVE TypeOK'
  BY <1>0, <1>5 DEF Write, Close
<1> QED
  BY <1>1, <1>2, <1>3, <1>4, <1>5 DEF Next

-----------------------------------------------------------------------------
(* Lives *)

\* The accept task ends once and posts the semaphore as it does.
LEMMA ServerStep ==
  ASSUME IInv, Next
  PROVE  ServerInv'
<1>0. TypeOK /\ ServerInv /\ NULL \notin Conns
  BY TcpServerAssumption DEF IInv
<1> USE DEF TypeOK, ServerInv, structVars, acceptVars
<1>1. CASE OwnerStep
  BY <1>0, <1>1
  DEF OwnerStep, CloseStdin, Create, CreateRefused, CreateFails,
      Assign, CreateReturns, Destroy, DestroyReturns
<1>2. CASE AcceptStep
  <2>1. CASE Accept
    <3>1. Head(pending) \in Conns
      BY <1>0, <2>1, HeadTailProperties DEF Accept
    <3> QED
      BY <1>0, <2>1, <3>1 DEF Accept
  <2>2. CASE ~Accept
    BY <1>0, <1>2, <2>2 DEF AcceptStep, PoolRefused, PoolCreate, PoolStart, PoolCreated,
       AcceptZero, ReadCb, ReadUserData, Add, AddFails, Exit
  <2> QED
    BY <2>1, <2>2
<1>3. ASSUME NEW w \in 1 .. MaxThreads, WorkerStep(w) \/ WorkerSpurious(w) PROVE ServerInv'
  BY <1>0, <1>3 DEF WorkerStep, Worker, RoutineDrops, RoutineServes, RoutineJumps, WorkerSpurious
<1>4. ASSUME NEW c \in Conns, Connect(c) \/ Write(c) \/ Close(c) PROVE ServerInv'
  BY <1>0, <1>4 DEF Connect, Write, Close
<1> QED
  BY <1>1, <1>2, <1>3, <1>4 DEF Next

\* A step that leaves the pool alone, at a statement the pool allows.
LEMMA PoolUntouched ==
  ASSUME PoolInv, UNCHANGED poolVars,
         acceptor' \in {"none", "start"} => phase = "none",
         acceptor' \in {"accept", "cb", "user_data", "add"} => phase = "ready"
  PROVE  PoolInv'
BY DEF PoolInv, poolVars

\* The accept task makes the pool, and a worker that was started goes on for ever.
LEMMA PoolLives ==
  ASSUME IInv, Next
  PROVE  PoolInv'
<1>0. /\ TypeOK /\ P!TypeOK /\ ServerInv /\ PoolInv /\ Workers = P!Workers
  BY DEF IInv, TypeOK, Workers, P!Workers
<1>1. CASE OwnerStep
  BY <1>0, <1>1, PoolUntouched
  DEF OwnerStep, CloseStdin, Create, CreateRefused, CreateFails,
      Assign, CreateReturns, Destroy, DestroyReturns,
      ServerInv, PoolInv, acceptVars
<1>2. CASE PoolRefused \/ Accept \/ AcceptZero \/ ReadCb \/ ReadUserData \/ AddFails \/ Exit
  BY <1>0, <1>2, PoolUntouched
  DEF PoolRefused, Accept, AcceptZero, ReadCb, ReadUserData, AddFails, Exit, PoolInv
<1>3. ASSUME NEW n \in 1 .. MaxThreads, PoolCreate(n) PROVE PoolInv'
  BY <1>0, <1>3, WorkerNumbers DEF PoolCreate, P!Create, PoolInv, P!TypeOK, P!queueVars
<1>4. CASE PoolStart
  <2>1. CASE P!StartWorker
    <3>1. pool.thread_count + 1 \in Workers /\ pool'.thread_count = pool.thread_count + 1
      BY <1>0, <2>1, WorkerNumbers DEF P!StartWorker, Workers, P!TypeOK
    <3>2. pc' = [pc EXCEPT ![pool.thread_count + 1] = "pop"]
      BY <2>1 DEF P!StartWorker
    <3>3. \A w \in Workers : pc'[w] = "unstarted" <=> pool'.thread_count < w
      BY <1>0, <3>1, <3>2, WorkerNumbers DEF PoolInv, P!TypeOK
    <3>4. phase = "creating" /\ acceptor = "creating" /\ UNCHANGED <<phase, queue, state, acceptor>>
      BY <1>4, <2>1 DEF PoolStart, P!StartWorker, P!queueVars, acceptVars
    <3> QED
      BY <1>0, <3>1, <3>2, <3>3, <3>4 DEF PoolInv, P!TypeOK
  <2>2. CASE P!StartFails
    BY <1>0, <1>4, <2>2 DEF PoolStart, P!StartFails, PoolInv, P!queueVars, acceptVars
  <2> QED
    BY <1>4, <2>1, <2>2 DEF PoolStart
<1>5. CASE PoolCreated
  <2>1. CASE P!CreateReturns
    BY <1>0, <1>5, <2>1 DEF PoolCreated, P!CreateReturns, P!JoinAll, PoolInv, P!queueVars
  <2>2. CASE P!JoinAll
    <3>1. /\ phase = "failing" /\ phase' = "none" /\ pool.thread_count = 0
          /\ pool'.thread_count = 0 /\ UNCHANGED <<queue, pc, state>>
      BY <2>2, JoinNeedsNoWorker DEF P!NoPool
    <3>2. acceptor' = "exit"
      BY <1>5, <3>1 DEF PoolCreated, P!CreateReturns
    <3> QED
      BY <1>0, <3>1, <3>2 DEF PoolInv
  <2> QED
    BY <1>5, <2>1, <2>2 DEF PoolCreated
<1>6. CASE Add
  <2>1. /\ acceptor = "add" /\ acceptor' = "accept" /\ UNCHANGED <<phase, pool, pc>>
        /\ state' = state \/ \E v \in P!Q!Blocked : state' = [state EXCEPT ![v] = "woken"]
    BY <1>6 DEF Add, P!Add, P!Q!Push, P!Q!Signal
  <2>2. \A v \in Workers : state'[v] # "idle" => pc'[v] = "pop"
    BY <1>0, <2>1 DEF PoolInv, P!TypeOK, P!Q!CondTypeOK, P!Q!Blocked
  <2> QED
    BY <1>0, <2>1, <2>2 DEF PoolInv
<1>7. ASSUME NEW w \in 1 .. MaxThreads, WorkerStep(w) \/ WorkerSpurious(w) PROVE PoolInv'
  <2> USE <1>0 DEF Workers, PoolInv, P!TypeOK, P!Q!CondTypeOK, acceptVars, P!queueVars
  <2>1. CASE RoutineJumps(w)
    BY <2>1 DEF RoutineJumps, poolVars
  <2>2. CASE P!WorkerWait(w) \/ P!WorkerSpurious(w)
    <3>1. UNCHANGED acceptor
      BY <1>7 DEF WorkerStep, Worker, RoutineDrops, RoutineServes, RoutineJumps, WorkerSpurious
    <3> QED
      BY <2>2, <3>1 DEF P!WorkerWait, P!WorkerSpurious, P!Q!Wait, P!Q!SpuriousWake
  <2>3. CASE P!WorkerPop(w)
    <3>1. UNCHANGED acceptor
      BY <1>7 DEF WorkerStep, Worker, RoutineDrops, RoutineServes, RoutineJumps, WorkerSpurious
    <3> QED
      BY <2>3, <3>1 DEF P!WorkerPop, P!Q!Pop
  <2>4. CASE P!WorkerRun(w) \/ P!WorkerSkip(w) \/ P!WorkerFinish(w)
    <3>1. UNCHANGED acceptor
      BY <1>7 DEF WorkerStep, Worker, RoutineDrops, RoutineServes, RoutineJumps, WorkerSpurious
    <3> QED
      BY <2>4, <3>1 DEF P!WorkerRun, P!WorkerSkip, P!WorkerFinish
  <2> QED
    BY <1>7, <2>1, <2>2, <2>3, <2>4
    DEF WorkerStep, Worker, RoutineDrops, RoutineServes, WorkerSpurious
<1>8. ASSUME NEW c \in Conns, Connect(c) \/ Write(c) \/ Close(c) PROVE PoolInv'
  BY <1>0, <1>8, PoolUntouched DEF Connect, Write, Close, PoolInv, acceptVars
<1> QED
  BY <1>1, <1>2, <1>3, <1>4, <1>5, <1>6, <1>7, <1>8 DEF Next, AcceptStep

-----------------------------------------------------------------------------
(* Connections *)

\* A step that moves no connection.
LEMMA Untouched ==
  ASSUME IInv, UNCHANGED <<pending, conn, queue, heap>>,
         \A w \in Workers, c \in Conns : Holding(w, c)' <=> Holding(w, c),
         \A w \in Workers : pc'[w] = "run" => got'[w] \in Conns
  PROVE  PlaceInv' /\ \A c \in Conns : Held(c)' <=> Held(c)
<1>1. \A c \in Conns : AtWorker(c)' <=> AtWorker(c)
  BY DEF AtWorker
<1>2. \A c \in Conns : Held(c)' <=> Held(c)
  BY <1>1 DEF Held
<1>3. PlaceInv'
  BY <1>1 DEF IInv, PlaceInv
<1> QED
  BY <1>2, <1>3

\* ... of which the client does something that changes nothing else, or nothing.
LEMMA ClientUntouched ==
  ASSUME ClientInv, dropped' = dropped,
         \A c \in Conns : Held(c)' <=> Held(c),
         \A c \in Conns :
            /\ client'[c] = "none" => client[c] = "none"
            /\ client'[c] \in {"none", "answered"} => client[c] \in {"none", "answered"}
            /\ client'[c] \in {"connected", "sent"} => client[c] \in {"connected", "sent"}
            /\ node[c].cb = "null" => node'[c].cb = "null" \/ Held(c)
  PROVE  ClientInv'
BY DEF ClientInv

LEMMA ConnectMoves ==
  ASSUME IInv, NEW k \in Conns, Connect(k)
  PROVE  PlaceInv' /\ ClientInv'
<1>1. TypeOK /\ PlaceInv /\ ClientInv /\ ~Held(k) /\ client[k] = "none"
  BY DEF IInv, Connect, ClientInv
<1>2. /\ \A c : InSeq(c, pending') <=> InSeq(c, pending) \/ c = k
      /\ Distinct(pending')
  BY <1>1, AppendHolds DEF Connect, TypeOK, PlaceInv, Held
<1>3. /\ UNCHANGED <<conn, queue, heap, pc, got, node, dropped>> /\ client'[k] = "connected"
      /\ \A c \in Conns \ {k} : client'[c] = client[c]
  BY <1>1 DEF Connect, acceptVars, poolVars, TypeOK
<1>4. /\ \A w \in Workers, c \in Conns : Holding(w, c)' <=> Holding(w, c)
      /\ \A c \in Conns : AtWorker(c)' <=> AtWorker(c)
  BY <1>3 DEF AtWorker, Holding
<1>5. PlaceInv'
  BY <1>1, <1>2, <1>3, <1>4 DEF PlaceInv, Held
<1>6. \A c \in Conns : Held(c)' <=> Held(c) \/ c = k
  BY <1>2, <1>3, <1>4 DEF Held
<1>7. ClientInv'
  BY <1>1, <1>3, <1>6 DEF ClientInv
<1> QED
  BY <1>5, <1>7

LEMMA DestroyMoves ==
  ASSUME IInv, DestroyReturns
  PROVE  PlaceInv' /\ ClientInv'
<1>1. TypeOK /\ PlaceInv /\ ClientInv
  BY DEF IInv
<1>2. (\A c : ~InSeq(c, pending')) /\ Distinct(pending')
  BY EmptyHolds DEF DestroyReturns
<1>3. /\ UNCHANGED <<conn, queue, heap, pc, got, node, dropped>>
      /\ \A c \in Conns : client'[c] = IF InSeq(c, pending) THEN "closed" ELSE client[c]
  BY DEF DestroyReturns, acceptVars, poolVars
<1>4. /\ \A w \in Workers, c \in Conns : Holding(w, c)' <=> Holding(w, c)
      /\ \A c \in Conns : AtWorker(c)' <=> AtWorker(c)
  BY <1>3 DEF AtWorker, Holding
<1>5. PlaceInv'
  BY <1>1, <1>2, <1>3, <1>4 DEF PlaceInv
<1>6. \A c \in Conns : Held(c)' <=> Held(c) /\ ~InSeq(c, pending)
  BY <1>1, <1>2, <1>3, <1>4 DEF Held, PlaceInv
<1>7. ClientInv'
  BY <1>1, <1>3, <1>6 DEF ClientInv
<1> QED
  BY <1>5, <1>7

LEMMA AcceptMoves ==
  ASSUME IInv, Accept
  PROVE  PlaceInv' /\ ClientInv'
<1>0. PICK h \in Conns : h = Head(pending)
  BY HeadTailProperties DEF IInv, TypeOK, Accept
<1>1. TypeOK /\ PlaceInv /\ ClientInv /\ conn = NULL /\ NULL \notin Conns
  BY TcpServerAssumption DEF IInv, ServerInv, Accept
<1>2. /\ InSeq(h, pending) /\ Distinct(pending')
      /\ \A c : InSeq(c, pending') <=> InSeq(c, pending) /\ c # h
  BY <1>0, <1>1, TailHolds DEF Accept, TypeOK, PlaceInv
<1>3. conn' = h /\ UNCHANGED <<queue, heap, pc, got, node, dropped, client>>
  BY <1>0 DEF Accept, poolVars
<1>4. /\ \A w \in Workers, c \in Conns : Holding(w, c)' <=> Holding(w, c)
      /\ \A c \in Conns : AtWorker(c)' <=> AtWorker(c)
  BY <1>3 DEF AtWorker, Holding
<1>5. PlaceInv'
  BY <1>1, <1>2, <1>3, <1>4 DEF PlaceInv
<1>6. \A c \in Conns : Held(c)' <=> Held(c)
  BY <1>1, <1>2, <1>3, <1>4 DEF Held
<1> QED
  BY <1>1, <1>3, <1>5, <1>6, ClientUntouched

LEMMA AddMoves ==
  ASSUME IInv, Add
  PROVE  PlaceInv' /\ ClientInv'
<1>0. PICK k \in Conns : k = conn
  BY DEF IInv, TypeOK, ServerInv, Add
<1>1. TypeOK /\ P!TypeOK /\ PlaceInv /\ ClientInv /\ NULL \notin Conns
  BY TcpServerAssumption DEF IInv, TypeOK
<1>2. /\ Distinct(queue')
      /\ \A c : InSeq(c, queue') <=> InSeq(c, queue) \/ c = k
  <2>1. queue \in Seq(Conns) /\ queue' = Append(queue, k)
    BY <1>0, <1>1 DEF P!TypeOK, P!Q!CondTypeOK, Add, P!Add, P!Q!Push
  <2>2. ~InSeq(k, queue)
    BY <1>0, <1>1 DEF PlaceInv
  <2> QED
    BY <1>1, <2>1, <2>2, AppendHolds DEF PlaceInv
<1>3. /\ conn' = NULL /\ UNCHANGED <<pending, pc, got, node, dropped, client>>
      /\ heap'[k] = "task" /\ \A c \in Conns \ {k} : heap'[c] = heap[c]
  BY <1>0, <1>1 DEF Add, P!Add, P!Q!Push, P!TypeOK
<1>4. /\ \A w \in Workers, c \in Conns : Holding(w, c)' <=> Holding(w, c)
      /\ \A c \in Conns : AtWorker(c)' <=> AtWorker(c)
  BY <1>3 DEF AtWorker, Holding
<1>5. PlaceInv'
  BY <1>0, <1>1, <1>2, <1>3, <1>4 DEF PlaceInv
<1>6. \A c \in Conns : Held(c)' <=> Held(c)
  BY <1>0, <1>1, <1>2, <1>3, <1>4 DEF Held
<1> QED
  BY <1>1, <1>3, <1>5, <1>6, ClientUntouched

\* A connection that is let go of is in nobody's hands: the one accepted as
\* descriptor 0, and the one the pool has no memory for.
LEMMA DropMoves ==
  ASSUME IInv, AcceptZero \/ AddFails
  PROVE  PlaceInv' /\ ClientInv'
<1>1. TypeOK /\ PlaceInv /\ ClientInv /\ ServerInv /\ NULL \notin Conns
  BY TcpServerAssumption DEF IInv
<1>2. UNCHANGED <<queue, heap, pc, got, node, client>>
  BY DEF AcceptZero, AddFails, poolVars
<1>3. /\ \A w \in Workers, c \in Conns : Holding(w, c)' <=> Holding(w, c)
      /\ \A c \in Conns : AtWorker(c)' <=> AtWorker(c)
  BY <1>2 DEF AtWorker, Holding
<1>4. ASSUME NEW k \in Conns, dropped' = dropped \cup {k}, Held(k), ~Held(k)',
             \A c \in Conns \ {k} : Held(c)' <=> Held(c)
      PROVE  ClientInv'
  BY <1>1, <1>2, <1>4 DEF ClientInv, TypeOK
<1>5. CASE AcceptZero
  <2>1. PICK h \in Conns : h = Head(pending)
    BY <1>1, <1>5, HeadTailProperties DEF TypeOK, AcceptZero
  <2>2. /\ InSeq(h, pending) /\ Distinct(pending') /\ conn' = conn
        /\ \A c : InSeq(c, pending') <=> InSeq(c, pending) /\ c # h
    BY <1>1, <1>5, <2>1, TailHolds DEF AcceptZero, TypeOK, PlaceInv
  <2>3. PlaceInv'
    BY <1>1, <1>2, <1>3, <2>2 DEF PlaceInv
  <2>4. Held(h) /\ ~Held(h)' /\ \A c \in Conns \ {h} : Held(c)' <=> Held(c)
    BY <1>1, <1>2, <1>3, <2>2 DEF Held, PlaceInv
  <2> QED
    BY <1>4, <1>5, <2>1, <2>3, <2>4 DEF AcceptZero
<1>6. CASE AddFails
  <2>1. PICK k \in Conns : k = conn
    BY <1>1, <1>6 DEF TypeOK, ServerInv, AddFails
  <2>2. conn' = NULL /\ UNCHANGED pending
    BY <1>6 DEF AddFails
  <2>3. PlaceInv'
    BY <1>1, <1>2, <1>3, <2>2 DEF PlaceInv
  <2>4. Held(k) /\ ~Held(k)' /\ \A c \in Conns \ {k} : Held(c)' <=> Held(c)
    BY <1>1, <1>2, <1>3, <2>1, <2>2 DEF Held, PlaceInv
  <2> QED
    BY <1>4, <1>6, <2>1, <2>3, <2>4 DEF AddFails
<1> QED
  BY <1>5, <1>6

LEMMA PopMoves ==
  ASSUME IInv, NEW w \in Workers, P!WorkerPop(w), UNCHANGED <<acceptVars, pending, client>>
  PROVE  PlaceInv' /\ ClientInv'
<1>1. /\ TypeOK /\ P!TypeOK /\ PlaceInv /\ ClientInv /\ NULL \notin Conns
      /\ Workers = P!Workers
  BY TcpServerAssumption DEF IInv, TypeOK, Workers, P!Workers
<1>2. /\ pc[w] = "pop" /\ pc'[w] = "popped" /\ UNCHANGED <<heap, conn, node, dropped>>
      /\ \A v \in Workers \ {w} : pc'[v] = pc[v] /\ got'[v] = got[v]
  BY <1>1 DEF IInv, PoolInv, P!WorkerPop, P!Q!Pop, P!TypeOK, P!Q!CondTypeOK, acceptVars
<1>3. CASE queue = <<>>
  <2>1. got'[w] = NULL /\ UNCHANGED queue
    BY <1>1, <1>3 DEF P!WorkerPop, P!Q!Pop, P!TypeOK, P!Q!CondTypeOK
  <2>2. \A v \in Workers, c \in Conns : Holding(v, c)' <=> Holding(v, c)
    BY <1>1, <1>2, <2>1 DEF Holding
  <2>3. \A v \in Workers : pc'[v] = "run" => got'[v] \in Conns
    BY <1>1, <1>2 DEF PlaceInv
  <2> QED
    BY <1>1, <1>2, <2>1, <2>2, <2>3, Untouched, ClientUntouched
<1>4. CASE queue # <<>>
  <2>0. PICK h \in Conns : h = Head(queue)
    BY <1>1, <1>4, HeadTailProperties DEF P!TypeOK, P!Q!CondTypeOK
  <2>1. got'[w] = h /\ queue' = Tail(queue)
    BY <1>1, <1>4, <2>0 DEF P!WorkerPop, P!Q!Pop, P!TypeOK, P!Q!CondTypeOK
  <2>2. /\ InSeq(h, queue) /\ Distinct(queue')
        /\ \A c : InSeq(c, queue') <=> InSeq(c, queue) /\ c # h
    BY <1>1, <1>4, <2>0, <2>1, TailHolds DEF PlaceInv, P!TypeOK, P!Q!CondTypeOK
  <2>3. \A v \in Workers, c \in Conns : Holding(v, c)' <=> Holding(v, c) \/ (v = w /\ c = h)
    BY <1>2, <2>1 DEF Holding
  <2>4. \A c \in Conns : AtWorker(c)' <=> AtWorker(c) \/ c = h
    BY <2>3 DEF AtWorker
  <2>5. \A v \in Workers : pc'[v] = "run" => got'[v] \in Conns
    BY <1>1, <1>2 DEF PlaceInv
  <2>6. \A v \in Workers : ~Holding(v, h)
    BY <1>1, <2>2 DEF PlaceInv, AtWorker
  <2>7. \A c \in Conns : \A u, v \in Workers : Holding(u, c)' /\ Holding(v, c)' => u = v
    BY <1>1, <2>3, <2>6 DEF PlaceInv
  <2>8. PlaceInv'
    BY <1>1, <1>2, <2>2, <2>4, <2>5, <2>7 DEF PlaceInv
  <2>9. \A c \in Conns : Held(c)' <=> Held(c)
    BY <1>2, <2>2, <2>4 DEF Held
  <2> QED
    BY <1>1, <1>2, <2>8, <2>9, ClientUntouched
<1> QED
  BY <1>3, <1>4

\* The routine returns: nobody holds the connection any more.
LEMMA FinishMoves ==
  ASSUME IInv, NEW w \in Workers, RoutineDrops(w) \/ RoutineServes(w)
  PROVE  PlaceInv' /\ ClientInv'
<1>1. /\ TypeOK /\ P!TypeOK /\ PlaceInv /\ ClientInv /\ Workers = P!Workers
  BY DEF IInv, TypeOK, Workers, P!Workers
<1>2. P!WorkerFinish(w) /\ pc[w] = "run"
  BY DEF RoutineDrops, RoutineServes
<1>3. PICK k \in Conns : k = got[w]
  BY <1>1, <1>2 DEF PlaceInv
<1>4. /\ UNCHANGED <<pending, conn, queue, got, node, dropped>> /\ pc'[w] = "pop"
      /\ \A v \in Workers \ {w} : pc'[v] = pc[v]
      /\ \A c \in Conns \ {k} : heap'[c] = heap[c]
  BY <1>1, <1>2, <1>3
  DEF RoutineDrops, RoutineServes, P!WorkerFinish, P!TypeOK, P!queueVars, acceptVars
<1>5. Holding(w, k) /\ \A v \in Workers, c \in Conns : Holding(v, c)' <=> Holding(v, c) /\ v # w
  BY <1>2, <1>3, <1>4 DEF Holding
<1>6. \A c \in Conns : AtWorker(c)' <=> AtWorker(c) /\ c # k
  BY <1>1, <1>3, <1>5 DEF PlaceInv, AtWorker, Holding
<1>7. AtWorker(k)
  BY <1>5 DEF AtWorker
<1>8. PlaceInv'
  BY <1>1, <1>4, <1>5, <1>6, <1>7 DEF PlaceInv
<1>9. \A c \in Conns : Held(c)' <=> Held(c) /\ c # k
  BY <1>1, <1>4, <1>6, <1>7 DEF Held, PlaceInv
<1>10. /\ \A c \in Conns \ {k} : client'[c] = client[c]
       /\ client'[k] \in {"answered", "closed"} \/ node[k].cb = "null"
  BY <1>1, <1>3 DEF RoutineDrops, RoutineServes, TypeOK
<1>11. ClientInv'
  <2>1. Held(k)
    BY <1>7 DEF Held
  <2> QED
    BY <1>1, <1>4, <1>9, <1>10, <2>1 DEF ClientInv
<1> QED
  BY <1>8, <1>11

\* Every other step leaves each connection where it is.
LEMMA MovesStep ==
  ASSUME IInv, Next
  PROVE  PlaceInv' /\ ClientInv'
<1>0. /\ TypeOK /\ P!TypeOK /\ ServerInv /\ PoolInv /\ PlaceInv /\ ClientInv
      /\ Workers = P!Workers
  BY DEF IInv, TypeOK, Workers, P!Workers
<1>1. ASSUME UNCHANGED <<pending, conn, queue, heap, pc, got, node, dropped, client>>
      PROVE  PlaceInv' /\ ClientInv'
  <2>1. PlaceInv' /\ \A c \in Conns : Held(c)' <=> Held(c)
    BY <1>0, <1>1, Untouched DEF PlaceInv, Holding
  <2> QED
    BY <1>0, <1>1, <2>1, ClientUntouched
<1>2. CASE CloseStdin \/ Create \/ CreateRefused \/ CreateFails \/ Assign \/ CreateReturns
           \/ Destroy
  BY <1>1, <1>2 DEF CloseStdin, CreateRefused, Create, CreateFails,
      Assign, CreateReturns, Destroy, acceptVars, poolVars
<1>3. CASE PoolRefused \/ Exit
  BY <1>1, <1>3 DEF PoolRefused, Exit, poolVars
<1>4. ASSUME NEW n \in 1 .. MaxThreads, PoolCreate(n) PROVE PlaceInv' /\ ClientInv'
  BY <1>1, <1>4 DEF PoolCreate, P!Create, P!queueVars
<1>5. CASE PoolStart
  <2>1. CASE P!StartFails
    BY <1>1, <1>5, <2>1 DEF PoolStart, P!StartFails, P!queueVars, acceptVars
  <2>2. CASE P!StartWorker
    <3>1. pool.thread_count + 1 \in Workers /\ pc[pool.thread_count + 1] = "unstarted"
      BY <1>0, <2>2, WorkerNumbers DEF P!StartWorker, P!TypeOK, PoolInv, Workers
    <3>2. /\ pc' = [pc EXCEPT ![pool.thread_count + 1] = "pop"]
          /\ UNCHANGED <<pending, conn, queue, heap, got, node, dropped, client>>
      BY <1>5, <2>2 DEF PoolStart, P!StartWorker, P!queueVars, acceptVars
    <3>3. \A w \in Workers : pc'[w] = pc[w] \/ (pc[w] = "unstarted" /\ pc'[w] = "pop")
      BY <1>0, <3>1, <3>2 DEF P!TypeOK
    <3>4. \A w \in Workers, c \in Conns : Holding(w, c)' <=> Holding(w, c)
      BY <3>2, <3>3 DEF Holding
    <3>5. \A w \in Workers : pc'[w] = "run" => got'[w] \in Conns
      BY <1>0, <3>2, <3>3 DEF PlaceInv
    <3> QED
      BY <1>0, <3>2, <3>4, <3>5, Untouched, ClientUntouched
  <2> QED
    BY <1>5, <2>1, <2>2 DEF PoolStart
<1>6. CASE PoolCreated
  <2>1. UNCHANGED <<queue, heap, pc, got>>
    BY <1>6, JoinNeedsNoWorker DEF PoolCreated, P!CreateReturns, P!queueVars
  <2> QED
    BY <1>1, <1>6, <2>1 DEF PoolCreated
<1>7. CASE ReadCb \/ ReadUserData
  <2>1. UNCHANGED <<pending, conn, queue, heap, pc, got, client, dropped>> /\ conn \in Conns
    BY <1>0, <1>7 DEF ReadCb, ReadUserData, poolVars, ServerInv, TypeOK
  <2>2. PlaceInv' /\ \A c \in Conns : Held(c)' <=> Held(c)
    BY <1>0, <2>1, Untouched DEF PlaceInv, Holding
  <2>3. \A c \in Conns : node'[c].cb = node[c].cb \/ c = conn
    BY <1>0, <1>7, <2>1 DEF ReadCb, ReadUserData, TypeOK
  <2>4. \A c \in Conns : node[c].cb = "null" => node'[c].cb = "null" \/ Held(c)
    BY <2>3 DEF Held
  <2> QED
    BY <1>0, <2>1, <2>2, <2>4, ClientUntouched
<1>8. ASSUME NEW w \in Workers, Worker(w) \/ WorkerSpurious(w) PROVE PlaceInv' /\ ClientInv'
  <2>1. UNCHANGED <<acceptVars, pending, client, conn, node, dropped>>
    BY <1>8 DEF Worker, WorkerSpurious, acceptVars
  <2>2. CASE P!WorkerPop(w)
    BY <2>1, <2>2, PopMoves
  <2>3. CASE P!WorkerWait(w) \/ P!WorkerSpurious(w)
    BY <1>1, <2>1, <2>3 DEF P!WorkerWait, P!WorkerSpurious, P!Q!Wait, P!Q!SpuriousWake
  <2>4. CASE P!WorkerRun(w) \/ P!WorkerSkip(w)
    <3>1. /\ UNCHANGED <<queue, got>> /\ pc[w] = "popped"
          /\ \A v \in Workers \ {w} : pc'[v] = pc[v]
      BY <1>0, <2>4 DEF P!WorkerRun, P!WorkerSkip, P!TypeOK, P!queueVars
    <3>2. got[w] \in Conns => heap[got[w]] = "task"
      BY <1>0, <3>1 DEF PlaceInv, AtWorker, Holding
    <3>3. got[w] \in Conns \cup {NULL}
      BY <1>0 DEF P!TypeOK, P!Q!CondTypeOK
    <3>4. /\ UNCHANGED heap
          /\ \/ pc'[w] = "run" /\ got[w] \in Conns
             \/ pc'[w] = "pop" /\ got[w] = NULL
      BY <1>0, <2>4, <3>2, <3>3 DEF P!WorkerRun, P!WorkerSkip, P!TypeOK
    <3>5. \A v \in Workers, c \in Conns : Holding(v, c)' <=> Holding(v, c)
      BY <3>1, <3>4, TcpServerAssumption DEF Holding
    <3>6. \A v \in Workers : pc'[v] = "run" => got'[v] \in Conns
      BY <1>0, <3>1, <3>4 DEF PlaceInv
    <3> QED
      BY <1>0, <2>1, <3>1, <3>4, <3>5, <3>6, Untouched, ClientUntouched
  <2> QED
    BY <1>8, <2>2, <2>3, <2>4 DEF Worker, WorkerSpurious
<1>9. ASSUME NEW w \in Workers, RoutineJumps(w) PROVE PlaceInv' /\ ClientInv'
  BY <1>1, <1>9 DEF RoutineJumps, acceptVars, poolVars
<1>10. ASSUME NEW k \in Conns, Write(k) \/ Close(k) PROVE PlaceInv' /\ ClientInv'
  <2>1. UNCHANGED <<pending, conn, queue, heap, pc, got, node, dropped>>
    BY <1>10 DEF Write, Close, acceptVars, poolVars
  <2>2. PlaceInv' /\ \A c \in Conns : Held(c)' <=> Held(c)
    BY <1>0, <2>1, Untouched DEF PlaceInv, Holding
  <2>3. \A c \in Conns :
           \/ client'[c] = client[c]
           \/ client[c] = "connected" /\ client'[c] = "sent"
           \/ client'[c] = "closed"
    BY <1>0, <1>10 DEF Write, Close, TypeOK
  <2> QED
    BY <1>0, <2>1, <2>2, <2>3, ClientUntouched
<1>11. CASE OwnerStep
  BY <1>2, <1>11, DestroyMoves DEF OwnerStep
<1>12. CASE AcceptStep
  BY <1>3, <1>4, <1>5, <1>6, <1>7, <1>12, AcceptMoves, AddMoves, DropMoves DEF AcceptStep
<1>13. ASSUME NEW w \in 1 .. MaxThreads, WorkerStep(w) \/ WorkerSpurious(w)
       PROVE  PlaceInv' /\ ClientInv'
  BY <1>8, <1>9, <1>13, FinishMoves DEF WorkerStep, Workers
<1> QED
  BY <1>10, <1>11, <1>12, <1>13, ConnectMoves DEF Next

-----------------------------------------------------------------------------
\* The invariant is inductive.
LEMMA InvStep == IInv /\ [Next]_vars => IInv'
<1> SUFFICES ASSUME IInv, [Next]_vars PROVE IInv'
  OBVIOUS
<1>1. CASE Next
  BY <1>1, TypeStep, ServerStep, PoolLives, MovesStep DEF IInv
<1>2. CASE UNCHANGED vars
  <2>1. UNCHANGED <<owner, assigned, junk, sem, zero, acceptor, conn, node, dropped, pending,
                    client, wild, phase, pool, pc, heap, queue, state, got>>
    BY <1>2 DEF vars, structVars, acceptVars, poolVars
  <2>2. TypeOK' /\ ServerInv' /\ PoolInv'
    BY <2>1 DEF IInv, TypeOK, P!TypeOK, P!Q!CondTypeOK, ServerInv, PoolInv
  <2>3. PlaceInv' /\ \A c \in Conns : Held(c)' <=> Held(c)
    BY <2>1, Untouched DEF IInv, PlaceInv, Holding
  <2>4. ClientInv'
    BY <2>1, <2>3 DEF IInv, ClientInv
  <2> QED
    BY <2>2, <2>3, <2>4 DEF IInv
<1> QED
  BY <1>1, <1>2

\* The variables of os_tcp_server.c and of its pool keep their types.
THEOREM ServerTypes == Spec => []TypeOK
<1>1. IInv => TypeOK
  BY DEF IInv
<1> QED
  BY InitInv, InvStep, <1>1, PTL DEF Spec

\* os_tcp_server_destroy frees the server only when its accept task has ended.
THEOREM ServerFreedLast == Spec => []ServerOutlivesAcceptTask
<1>1. IInv => ServerOutlivesAcceptTask
  BY DEF IInv, ServerInv, ServerOutlivesAcceptTask
<1> QED
  BY InitInv, InvStep, <1>1, PTL DEF Spec

\* What PlaceInv says, counted.
LEMMA HoldersCounted == IInv => OneHolder
<1> SUFFICES ASSUME IInv, NEW c \in Conns
             PROVE  /\ Cardinality(Holders(c)) <= 1
                    /\ client[c] = "answered" \/ c \in dropped => Holders(c) = {}
  BY DEF OneHolder
<1> DEFINE waiting == {i \in DOMAIN pending : pending[i] = c}
           queued == {i \in DOMAIN queue : queue[i] = c}
           running == {w \in Workers : Holding(w, c)}
           taken == IF conn = c THEN {<<"acceptor", 0>>} ELSE {}
<1>1. Holders(c) = ({"pending"} \X waiting) \cup taken
                   \cup (({"queue"} \X queued) \cup ({"worker"} \X running))
  BY DEF Holders, P!Places, Holding, Workers, P!Workers
<1>2. /\ (waiting # {}) <=> InSeq(c, pending)
      /\ (queued # {}) <=> InSeq(c, queue)
      /\ (running # {}) <=> AtWorker(c)
  BY DEF InSeq, AtWorker
<1>3. PlaceInv /\ ClientInv
  BY DEF IInv
<1>4. CASE waiting # {}
  <2>1. PICK i \in waiting : TRUE
    BY <1>4
  <2>2. waiting = {i} /\ taken = {} /\ queued = {} /\ running = {}
    BY <1>2, <1>3, <2>1 DEF PlaceInv, Distinct
  <2>3. Holders(c) = {<<"pending", i>>}
    BY <1>1, <2>2
  <2>4. client[c] # "answered" /\ c \notin dropped
    BY <1>2, <1>3, <1>4 DEF ClientInv, Held
  <2>5. Cardinality(Holders(c)) = 1
    BY <2>3, FS_Singleton
  <2> QED
    BY <2>4, <2>5
<1>5. CASE conn = c
  <2>1. waiting = {} /\ queued = {} /\ running = {}
    BY <1>2, <1>3, <1>5 DEF PlaceInv
  <2>2. Holders(c) = {<<"acceptor", 0>>}
    BY <1>1, <1>5, <2>1
  <2>3. client[c] # "answered" /\ c \notin dropped
    BY <1>3, <1>5 DEF ClientInv, Held
  <2>4. Cardinality(Holders(c)) = 1
    BY <2>2, FS_Singleton
  <2> QED
    BY <2>3, <2>4
<1>6. CASE queued # {}
  <2>1. PICK i \in queued : TRUE
    BY <1>6
  <2>2. queued = {i} /\ taken = {} /\ waiting = {} /\ running = {}
    BY <1>2, <1>3, <2>1 DEF PlaceInv, Distinct
  <2>3. Holders(c) = {<<"queue", i>>}
    BY <1>1, <2>2
  <2>4. client[c] # "answered" /\ c \notin dropped
    BY <1>2, <1>3, <1>6 DEF ClientInv, Held
  <2>5. Cardinality(Holders(c)) = 1
    BY <2>3, FS_Singleton
  <2> QED
    BY <2>4, <2>5
<1>7. CASE running # {}
  <2>1. PICK w \in running : TRUE
    BY <1>7
  <2>2. running = {w} /\ taken = {} /\ waiting = {} /\ queued = {}
    BY <1>2, <1>3, <2>1 DEF PlaceInv
  <2>3. Holders(c) = {<<"worker", w>>}
    BY <1>1, <2>2
  <2>4. client[c] # "answered" /\ c \notin dropped
    BY <1>2, <1>3, <1>7 DEF ClientInv, Held
  <2>5. Cardinality(Holders(c)) = 1
    BY <2>3, FS_Singleton
  <2> QED
    BY <2>4, <2>5
<1>8. CASE waiting = {} /\ conn # c /\ queued = {} /\ running = {}
  <2>1. Holders(c) = {}
    BY <1>1, <1>8
  <2> QED
    BY <2>1, FS_EmptySet
<1> QED
  BY <1>4, <1>5, <1>6, <1>7, <1>8

\* A connection is in one place from its accept to its answer, and nobody has it
\* afterwards, or once it was let go of: no two workers serve it, and its node is freed once.
THEOREM ConnectionHasOneHolder == Spec => []OneHolder
BY InitInv, InvStep, HoldersCounted, PTL DEF Spec

\* A client that waits is in the hands of the server, unless the accept task let
\* go of its connection, or accepted it before create had stored the callback.
THEOREM ClientsAreKept == Spec => []NoClientForgotten
<1>1. IInv => NoClientForgotten
  <2> SUFFICES ASSUME IInv, NEW c \in Conns, client[c] = "sent"
               PROVE  Holders(c) # {} \/ c \in dropped \/ node[c].cb = "null"
    BY DEF NoClientForgotten
  <2>1. \A i \in DOMAIN pending : pending[i] = c => <<"pending", i>> \in Holders(c)
    BY DEF Holders
  <2>2. conn = c => <<"acceptor", 0>> \in Holders(c)
    BY DEF Holders
  <2>3. \A i \in DOMAIN queue : queue[i] = c => <<"queue", i>> \in Holders(c)
    BY DEF Holders, P!Places
  <2>4. \A w \in Workers : Holding(w, c) => <<"worker", w>> \in Holders(c)
    BY DEF Holders, P!Places, Holding, Workers, P!Workers
  <2>5. Held(c) => Holders(c) # {}
    BY <2>1, <2>2, <2>3, <2>4 DEF Held, InSeq, AtWorker
  <2> QED
    BY <2>5 DEF IInv, ClientInv
<1> QED
  BY InitInv, InvStep, <1>1, PTL DEF Spec
=============================================================================
