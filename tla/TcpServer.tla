----------------------------- MODULE TcpServer ------------------------------
(***************************************************************************)
(* os_tcp_server.c on its thread pool, with the clients of                 *)
(* os_tcp_client.c: one server from its create to its destroy.  The accept *)
(* task runs while os_tcp_server_create is still filling in the struct it  *)
(* reads, makes the pool, and adds each connection it accepts to it.       *)
(*                                                                         *)
(* The pool is ThreadPool.  Its tasks are the connections: the node that   *)
(* is added for connection c is called c too.                              *)
(***************************************************************************)
EXTENDS Integers, Sequences, FiniteSets

CONSTANTS MaxThreads,       \* a bound of the model on the values of `threads`
          NThreads,         \* the `threads` the server is created with
          Conns,            \* the connections clients make, each once
          NULL,             \* the null pointer
          SpuriousWakeups,  \* whether pthread_cond_wait may return unsignalled
          MallocCanFail     \* whether the malloc of os_threadpool.c may return NULL

ASSUME TcpServerAssumption ==
    /\ MaxThreads \in 1 .. 63 /\ NThreads \in 1 .. MaxThreads
    /\ IsFiniteSet(Conns) /\ NULL \notin Conns
    /\ SpuriousWakeups \in BOOLEAN /\ MallocCanFail \in BOOLEAN

VARIABLES
    owner,     \* the thread of os_tcp_server_create and os_tcp_server_destroy
    assigned,  \* how many of Fields the create has assigned
    junk,      \* whether the struct's memory was not zero when malloc'ed
    sem,       \* s->sem
    acceptor,  \* the statement of task_routine_tcp_server
    conn,      \* its conn_fd
    node,      \* node[c]: the cb and user_data c was accepted with
    pending,   \* the listening socket's completed connections
    dropped,   \* the connections the accept task has let go of, descriptor open
    zero,      \* descriptor 0: "stdin", "free" or "lost" to a socket nobody closes
    client,    \* client[c]: what the client of c has done
    wild,      \* whether a field has been used that held junk
    phase, pool, pc, heap, queue, state, got   \* the pool

poolVars   == <<phase, pool, pc, heap, queue, state, got>>
structVars == <<owner, assigned, junk, sem, zero>>
acceptVars == <<acceptor, conn, node, dropped>>
vars == <<structVars, acceptVars, pending, client, wild, poolVars>>

P == INSTANCE ThreadPool WITH Tasks <- Conns

\* The fields the accept task reads, in the order create assigns them.
Fields == <<"listen_fd", "threads", "cb", "user_data">>

IsSet(f) == \E i \in 1 .. assigned : Fields[i] = f

\* What a pointer field reads as: the argument of create, or what was there.
Read(f) == IF IsSet(f) THEN "given" ELSE IF junk THEN "junk" ELSE "null"

Pointers == {"unread", "given", "null", "junk"}

TypeOK ==
    /\ owner \in {"none", "refused", "failed", "creating", "created",
                 "destroying", "destroyed"}
    /\ assigned \in 0 .. Len(Fields)
    /\ junk \in BOOLEAN /\ wild \in BOOLEAN /\ sem \in 0 .. 1
    /\ acceptor \in {"none", "start", "creating", "accept", "cb", "user_data", "add",
                     "exit", "ended"}
    /\ conn \in Conns \cup {NULL}
    /\ node \in [Conns -> [cb : Pointers, user_data : Pointers]]
    /\ pending \in Seq(Conns)
    /\ dropped \subseteq Conns /\ zero \in {"stdin", "free", "lost"}
    /\ client \in [Conns -> {"none", "connected", "sent", "answered", "closed"}]
    /\ P!TypeOK

Init ==
    /\ owner = "none" /\ assigned = 0 /\ sem = 0
    /\ junk \in BOOLEAN
    /\ acceptor = "none" /\ conn = NULL
    /\ node = [c \in Conns |-> [cb |-> "unread", user_data |-> "unread"]]
    /\ pending = <<>>
    /\ dropped = {} /\ zero \in {"stdin", "free"}
    /\ client = [c \in Conns |-> "none"]
    /\ wild = FALSE
    /\ P!Init

InSeq(c, s) == \E i \in DOMAIN s : s[i] = c

-----------------------------------------------------------------------------
(* Faulty steps, used by no specification: slips the properties must notice. *)

\* an assignment too many
AssignPast ==
    /\ owner = "creating" /\ assigned <= Len(Fields)
    /\ assigned' = assigned + 1
    /\ UNCHANGED <<owner, junk, sem, zero, acceptVars, pending, client, wild, poolVars>>

\* a destroy that does not wait for the accept task
DestroyNoWait ==
    /\ owner = "destroying"
    /\ owner' = "destroyed"
    /\ pending' = <<>>
    /\ client' = [c \in Conns |-> IF InSeq(c, pending) THEN "closed" ELSE client[c]]
    /\ UNCHANGED <<assigned, junk, sem, zero, acceptVars, wild, poolVars>>

\* a loop that goes back to accept without adding the node
AddForgotten ==
    /\ acceptor = "add"
    /\ acceptor' = "accept" /\ conn' = NULL
    /\ UNCHANGED <<structVars, node, dropped, pending, client, wild, poolVars>>

\* the node of a connection added twice
AddTwice ==
    /\ acceptor = "add" /\ phase = "ready"
    /\ acceptor' = "accept" /\ conn' = NULL
    /\ queue' = queue \o <<conn, conn>>
    /\ heap' = [heap EXCEPT ![conn] = "task"]
    /\ UNCHANGED <<structVars, node, dropped, pending, client, wild>>
    /\ UNCHANGED <<phase, pool, pc, state, got>>

-----------------------------------------------------------------------------
(* The owner: os_tcp_server_create and os_tcp_server_destroy *)

\* With the server created, the program closes its standard input to go to the
\* background; Init has the one that was started without.
CloseStdin ==
    /\ owner = "created" /\ zero = "stdin"
    /\ zero' = "free"
    /\ UNCHANGED <<owner, assigned, junk, sem, acceptVars, pending, client, wild, poolVars>>

\* The socket listens and the accept task starts.
Create ==
    /\ owner = "none" /\ zero # "free"
    /\ owner' = "creating"
    /\ acceptor' = "start"
    /\ UNCHANGED <<assigned, junk, sem, zero, conn, node, dropped, pending, client, wild, poolVars>>

\* A socket that is descriptor 0 is taken for none.
CreateRefused ==
    /\ owner = "none" /\ zero = "free"
    /\ owner' = "refused" /\ zero' = "lost"
    /\ UNCHANGED <<assigned, junk, sem, acceptVars, pending, client, wild, poolVars>>

\* The accept task cannot be created: NULL, the socket left open.
CreateFails ==
    /\ owner = "none" /\ zero # "free"
    /\ owner' = "failed"
    /\ UNCHANGED <<assigned, junk, sem, zero, acceptVars, pending, client, wild, poolVars>>

Assign ==
    /\ owner = "creating" /\ assigned < Len(Fields)
    /\ assigned' = assigned + 1
    /\ UNCHANGED <<owner, junk, sem, zero, acceptVars, pending, client, wild, poolVars>>

CreateReturns ==
    /\ owner = "creating" /\ assigned = Len(Fields)
    /\ owner' = "created"
    /\ UNCHANGED <<assigned, junk, sem, zero, acceptVars, pending, client, wild, poolVars>>

Destroy ==
    /\ owner = "created"
    /\ owner' = "destroying"
    /\ UNCHANGED <<assigned, junk, sem, zero, acceptVars, pending, client, wild, poolVars>>

\* sem_wait returns; the socket is closed on those it has not accepted, and
\* the struct is freed.
DestroyReturns ==
    /\ owner = "destroying" /\ sem = 1
    /\ owner' = "destroyed" /\ sem' = 0
    /\ pending' = <<>>
    /\ client' = [c \in Conns |-> IF InSeq(c, pending) THEN "closed" ELSE client[c]]
    /\ UNCHANGED <<assigned, junk, zero, acceptVars, wild, poolVars>>

-----------------------------------------------------------------------------
(* The accept task: task_routine_tcp_server *)

\* os_threadpool_create refuses what is not a number of threads, or runs out of
\* memory ...
PoolRefused ==
    /\ acceptor = "start" /\ (IsSet("threads") => MallocCanFail)
    /\ acceptor' = "exit"
    /\ UNCHANGED <<structVars, conn, node, dropped, pending, client, wild, poolVars>>

\* ... and takes what is one.
PoolCreate(n) ==
    /\ acceptor = "start"
    /\ IF IsSet("threads") THEN n = NThreads ELSE junk
    /\ acceptor' = "creating"
    /\ P!Create(n)
    /\ UNCHANGED <<structVars, conn, node, dropped, pending, client, wild>>

PoolStart ==
    /\ acceptor = "creating"
    /\ P!StartWorker \/ P!StartFails
    /\ UNCHANGED <<structVars, acceptVars, pending, client, wild>>

PoolCreated ==
    /\ acceptor = "creating"
    /\ \/ P!CreateReturns /\ acceptor' = "accept"
       \/ P!JoinAll /\ acceptor' = "exit"
    /\ UNCHANGED <<structVars, conn, node, dropped, pending, client, wild>>

\* Without its descriptor accept fails, and the loop turns.
Accept ==
    /\ acceptor = "accept" /\ IsSet("listen_fd") /\ pending # <<>>
    /\ zero # "free"
    /\ acceptor' = "cb" /\ conn' = Head(pending)
    /\ pending' = Tail(pending)
    /\ UNCHANGED <<structVars, node, dropped, client, wild, poolVars>>

\* conn_fd > 0: a connection that is descriptor 0 is taken for none.
AcceptZero ==
    /\ acceptor = "accept" /\ IsSet("listen_fd") /\ pending # <<>>
    /\ zero = "free" /\ zero' = "lost"
    /\ dropped' = dropped \cup {Head(pending)}
    /\ pending' = Tail(pending)
    /\ UNCHANGED <<owner, assigned, junk, sem, acceptor, conn, node, client, wild, poolVars>>

ReadCb ==
    /\ acceptor = "cb"
    /\ acceptor' = "user_data"
    /\ node' = [node EXCEPT ![conn].cb = Read("cb")]
    /\ UNCHANGED <<structVars, conn, dropped, pending, client, wild, poolVars>>

ReadUserData ==
    /\ acceptor = "user_data"
    /\ acceptor' = "add"
    /\ node' = [node EXCEPT ![conn].user_data = Read("user_data")]
    /\ UNCHANGED <<structVars, conn, dropped, pending, client, wild, poolVars>>

Add ==
    /\ acceptor = "add"
    /\ P!Add(conn, "task")
    /\ acceptor' = "accept" /\ conn' = NULL
    /\ UNCHANGED <<structVars, node, dropped, pending, client, wild>>

\* os_threadpool_add has no memory for its task: the loop goes on, and nobody
\* has the node and the connection any more.
AddFails ==
    /\ acceptor = "add" /\ MallocCanFail
    /\ dropped' = dropped \cup {conn}
    /\ acceptor' = "accept" /\ conn' = NULL
    /\ UNCHANGED <<structVars, node, pending, client, wild, poolVars>>

\* No pool: os_threadpool_destroy of an s->pool nobody has assigned.
Exit ==
    /\ acceptor = "exit"
    /\ wild' = junk
    /\ acceptor' = "ended" /\ sem' = 1
    /\ UNCHANGED <<owner, assigned, junk, zero, conn, node, dropped, pending, client, poolVars>>

-----------------------------------------------------------------------------
(* The workers of the pool: os_threadpool_thread *)

Worker(w) ==
    /\ \/ P!WorkerWait(w) \/ P!WorkerPop(w) \/ P!WorkerRun(w) \/ P!WorkerSkip(w)
    /\ UNCHANGED <<structVars, acceptVars, pending, client, wild>>

WorkerSpurious(w) ==
    /\ P!WorkerSpurious(w)
    /\ UNCHANGED <<structVars, acceptVars, pending, client, wild>>

\* thread_pool_tcp_server_routine without a callback drops the connection,
\* its descriptor left open.
RoutineDrops(w) ==
    /\ pc[w] = "run" /\ node[got[w]].cb = "null"
    /\ P!WorkerFinish(w)
    /\ UNCHANGED <<structVars, acceptVars, pending, client, wild>>

\* The callback of the samples: it reads what the client sends, or that it
\* has gone, and answers once.
RoutineServes(w) ==
    /\ pc[w] = "run" /\ node[got[w]].cb = "given"
    /\ client[got[w]] \in {"sent", "closed"}
    /\ client' = [client EXCEPT ![got[w]] = IF @ = "sent" THEN "answered" ELSE @]
    /\ P!WorkerFinish(w)
    /\ UNCHANGED <<structVars, acceptVars, pending, wild>>

RoutineJumps(w) ==
    /\ pc[w] = "run" /\ node[got[w]].cb = "junk"
    /\ wild' = TRUE
    /\ UNCHANGED <<structVars, acceptVars, pending, client, poolVars>>

-----------------------------------------------------------------------------
(* The clients: os_tcp_client_create, write, read and destroy *)

\* The kernel completes the connection; listen(listen_fd, threads) bounds how
\* many wait, Linux keeping one more than it is asked to.
Connect(c) ==
    /\ owner \notin {"none", "refused", "destroyed"}
    /\ client[c] = "none" /\ Len(pending) <= NThreads
    /\ client' = [client EXCEPT ![c] = "connected"]
    /\ pending' = Append(pending, c)
    /\ UNCHANGED <<structVars, acceptVars, wild, poolVars>>

\* From here on the client is in os_tcp_client_read.
Write(c) ==
    /\ client[c] = "connected"
    /\ client' = [client EXCEPT ![c] = "sent"]
    /\ UNCHANGED <<structVars, acceptVars, pending, wild, poolVars>>

Close(c) ==
    /\ client[c] \in {"connected", "answered"}
    /\ client' = [client EXCEPT ![c] = "closed"]
    /\ UNCHANGED <<structVars, acceptVars, pending, wild, poolVars>>

-----------------------------------------------------------------------------
OwnerStep ==
    \/ CloseStdin \/ Create \/ CreateRefused \/ CreateFails
    \/ Assign \/ CreateReturns \/ Destroy \/ DestroyReturns

AcceptStep ==
    \/ PoolRefused \/ (\E n \in 1 .. MaxThreads : PoolCreate(n)) \/ PoolStart \/ PoolCreated
    \/ Accept \/ AcceptZero \/ ReadCb \/ ReadUserData \/ Add \/ AddFails \/ Exit

WorkerStep(w) == Worker(w) \/ RoutineDrops(w) \/ RoutineServes(w) \/ RoutineJumps(w)

Next ==
    /\ ~wild
    /\ \/ OwnerStep
       \/ AcceptStep
       \/ \E w \in 1 .. MaxThreads : WorkerStep(w) \/ WorkerSpurious(w)
       \/ \E c \in Conns : Connect(c) \/ Write(c) \/ Close(c)

Spec == Init /\ [][Next]_vars

(***************************************************************************)
(* The server's threads keep running, and a client writes once connected,  *)
(* as the samples do.  Nobody has to connect, to close or to destroy.      *)
(***************************************************************************)
FairSpec ==
    /\ Spec
    /\ WF_vars(Assign \/ CreateReturns)
    /\ WF_vars(AcceptStep)
    /\ \A w \in 1 .. MaxThreads : WF_vars(WorkerStep(w))
    /\ \A c \in Conns : WF_vars(Write(c))

-----------------------------------------------------------------------------
(* Safety *)

\* os_tcp_server_destroy frees the struct only when the accept task is done
\* with it, however create, the failed pool and destroy interleave.
ServerOutlivesAcceptTask == owner = "destroyed" => acceptor = "ended"

\* Who has the server's side of connection c.
Holders(c) ==
    ({"pending"} \X {i \in DOMAIN pending : pending[i] = c})
    \cup (IF conn = c THEN {<<"acceptor", 0>>} ELSE {})
    \cup P!Places(c)

\* From accept to answer a connection is in one place: it is never answered
\* twice, by two workers, or after its node was freed, and nobody comes upon one
\* that was let go of.
OneHolder ==
    \A c \in Conns :
        /\ Cardinality(Holders(c)) <= 1
        /\ client[c] = "answered" \/ c \in dropped => Holders(c) = {}

\* A client that waits for an answer is held by somebody, unless the accept task
\* let go of its connection (as descriptor 0, or for want of memory), or accepted
\* it before create had stored the callback.
NoClientForgotten ==
    \A c \in Conns :
        client[c] = "sent" => Holders(c) # {} \/ c \in dropped \/ node[c].cb = "null"

-----------------------------------------------------------------------------
(* What the samples expect *)

\* sample/tcp_server.c:22: a create that returns a server has one that serves,
\* with the threads it was asked for.
CreatedServerServes ==
    owner = "created" =>
        /\ acceptor \notin {"exit", "ended"}
        /\ pool.wanted \in {0, NThreads}

\* sample/tcp_client.c:20: the answer to what a client writes arrives, once its
\* connection has been given to the pool with the callback of the server.
WrittenIsAnswered ==
    \A c \in Conns :
        (client[c] = "sent" /\ InSeq(c, queue) /\ node[c].cb = "given")
        ~> client[c] = "answered"
=============================================================================
