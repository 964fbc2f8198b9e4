# MultiTaskApp in TLA+

MultiTaskApp is a small C library for programs made of *tasks*: threads with a
name and a message queue.  Under `src/platform/os/` it wraps POSIX: queues that
block, tasks and messages, thread pools, a TCP server, timers, files, datagram
sockets and an epoll loop.  `src/init/main.c` and `src/sample/` are programs
written with it.  `src/util/parson.c` is the JSON
library they use.  This directory models the part of the library in which
threads meet, the data structures it keeps (lists, the allocation trace, files,
descriptors) and the JSON library, checks the models with TLC on small instances
and proves with TLAPS what matters most about the queue, on which everything else
stands, the thread pool, tasks and messages, the TCP server, the lists, the allocation
trace, files, descriptors, the ownership of JSON values, the table of a JSON object, and
the strings, comments and UTF-8 of its texts.

Paths below are relative to `src/platform/os/linux/base/` unless they start
with `src/`.  That directory is what `src/build/ubuntu.make` compiles;
`linux_glib/base/` is the same library on GLib, and most of its files are copies.

## The system

| Component | State | Operations | Meets others through |
|---|---|---|---|
| asynchronous queue, `os_async_queue.c`, `os_queue.c` | a linked list, a mutex, a condition variable | new, push, pop, length, free | shared by all its callers |
| asynchronous queue on GLib, `linux_glib/base/os_async_queue.c` | a `GAsyncQueue` | the same | the same |
| tasks, `os_task.c` | the list of tasks under `os_task_mutex`; per task a name, a tid, a queue and a list of allocations | create, create2, end of the task, look a queue up by name or by tid, list, JSON | owns the queues of messages |
| messages, `os_msg.c` | none of its own: a message is owned by a thread or by a queue | alloc, send, send2, recv, recv2, free | looks queues up in tasks, pushes and pops |
| thread pool, `os_threadpool.c` | an array of workers and a queue of pool tasks | create, destroy, add, the worker loop | one asynchronous queue; used by the TCP server |
| TCP server and client, `os_tcp_server.c`, `os_tcp_client.c` | sockets, a pool, a semaphore, an accept task | create, destroy, accept loop, per-connection routine; connect, read, write | tasks, thread pool |
| memory trace, `os_mm.c`, the `os_task_mm_*` part of `os_task.c` | a global list of allocations and one list per task | malloc, free, show | every component allocates through it |
| event driver, `os_evdriver.c` | an epoll descriptor and its registrations | create, add, del, run, stop, destroy | callbacks |
| files, `os_file.c` | files | write, append, read, rewrite, key_write | two writers of one file |
| timers, `os_timer.c` | a start time | start, stop | none |
| broadcast and multicast, `os_broadcast.c`, `os_multicast.c` | a socket and an address | create, send, recv, destroy | none |
| kernel list, `src/include/klist.h` | pointers | the lists and hash buckets of Linux | every list above |
| JSON, `src/util/parson.c` | values on the heap; an object is a hash table, an array a vector; a value points to its parent | make, set, append, replace, remove, clear, dotset, free; deep copy; serialize, parse; equals, validate | files |
| log, misc, string, sys, bus, io | none that matters | formatting, libc and /proc | none |

What is hard in it, with what makes each part correct (the list, line by
line, is `hazards` in `PROJECT.json`):

* **Queue.** `os_async_queue_pop` calls `pthread_cond_wait` once, without
  looking at the queue first.  Its callers rely on every pop returning an
  element, on order, and on no element being left behind.
* **Tasks and messages.** A send looks a queue up under `os_task_mutex` and
  pushes after it has released it; an ending task frees its queue before it
  leaves the list.  Messages must have one owner, reach a task with the name
  they were sent to, and be freed once.  `pthread_self` values and names are
  used again.
* **Thread pool.** A pool task is freed by the worker that runs it.  The
  workers never return, so destroy and the failure path of create join for ever.
* **TCP server.** The accept task reads the server before create has filled it.
* **Memory trace.** Frees prune the trace only under macros nobody defines, and
  readers walk lists without a lock, while an allocation links its record in store
  by store.
* **Kernel list.** Every function must leave both directions of every list right,
  or a deletion somewhere else goes wrong later.
* **Files.** A read or write may stop half-way; two writers may meet in one file; a
  rewrite does not truncate; an error of `write` goes unnoticed.
* **Descriptors.** A number that is closed is handed out again at once, so an object
  that keeps or closes a number it no longer owns closes somebody else's.
* **JSON.** An object must remain a map through collisions, removals and rehashes, and
  when memory runs out in the middle of any of them.  A value must have one owner, be
  freed once, and be nobody's after a call that failed.  What is saved must be what is
  loaded.

Two facts of the code the models rely on everywhere: `RETURN_IF_FAIL` and
`os_log_assert` log and do not stop the program; `MALLOC` is `os_mm_malloc`,
which asserts on failure, so such an allocation does not fail in the models.  parson and
`os_threadpool.c` call `malloc` itself and check it, so there it may fail at any call: in
the JSON modules, and for the pool in TcpServer (`MallocCanFail`), which is where it shows
what a failed `os_threadpool_add` leaves behind.  In ThreadPool by itself that changes nothing.

## The modules

```
            FifoQueue                what a queue promises (and the GLib build is)
                ^ implements, without spurious wake-ups
            CondQueue  <---- ThreadPool (INSTANCE) <---- TcpServer (INSTANCE)
                ^ implements           Messaging (the same steps, one queue per task)
            AsyncQueue

  ListSeq  <-- implements -- KList, HList         NameMap  <-- implements -- JsonObject
  MemTrace, Files, Descriptors                    JsonTree, JsonText, JsonChars

  MCJson (the four of JSON) <-- extends -- MCLibrary (with lists, trace, files, descriptors)
```

Next to each of AsyncQueue, ThreadPool, Messaging, TcpServer and JsonChars stands
its `...Proofs`; LibraryProofs holds those of CondQueue, MemTrace, Files and Descriptors,
ListProofs those of the lists, JsonProofs those of JsonTree and JsonObject.

**FifoQueue** - the abstract specification: `Send` appends, `Receive` hands the
oldest element to one caller and needs one to be there.

**AsyncQueue** - `os_async_queue.c` with one action per statement.  `mutex` is
the owner of `q->mutex`, `queue` the list of `os_queue.c`, `pc[t]` the next
statement of thread `t`, `data[t]` the local of `os_async_queue_pop`.
`pthread_cond_wait` is three steps: release and block in one (`PopWait`), wake
by a signal (`PushSignal`, which picks any waiting thread) or without one
(`SpuriousWake`, if the constant allows it), and relock (`PopRelock`).  A thread
may be both a producer and a consumer.

**CondQueue** - the same queue with a step per critical section.  `queue`,
`state` (idle, blocked, woken) and `got` are what callers can tell apart.  It is
the level at which the other modules use a queue.

**ThreadPool** - one pool from its create to its destroy, and again.  `phase` is
where the owner is, `pool` the struct's `thread_count` asked for and reached,
`pc[w]` where worker `w` is in `os_threadpool_thread`,
`heap[k]` whether the pool task at address `k` is free, live, live with a null
function, or lost (the worker skips a task without a function and never frees
it).  The queue is an instance of `CondQueue`.  `JoinAll` waits for every
started worker to have returned.

**Messaging** - `os_task.c` with `os_msg.c`.  `registry` is `os_task_list`;
`life[t]` says how far a task is: listed before it has a thread (`Create`), started
(`Start`), running once its routine has recorded its tid (`Routine`), and then the
statements of its end (`FreeQueue`,
`ClearQueue`, `Unlist`, `FreeTask` are the statements of `os_task_exit`, and of
the failure path of `os_task_create`, which does the same for a task whose
thread could not be started); `hasq[t]` is `task->q != NULL`, `qlive[t]` whether
the queue made for `t` is still allocated; `chan[t]` its contents; `heap[m]` the
`dst` of the message at address `m`.  A send is three steps: `Compose`, `Lookup`
(under `os_task_mutex`) and `Push` (without it).  `PushFreed` is a push to a
queue freed in between: what follows is undefined, so it sets `wild` and the
run of the model stops there.

**TcpServer** - one server on its pool.  `assigned` counts the fields
`os_tcp_server_create` has assigned, one by one, after it has started the accept task
(`Assign`); `acceptor` is the statement that task is at.  What it reads of a field not
yet assigned depends on `junk`, whether the malloc'ed memory was zero: a null pointer,
or something that must not be used (`wild`, as in Messaging).  The pool is an instance
of ThreadPool whose tasks are the connections.  `dropped` are the connections the accept
task lets go of and leaves open: when `os_threadpool_add` has no memory (`AddFails`),
and when one is accepted as descriptor 0, which `conn_fd > 0` takes for none
(`AcceptZero`).  `zero` is who has that number: it is free from the start in a program
started without standard input, or from when it closes it (`CloseStdin`); a listening
socket that gets it is refused (`CreateRefused`).  The clients are those of
`os_tcp_client.c` and the callback is that of `src/sample/tcp_server.c`: it reads once
and answers once.

**ListSeq**, **KList**, **HList**, **Lists** - `klist.h`.  KList and HList change `next`,
`prev` and `pprev` as the functions do, one function a step; ListSeq is what callers take
them for, sequences of nodes that are in one list at most.  The mapping says what a list
is rather than walking it: the sequence that `next` leads through from the head and back,
with `prev` the other way (`Shows`), or on to NULL, with each `pprev` at what leads to its
node (`Leads`).  A head for which there is none has a *corrupt* list, which is no
sequence.  Each step must be the one the function is named for: `call` and `hcall` record
the name, so an addition that lands at the wrong end is no step of ListSeq.  Lists puts the
two kinds together.
`list_splice_init_rcu` tests the wrong list (`klist.h:413`).  KList has it as it is, in a
specification of its own (`KListRcuSpec`), ListSeq as its comment documents it
(`SpliceRcu`), and the run `klist_rcu` shows them apart; nothing in `src/` calls it.

**MemTrace** - `os_mm.c`: `os_mm_malloc` with each store of `__list_add` a step
(`Store`), beside `os_mm_show`, which takes no lock and reads `next` one record
ahead (`ShowFirst`, `ShowNext`).  `links` are the pointers, `order` the order of the
appends.  Stores become visible in program order: an assumption, as on x86 with a
compiler that keeps them in order.

**Files** - one file under `os_file.c`: several calls that write it with short writes
and failing ones, and one that reads it.  It is a log, to which calls append, or a
record, which one call at a time writes from the start.  The bytes of a call are told
apart by their place, `<<c, i>>`.  What `FileKeepsBytes` asks of a log is stated byte by
byte: each stands once, behind those the same call has written before it.

**Descriptors** - the descriptor table of the process, with `os_broadcast.c`,
`os_multicast.c`, `os_evdriver.c` and a program that opens and closes its own.
`open` is the table; every other variable says who holds which number.  `lost` are the
descriptors nothing names any more: the failing paths of create, and
descriptor 0, which destroy takes for none.

**NameMap**, **JsonObject** - `PJSON_Object`: `table` holds `cells`, the array of
positions that is probed from the hash of a name, and `items`, the members in the order
they are stored, with their cells.  Add, set, get, remove with its backward shift
(`Scan` is one turn of its loop), growing, and clear.  NameMap is a map from names to
values in which a call may fail.

**JsonTree** - the ownership of `PJSON_Value`s: `heap[a]` is the type, the parent and
the members of the value at `a`; `held` are the values the caller owns.  Setting,
appending, replacing, removing, clearing and dotset are one step each, with what it
leaves behind when memory runs out: a leaf or an object that was made and is freed is
taken from the heap and freed in it, never left out.  A deep copy is a machine of its own,
because its result is the work of many calls.  `frames` are the activations of
`pjson_value_deep_copy`, each with its argument, its `return_value`, which it owns, and the
place that is to have in the one below; a step makes one value (`Call`), adds a complete
one to the copy below it (`CopyAdd`), or, on failure, frees the innermost (`CopyGivesUp`),
until the recursion is undone.  An object's members are copied in any order.  `before`
remembers the heap the copy began with, for the properties.
`malloc` returns a free address, `Free` marks one,
and `Below` is a value with all that hangs on it, the smallest set that has the members
of what it has.  `OneOwner` says of the whole heap what `parent` is meant to guarantee,
that nothing is leaked included.  A dotset that fails late leaves the value with
the caller and with a parent that is freed; `orphaned` records those.

**JsonText** - a document as a program builds it, the text of tokens it is saved as,
the file it is saved to, whole or cut, and what a load makes of that; equality and
validation against a schema.

**JsonChars** - the inside of strings, the comments that
`pjson_parse_string_with_comments` blanks out first, and `is_valid_utf8`.  A behaviour
spells an input character by character; the algorithms are operators on it, compared
with definitions that say what they are for: the string that was written (`StringsSurvive`),
a reading of the text as C reads it (`Kinds`), the table of the Unicode standard (`Forms`).
A loop over characters is a recursive function of the position it has reached.

Each module has a section of *faulty steps*.  No specification uses them: each
is a plausible slip, and `mutants` in `PROJECT.json` pairs it with the property
that notices it.

## What the runs show

| Run | Question | Answer |
|---|---|---|
| `asyncqueue_atomic` | Does the mutex make each call atomic, spurious wake-ups included? What is then left of the FIFO channel? | Yes: mutual exclusion, and every behaviour is one of `CondQueue`. A channel whose pop may give up on an empty queue (`PolledSpec`): order and delivery stand |
| `asyncqueue_wakeups` | When only signals wake, can two woken threads compete for one element, or a pop return NULL? Does a signalled pop return? | No; yes, with a mutex that does not starve. But `Backlog`, the elements nobody has been woken for, never shrinks: a push that finds nobody waiting leaves the queue one behind for good, and nothing else does. The statements implement the FIFO channel |
| `asyncqueue_spurious` | ... and if `pthread_cond_wait` returns unsignalled? | A pop returns NULL, which `os_msg.c:34` asserts it does not (violation) |
| `threadpool` | Is each pool task in one place, freed once, and does the pool's queue outlive its workers? Is a task whose worker has been woken run? Does a pool that was busy catch up? Does destroy return? | Yes; yes; by a spurious wake-up only; only if no worker was ever started, since workers never end |
| `messaging_safety` | Do registry, queues and messages stay consistent while tasks come and go? | Yes, up to the first use of a freed queue |
| `messaging_use_after_free` | Is that use possible in a program like `src/sample/task_broadcast.c`, whose consumers end? | Yes: a task frees its queue before it clears `task->q` and leaves the list, and a send pushes after it has let go of the list (violation) |
| `tcpserver_safety` | Does each connection have one holder from accept to answer, is none forgotten, and is the server struct freed after its last use? | Yes, up to the first use of an unassigned pointer; a connection is dropped when it was accepted before create had stored the callback, when it is descriptor 0, and when the pool has no memory for it |
| `tcpserver_create` | Does a created server serve, with the threads it was asked for? | Not if the accept task reads `s->threads` before create writes it (violation) |
| `tcpserver_answers` | Is a client whose connection is in the pool answered? | Not if no worker was waiting when it was added: all workers sleep while it is queued (violation) |
| `library` | JSON: is an object a map? Has every value one owner, and the parent that holds it, whatever fails? Is a deep copy equal to its original and disjoint from it, and does one that fails leave nothing? Is what is saved loaded? Are strings, comments and UTF-8 read as they should be? Do equal documents match the same schemas? Lists: are those of `klist.h` sequences? What does an unlocked walk of the trace print? Does a file keep the bytes of every call in order? Has a descriptor two owners? | Yes, an object that is cleared being put aside; up to `orphaned`; yes; yes, or the load fails; yes, for comments without quotes, backslashes or starts of the other kind in them; yes, though equality up to an epsilon is not transitive. Yes, `list_splice_init_rcu` aside; a beginning of the trace, at least what was there when it began; each byte once and in order, though a call that failed half-way looks like one that did not; no, if an object is destroyed once; some descriptors are lost for good |
| `json_clear` | What if an object is used after `pjson_object_clear`? | Cells lead to names that were freed (violation) |
| `klist_rcu` | Does `list_splice_init_rcu` splice? | Not into an empty list, and of an empty list it links in the head (violation) |

The six violations are the six findings of `PROJECT.json`.

### Bounds

* **AsyncQueue**: four threads: one that only pushes, two that only pop, and one
  that does both, as a task does.  `QueueBound` (3 or 4) caps the list, which the
  code does not; it exceeds the number of threads that can be woken at once, so
  there are states with a backlog and woken threads.  Two data values suffice for
  order: the list is moved around, never inspected.
* **ThreadPool**: two workers and three tasks: a task can be queued while both
  workers are busy.  Addresses of tasks are reused.
* **Messaging**: three tasks besides the main thread, two names, so two tasks can
  have one name; two values of `pthread_self`, so a third thread reuses one; two
  messages.  Each element of `Tasks` is created at most once, so the address of a
  freed task or queue is not handed out again: a push to a freed queue is always
  seen as one, never as a push to a stranger.  Tasks, names, tids and messages are symmetric
  (`Interchangeable` in `MCMessaging`), which is sound for the invariants checked.
  The main thread is not: it has no queue and does not end.
* **TcpServer**: two workers and three connections, so one is added while both are
  busy; two connections and no symmetry for the liveness run.  The violation runs have
  memory (`MallocCanFail` is FALSE), so that what they show is not due to the lack of it.

* **JSON**: three names with hashes 7, 15 and 0 and two values: two names collide in a
  table of four cells and in one of eight, and the second of them goes around its end to
  where the third belongs; the table starts with 4 cells (16 in the code) and grows at
  the third member. Six addresses, one name, two items in an array, two values held when
  one is made, and three values in all when a call is made that does more than free one
  (`MaxLive`), so that the largest can still be copied whole: an array in an array, an
  object with a member, an array with two, and copies that fail at any of their values.
  25 documents, nested below, at and above `MaxNesting` (2 in place of 2048).  A string
  grows while it has fewer than five elements and may end with a whole `\u` escape, a
  text with comments has up to six characters, a UTF-8 input up to four bytes, of the
  bytes on both sides of every limit of the definition (`TestBytes`, `MaxLength`: the
  theorems need neither).
* **Lists, trace, files, descriptors**: two heads and three
  nodes, so that splices and moves meet lists of none,
  one and two nodes; two threads and four allocations against a walk; three calls of
  up to two bytes; four descriptors and three nodes.

* **`klist_rcu`**: two heads and two nodes; one node and an empty list suffice.

The parts of `MCLibrary` share no state, and the type invariants of JsonObject and
JsonTree are a part of `CellsMatchItems` and `OneOwner`.  One variable, `part`, picks
the part that moves, so a run explores the sum of their states and not the product.

`CHECK_DEADLOCK FALSE` is set where every thread may rightly wait for ever:
consumers while nobody pushes, tasks while nobody sends, and after `wild`; and in
`library`, whose inputs, calls and allocations end at their bounds.

### Fairness

A thread inside a call keeps running: weak fairness of its steps.  A thread that waits
for a mutex has strong fairness of that step alone: glibc's mutex makes no such promise
in theory, the kernel's wake-up of its waiters makes it in practice, and without it no
statement about the return of a pop is true. Nobody has to call anything: producers need
not push, owners need not create or destroy.  A function run by a pool worker returns.
`tcpserver_answers` assumes in addition that a client that has connected writes, as the
samples do: a worker that reads from a silent client would be a reason of its own for
others not to be answered.

## What is proved

For all finite sets of threads, all pointers and all queue bounds
(`AsyncQueueAssumption`; the theorems on `CondQueue` that count consumers take their
finiteness as a hypothesis):

* `AsyncQueueProofs!TypeCorrect`, `MutexExcludes` - the type invariant and
  mutual exclusion, spurious wake-ups or not.
* `ElementsMatchWakeups`, `PopReturnsElement` - with `SpuriousWakeups = FALSE`,
  there is an element for every woken thread, and a pop never returns NULL.
  `WokenHasElement` alone is not inductive.  The invariant
  `WakeupInv` joins it to the types, to mutual exclusion (a second thread may not
  be in the critical section when the element is counted) and to `NoNullPop`.
  The proof counts `Claimed`, the threads that will take an element without
  anybody doing more; the lemma `ClaimEffect` states how each step changes it.
* `LostWakeupsStayLost`, `OnlySignalsLoseWakeups` - the two action properties on
  `Backlog`, from the same lemma.
* `Refinement` - the statements of `os_async_queue.c` implement `CondQueue`.
  The mapping hides an element appended by a push that has not signalled, so that a
  push takes effect at its signal; `AppendedBeforeSignal` is what makes hiding it
  possible (the last element is that push's).
* `QueueIsFifo` - without spurious wake-ups the statements of `os_async_queue.c`
  implement `FifoQueue`, from `RefinementStep`, `WakeupInv` and the lemma that a woken
  thread finds the abstract queue not empty.
* `QueueIsPolled` - with spurious wake-ups or not, the statements implement the channel
  of `PolledSpec`.  It uses `Refinement` and the argument of `CondImplementsPolled`, which
  is repeated since the prover cannot use a theorem of an instance.
* `LibraryProofs!SignalsCarryElements`, `CondImplementsFifo` - without spurious
  wake-ups `CondQueue` implements `FifoQueue`; `CondImplementsPolled` - with them it
  implements the channel of `PolledSpec`.

For all numbers of workers up to 63 and all finite sets of pool tasks
(`ThreadPoolAssumption`; 63 is what the code allows):

* `ThreadPoolProofs!PoolTypes`, `QueueIsSafe`, `DestroyWaitsForEver` - types, the queue
  that is not freed under a worker, and a destroy that returns only from a pool that
  started no worker.  `PoolInv` joins to the types which worker may be where in each phase
  of the pool: a worker once started is never anything but in its loop.
* `BusyPoolStaysBehind` - the action property on the backlog of a pool; the number of
  woken workers changes by one in the steps of a push and a pop, and in no other.
* `TaskHasOnePlace` - from `PlaceInv`, which counts nothing: no two positions of the queue,
  no two workers, and no position and worker have one task, and who has a task has it
  live.  `PlacesCounted` turns that into the cardinality that `OnePlace` bounds.  The
  theorems on messages and connections go the same way.

For all sets of tasks, names, thread ids and messages (`MessagingAssumption`), spurious
wake-ups or not:

* `MessagingProofs!MessagingTypes`, `RegistryHoldsLiveTasks`, `NobodyReceivesForAnother`,
  `MessageHasOneOwner`, `MessageReachesItsName`.  No property is inductive alone.  Which
  queue a task finds by its tid rests on tids being different among the tasks in the list
  (`TidInv`), that on one thread at a time creating or ending a task (`CallInv`), and both
  on the list holding each task once (`ListInv`).  That a message in a queue is addressed
  to the name of its owner needs more of the senders: one on its way to a push has the queue
  of a task with that name, or one that was freed since (`NameInv`).

For all numbers of workers up to 63, all finite sets of connections
(`TcpServerAssumption`), up to the first use of an unassigned pointer as in the run:

* `TcpServerProofs!ServerTypes`, `ServerFreedLast` - types, and a server that is freed
  after its accept task has ended, since destroy waits for the semaphore which that task
  posts last (`ServerInv`).
* `ConnectionHasOneHolder`, `ClientsAreKept` - from `PlaceInv`, which is that of the pool
  joined with the backlog of the socket, the accept task and what it has dropped, and from
  `ClientInv`: what the client has done says whether somebody holds its connection.

For any set of threads and any number of allocations (`MemTraceAssumption`):

* `LibraryProofs!TraceIsReadWhole` - the unlocked walk of `os_mm_show`.  `Published` is the
  number of records whose four stores are done; `LinkInv` says that `next` leads through
  exactly these, `WalkInv` that the walk has printed the first of them and stands at the
  next one, or at the end of a list that had grown no longer when it looked.

For any lengths and numbers of calls (`FilesAssumption`):

* `LibraryProofs!FilesKeepTheirBytes` - `FileInv` says when a call may be short of its
  bytes (`CallsInv`) and what a reader has seen (`ReaderInv`).  The property of a log is
  inductive with these.  That of a record names the last call that has reached a place, a
  maximum; `RecordInv` says instead that each place has a call which reached it and no later
  one that did (`LastAt`), and that no call is beyond the end of the file.

For any finite set of descriptors and any number of nodes (`DescriptorsAssumption`):

* `LibraryProofs!DescriptorsHaveOneOwner` - `OneOwnerEach` counts; `FdOwners` says that the
  four kinds of owners share no number and no two nodes have one, which each step keeps
  because the kernel hands out a number that is not open.  `Lowest` exists by the least
  number principle, taken from the well-foundedness of `<`.

For any heads, any finite set of nodes (`KListAssumption`, `HListAssumption`):

* `ListProofs!ListsImplementSequences` - `ListInv`, that the pointers hold some
  sequences of distinct nodes with nothing else listed (`Holds`), is inductive, and each
  function of `list_head`, `list_splice_init_rcu` excepted, is the step of ListSeq it is
  named for.  A function is a composition of four changes, with a lemma for each: a node
  comes in behind the first `k` (`LinkedIn`), leaves (`LinkedOut`), is replaced
  (`Replaced`), and one list goes in front of another (`SplicedIn`).  The mapping
  chooses a sequence the pointers show; that there is only one (`ShownOnce`) follows by
  looking at the first place where two would differ.
* `BucketsImplementSequences` - the same for hlists; `HListInv` adds that `pprev` is NULL
  exactly for the nodes in no bucket, which is what `hlist_unhashed` relies on.
* `ListsKeepSequences` - both, as the run checks them.

For any addresses and names, and whatever fails (`JsonTreeAssumption`):

* `JsonProofs!ValuesHaveOneOwner`, `ParentsNameOwners` - from `Tidy`, stated of any heap
  and any set of values the caller owns: a member has one key of one container, which is
  its parent; no member is owned by the caller too; and no set smaller than all
  allocated values has the caller's values and the members of what it has, so that
  nothing is leaked and there are no cycles that own themselves.  The calls are
  compositions of four changes that keep `Tidy`: a value goes with all below it
  (`Prune`), a container takes a value (`Attach`), loses one, or gets one in place of
  another.  Each activation of a deep copy owns the copy it is making, so its steps are
  made of the same four.
* `CopiesAreEqual` - from `Underway` and `Mirror`, which `IInv` joins to `Tidy` and to
  what is known of the parents of the caller's values.  `Underway`: the heap there was
  before the copy began is still there, unchanged and closed, so that nothing new is
  below anything old.  `Mirror`: there is a map from the new values to old ones, under
  which each is like the one it stands for, complete if its activation has returned, and
  a part of it (the first items of an array, some names of an object) if it has not.  A
  step extends the map by the value it makes (`CallStep`); when the outermost activation
  is complete it is the correspondence that `Same` asks for.
* `FailuresChangeNothing` - the calls of one step make and free their values in a heap that is
  followed from lemma to lemma (`HalfMade`, `TwoHalfMade`, `RollbackLeaves`).  For a deep copy
  nothing is said of what its activations free: `Tidy` and `Underway` hold in
  the last step too, and there the variables own what they did before, so that the values there
  were before are all that is below them.

For any names, values, hashes and starting capacity above one (`JsonObjectAssumption`), and
whatever allocation fails:

* `JsonProofs!TablesKeepOrder` - from `TableInv`: while an object has not been cleared no
  call has gone astray, and its table is `Good`, which has three parts.  Cells and
  members name each other and names differ (`Linked`).  For a member at cell `c`
  every cell from the one of its hash up to `c`, around the end of the table, is taken
  (`Reaches`); this is what makes a lookup right, and neither `CellsMatchItems` nor any
  look at one cell shows it.  There are at most as many members as the capacity allows,
  so that a cell is free (a pigeon-hole argument) and every probe ends.
* `CellsAndMembersMatch` - the invariant of the run, which follows.
* `TablesImplementMaps` - with an object put aside once it is cleared (`~ClearThenUse`), the
  table implements NameMap.  A probe ends at the nearest cell that is empty or holds
  the name (`ProbeIs`), so what lookups find is what the members say (`LookupsMap`), and
  each call changes that as the map does.  Growing is an induction over the members moved
  (`GrownSound`).  For a removal the induction is over the turns of the loop (`ScanKeeps`):
  the table without the hole stays `Linked`, probes reach their members but for the hole, and
  no probe for a member already looked at passes it.  The test of the code is the
  comparison of two distances (`ShiftIsNearer`), and an empty cell ends the loop rightly,
  since a probe that passed the hole and went on behind that cell would have stopped at it
  (`ScanEnds`).  The loop never runs out of turns, because a cell is free.  These inductions
  are least counterexamples over the numbers; the two loops are recursive functions, which
  are shown to exist in the same way (`GrownExists`, `ScannedExists`).

For texts of any length, and any bytes (`JsonCharsAssumption`):

* `JsonCharsProofs!Utf8IsAccepted` - `verify_utf8_sequence` accepts a sequence exactly when
  one of the nine forms of the Unicode standard fits it (`VerifyIsForm`).  The code works with
  code points and the standard with ranges of bytes, so for each length a lemma says which
  bytes make a code point too small, too large or half of a surrogate pair (`CodeTwo` to
  `CodeFour`).  Since a form has the length that the first byte says, a string can be cut into
  sequences in one way only, and what the loop accepts up to a length is well formed up to the
  end of a sequence from there on (`ValidIsFormed`).
* `StringsAlwaysSurvive` - a written string holds what each character is written as,
  one behind the other (`Stands`, `EscapedStands`).  `skip_quotes` steps over each of
  them to the closing quote (`SkipQuoted`), and `process_string` reads each back
  (`ProcessEscaped`).  A string that is read takes at most the bytes of what it is read from,
  since no escape is shorter than its character (`ReadFits`): this is what the size
  of the buffer rests on.
* `CommentsAreRemoved` - `Agree` says that from a position on, inside code, a string or a
  comment, the kinds of the elements are those of the text.  The first pass sees a line
  comment as code and the second one a block comment as spaces (`Spaced`); each blanks out
  its own kind and passes over the other (`BlocksBlanked`, `LinesBlanked`), because
  `strstr` finds the end that C does (`BlockClosed`, `LineClosed`).  The conditions of
  `CommentsRemoved` are used where the passes would go wrong without them: a quote in a
  comment opens a string, the start of a block in a line comment opens a block.
* Recursion over positions is induction over an interval (`Upwards`, `Downwards`).  That the
  recursive functions of JsonChars exist is proved for each (`RecursionExists`, `StopsExist`,
  `BlankedExists`, `KindsExist`); what they compute follows from their equations.

The invariants of the other modules (`IInv`, `PoolInv`, `PlaceInv`, `FileInv`, ...) were
checked with TLC before they were proved; for the table the run checks the two properties.

Model-checked only: liveness (`WokenReturns`, `SignalledTaskTaken`), which needs fairness
and ENABLED; and JsonText (`LoadReturnsSaved`, `EqualsValidateAlike`).  Its operators
descend into values that contain values, with no number to count the descent by: they are
RECURSIVE, the module holds no theorem, and what they compute is compared with its
definition on the bounded documents above.

## What is not modelled

* **Torn lists.** `os_async_queue_length` reads a list without the mutex, the failure path
  of `os_task_create` unlinks without `os_task_mutex`, `os_task_mm_show` walks the
  task list and then the allocations of a task without it.  What follows
  when they meet a change is undefined; in the models each is one step or
  left out.  `os_mm_show` is the exception: nothing is ever removed from its list, so
  the walk has a meaning, and MemTrace checks it.
* **The second list of an allocation**, that of its task, and what is printed of a record.
* **Pools and servers**: the struct of a pool, which destroy does not free; `queue_size`,
  which is compared with a constant and bounds nothing; the descriptors of connections,
  which nothing closes.
* **The event loop.**  `evdriver->loop` is set to -1 and never to a descriptor, so the
  loop of `os_evdriver_run2` is not reached; add, del and destroy are in Descriptors.
  The GLib variant is calls into GLib, whose dispatch is not in `src/`.
* **Datagrams**: send and recv, and the address a receive overwrites.
* **Files**: the formatting of `os_trace2file`, and the two calls that ask the file
  system (`os_file_size`, `os_file_exist`).
* **JSON**: the digits of numbers, the sizes of buffers, the getters, which only read, and
  what the parser frees when it gives up half-way.  A program that makes
  a value a part of itself is the caller's fault here as in the code, which does not look.
* **Slips of one line**, seen while modelling and left to a test: the elapsed time of
  `os_timer_stop` is taken modulo a second (`os_timer.c:38`); `vsnprintf` returns the
  untruncated length (`os_file.c:147`); `os_mm_malloc` names the task in the wrong record
  (`os_mm.c:54`); the signal callback of the GLib event driver is handed `user_data` where
  it expects the block it frees, and a periodic timer's block is freed at the first expiry
  (`linux_glib/base/os_evdriver.c:169`, `:51`); `strtod` takes a lone sign for 0
  (`parson.c:1071`).
* Everything listed as `not_modelled` in `PROJECT.json`, with its reason there: timers,
  wrappers of pthread and libc, stubs, logging.
* In Messaging, what happens after a freed queue is used.

## Plan

Done: FifoQueue, AsyncQueue, CondQueue, ThreadPool, Messaging, TcpServer, the allocation
trace, the lists, files, descriptors, JsonTree, JsonObject and JsonChars, all with their
proofs; JsonText.

Next, in this order:

1. The list of allocations of a task in MemTrace, and its use by `os_task_mm_show` once
   Messaging ends tasks under it.
2. Abstract specifications of the larger parts: a mailbox per name for Messaging, a bag
   of jobs for ThreadPool.
