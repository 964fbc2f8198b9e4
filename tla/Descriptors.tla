---------------------------- MODULE Descriptors ----------------------------
(***************************************************************************)
(* The file descriptors of a process that uses os_broadcast.c,             *)
(* os_multicast.c and the epoll os_evdriver.c beside descriptors of its    *)
(* own.  socket, signalfd and timerfd_create return the lowest descriptor  *)
(* that is not open, so a descriptor closed twice is soon closed under the *)
(* feet of somebody else.                                                  *)
(*                                                                         *)
(* os_evdriver_create2 sets loop to -1 and nothing ever sets it to an      *)
(* epoll descriptor: os_evdriver_run2 always returns -1, no timer and no   *)
(* descriptor can be added, and a signal is added but never waited for.    *)
(* The body of the loop of run2 is therefore unreachable and left out.     *)
(*                                                                         *)
(* The addresses that messages are sent to are left out.  The caller       *)
(* destroys an object once and does not use it after that.                 *)
(***************************************************************************)
EXTENDS Naturals, FiniteSetsExt, SequencesExt

CONSTANTS Fds,       \* the descriptors of the process, 0 .. n
          MaxNodes   \* a bound of the model on the nodes of the event driver

ASSUME DescriptorsAssumption == Fds \in SUBSET Nat /\ IsFiniteSet(Fds) /\ MaxNodes \in Nat

VARIABLES open,      \* the descriptors that are open
          endpoints, \* the os_broadcast_t and os_multicast_t, by their socket_fd
          own,       \* the program's own descriptors
          driver,    \* whether the os_evdriver_t exists
          nodes,     \* its list of os_evdriver_node_t
          deleted,   \* the nodes os_evdriver_del has unlinked and not freed
          lost       \* open descriptors that nothing names any more

fdVars == <<open, endpoints, own, driver, nodes, deleted, lost>>

DescriptorInit ==
    /\ open = {} /\ endpoints = {} /\ own = {} /\ lost = {}
    /\ driver = FALSE
    /\ nodes = <<>>
    /\ deleted = {}

\* What a call that makes a descriptor returns.
Unused == Fds \ open
Lowest == Min(Unused)

Rest == <<driver, nodes, deleted>>

-----------------------------------------------------------------------------
(* Faulty steps, used by no specification: slips the properties must notice. *)

\* the node stays in the list
EvDelNoUnlink(n) ==
    /\ driver
    /\ \E i \in DOMAIN nodes : nodes[i] = n
    /\ deleted' = deleted \cup {n}
    /\ open' = open \ {n.fd}
    /\ UNCHANGED <<endpoints, own, driver, nodes, lost>>

-----------------------------------------------------------------------------
(* The program *)

OwnOpen ==
    /\ Unused # {}
    /\ open' = open \cup {Lowest} /\ own' = own \cup {Lowest}
    /\ UNCHANGED <<endpoints, lost, Rest>>

OwnClose(fd) ==
    /\ fd \in own
    /\ open' = open \ {fd} /\ own' = own \ {fd}
    /\ UNCHANGED <<endpoints, lost, Rest>>

-----------------------------------------------------------------------------
(* os_broadcast.c and os_multicast.c *)

\* Either create, to the end; a multicast create that fails after its socket
\* loses the descriptor, a broadcast create closes it.
Create ==
    /\ Unused # {}
    /\ open' = open \cup {Lowest} /\ endpoints' = endpoints \cup {Lowest}
    /\ UNCHANGED <<own, lost, Rest>>

MulticastCreateFails ==
    /\ Unused # {}
    /\ open' = open \cup {Lowest} /\ lost' = lost \cup {Lowest}
    /\ UNCHANGED <<endpoints, own, Rest>>

\* os_broadcast_destroy, os_multicast_destroy: 0 is taken for no descriptor.
Destroy(fd) ==
    /\ fd \in endpoints
    /\ endpoints' = endpoints \ {fd}
    /\ IF fd > 0 THEN open' = open \ {fd} /\ UNCHANGED lost
       ELSE lost' = lost \cup {fd} /\ UNCHANGED open
    /\ UNCHANGED <<own, Rest>>

-----------------------------------------------------------------------------
(* os_evdriver.c *)

EvCreate ==
    /\ ~driver
    /\ driver' = TRUE /\ nodes' = <<>>
    /\ UNCHANGED <<open, endpoints, own, deleted, lost>>

\* The n-th node of a driver: what the caller holds of it.
Node(fd) == [id |-> Len(nodes) + Cardinality(deleted) + 1, fd |-> fd]

\* os_evdriver_add of a signal: a node with a descriptor of its own, which is
\* lost when the signal cannot be blocked.
EvAddSignal ==
    /\ driver /\ Unused # {} /\ Node(0).id <= MaxNodes
    /\ open' = open \cup {Lowest}
    /\ \/ nodes' = Append(nodes, Node(Lowest)) /\ UNCHANGED lost
       \/ lost' = lost \cup {Lowest} /\ UNCHANGED nodes
    /\ UNCHANGED <<endpoints, own, driver, deleted>>

\* os_evdriver_add of a timer: epoll_ctl fails, the node is freed, its
\* descriptor is lost.
EvAddTimer ==
    /\ driver /\ Unused # {}
    /\ open' = open \cup {Lowest} /\ lost' = lost \cup {Lowest}
    /\ UNCHANGED <<endpoints, own, driver, nodes, deleted>>

\* os_evdriver_del, as often as the caller likes: a node is found in the list
\* once, and not freed.
EvDel(n) ==
    /\ driver
    /\ \E i \in DOMAIN nodes : nodes[i] = n /\ nodes' = RemoveAt(nodes, i)
    /\ deleted' = deleted \cup {n}
    /\ open' = open \ {n.fd}
    /\ UNCHANGED <<endpoints, own, driver, lost>>

\* os_evdriver_destroy: what is in the list is closed and freed.
EvDestroy ==
    /\ driver
    /\ driver' = FALSE
    /\ nodes' = <<>>
    /\ deleted' = {}
    /\ open' = open \ {nodes[i].fd : i \in DOMAIN nodes}
    /\ UNCHANGED <<endpoints, own, lost>>

DescriptorNext ==
    \/ OwnOpen \/ \E fd \in own : OwnClose(fd)
    \/ Create \/ MulticastCreateFails \/ \E fd \in endpoints : Destroy(fd)
    \/ EvCreate \/ EvAddSignal \/ EvAddTimer \/ EvDestroy
    \/ \E i \in DOMAIN nodes : EvDel(nodes[i])

DescriptorSpec == DescriptorInit /\ [][DescriptorNext]_fdVars

-----------------------------------------------------------------------------
(***************************************************************************)
(* Every open descriptor has one owner, an endpoint, a node in the list or *)
(* the program, or is lost for good; and what an object holds is open.  So *)
(* no del and no destroy closes a descriptor that has become another's.    *)
(***************************************************************************)
OneOwnerEach ==
    /\ open = endpoints \cup own \cup lost \cup {nodes[i].fd : i \in DOMAIN nodes}
    /\ Cardinality(open) = Cardinality(endpoints) + Cardinality(own)
                           + Cardinality(lost) + Len(nodes)
=============================================================================
