----------------------------- MODULE CondQueue -----------------------------
(***************************************************************************)
(* os_async_queue.c seen from outside its mutex: each critical section is  *)
(* one step.  What is left is what the callers can observe, the condition  *)
(* variable's wait set included.  os_async_queue_pop waits without looking *)
(* at the queue, so a push that finds no thread blocked is not remembered  *)
(* by anybody: its element stays until a later push wakes a thread.        *)
(*                                                                         *)
(* AsyncQueue implements this module, and ThreadPool and Messaging are     *)
(* built on it.                                                            *)
(***************************************************************************)
EXTENDS Naturals, Sequences, FiniteSets

CONSTANTS Consumers,        \* the threads that may call os_async_queue_pop
          Data,             \* the pointers that may be pushed
          NULL,             \* what a pop of an empty queue returns
          SpuriousWakeups,  \* whether pthread_cond_wait may return unsignalled
          QueueBound        \* a bound of the model: the code has none

VARIABLES queue,   \* the queue's list, oldest element first
          state,   \* state[t]: outside a pop, waiting in it, or about to take
          got      \* got[t]: what the last pop of t returned

condVars == <<queue, state, got>>

CondTypeOK ==
    /\ queue \in Seq(Data)
    /\ state \in [Consumers -> {"idle", "blocked", "woken"}]
    /\ got \in [Consumers -> Data \cup {NULL}]

Blocked == {t \in Consumers : state[t] = "blocked"}
Woken   == {t \in Consumers : state[t] = "woken"}

CondInit ==
    /\ queue = <<>>
    /\ state = [t \in Consumers |-> "idle"]
    /\ got = [t \in Consumers |-> NULL]

-----------------------------------------------------------------------------
\* pthread_cond_signal: one of the waiting threads wakes, if there is one.
Signal ==
    \/ \E t \in Blocked : state' = [state EXCEPT ![t] = "woken"]
    \/ Blocked = {} /\ UNCHANGED state

Push(d) ==
    /\ queue' = Append(queue, d)
    /\ Signal
    /\ UNCHANGED got

\* The first half of a pop: it waits whatever the queue holds.
Wait(t) ==
    /\ state[t] = "idle"
    /\ state' = [state EXCEPT ![t] = "blocked"]
    /\ UNCHANGED <<queue, got>>

SpuriousWake(t) ==
    /\ SpuriousWakeups
    /\ state[t] = "blocked"
    /\ state' = [state EXCEPT ![t] = "woken"]
    /\ UNCHANGED <<queue, got>>

\* The second half of a pop: the head of the list, or NULL if it is empty.
Pop(t) ==
    /\ state[t] = "woken"
    /\ state' = [state EXCEPT ![t] = "idle"]
    /\ \/ /\ queue # <<>>
          /\ got' = [got EXCEPT ![t] = Head(queue)]
          /\ queue' = Tail(queue)
       \/ /\ queue = <<>>
          /\ got' = [got EXCEPT ![t] = NULL]
          /\ UNCHANGED queue

CondNext ==
    \/ \E d \in Data : Len(queue) < QueueBound /\ Push(d)
    \/ \E t \in Consumers : Wait(t) \/ SpuriousWake(t) \/ Pop(t)

CondSpec == CondInit /\ [][CondNext]_condVars

(***************************************************************************)
(* Without spurious wake-ups this is the channel FifoQueue promises: a     *)
(* thread that wakes always finds an element, its own or an older one.     *)
(***************************************************************************)
Fifo == INSTANCE FifoQueue WITH chan <- queue

ImplementsFifo == Fifo!FifoSpec

\* With spurious wake-ups it is the weaker channel: a pop may come back with
\* NULL, but no element is lost, overtaken or handed out twice for that.
ImplementsPolled == Fifo!PolledSpec

\* Every woken thread has an element of its own to take: no signal is ever
\* sent for an element that another woken thread takes.
WokenHasElement == Cardinality(Woken) <= Len(queue)
=============================================================================
