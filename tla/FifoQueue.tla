----------------------------- MODULE FifoQueue -----------------------------
(***************************************************************************)
(* What os_async_queue.h promises its callers: a first-in first-out        *)
(* channel of pointers.  A push appends, a pop hands the oldest element to *)
(* exactly one caller, and no pop returns without an element.  It is also  *)
(* what the linux_glib build provides, whose push and pop are the two      *)
(* g_async_queue functions of the same names.  Nothing is said here of     *)
(* threads, locks or wake-ups.                                             *)
(***************************************************************************)
EXTENDS Sequences

CONSTANTS Consumers,  \* the threads that may pop
          Data,       \* the pointers that may be pushed
          NULL        \* no pointer

VARIABLES chan,       \* the elements pushed and not yet popped, oldest first
          got         \* got[t]: what the last pop of t returned

fifoVars == <<chan, got>>

FifoInit == chan = <<>> /\ got = [t \in Consumers |-> NULL]

Send(d) == chan' = Append(chan, d) /\ UNCHANGED got

Receive(t) ==
    /\ chan # <<>>
    /\ got' = [got EXCEPT ![t] = Head(chan)]
    /\ chan' = Tail(chan)

FifoNext == (\E d \in Data : Send(d)) \/ (\E t \in Consumers : Receive(t))

FifoSpec == FifoInit /\ [][FifoNext]_fifoVars

(***************************************************************************)
(* The weaker channel: a pop may also give up, but only on an empty one.   *)
(***************************************************************************)
GiveUp(t) ==
    /\ chan = <<>>
    /\ got' = [got EXCEPT ![t] = NULL]
    /\ UNCHANGED chan

PolledNext == FifoNext \/ (\E t \in Consumers : GiveUp(t))

PolledSpec == FifoInit /\ [][PolledNext]_fifoVars
=============================================================================
