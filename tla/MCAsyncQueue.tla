---------------------------- MODULE MCAsyncQueue ----------------------------
(***************************************************************************)
(* Instances of AsyncQueue for TLC.  Thread m both pushes and pops, as a   *)
(* task that sends and receives does; p only pushes, c1 and c2 only pop.   *)
(***************************************************************************)
EXTENDS AsyncQueue

CONSTANTS p, m, c1, c2

MCProducers == {p, m}
MCConsumers == {m, c1, c2}
=============================================================================
