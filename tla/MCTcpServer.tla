---------------------------- MODULE MCTcpServer -----------------------------
(***************************************************************************)
(* Instances of TcpServer for TLC.  Connections have no identity of their  *)
(* own: the invariants may be checked up to their permutation.             *)
(***************************************************************************)
EXTENDS TcpServer, TLC

SameConnections == Permutations(Conns)
=============================================================================
