---------------------------- MODULE MCMessaging -----------------------------
(***************************************************************************)
(* Instances of Messaging for TLC.  Tasks, names, thread ids and message   *)
(* addresses are only compared for equality, so each set may be permuted   *)
(* in the runs, which check invariants only.                               *)
(***************************************************************************)
EXTENDS Messaging, TLC

Interchangeable ==
    Permutations(Tasks) \cup Permutations(Names) \cup Permutations(Tids)
    \cup Permutations(Msgs)
=============================================================================
