------------------------------- MODULE Lists -------------------------------
(* The two kinds of list of klist.h, side by side. *)
EXTENDS KList, HList

\* The pointer lists of klist.h are sequences of nodes, and each function
\* changes them as its name says.
ListsAreSequences == ImplementsListSeq /\ BucketsAreSequences
=============================================================================
