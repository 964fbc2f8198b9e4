----------------------------- MODULE MCLibrary -----------------------------
(***************************************************************************)
(* The models of parson.c and of the small parts of the library side by    *)
(* side.  They share no state: `part` says which of them a behaviour is    *)
(* about, and only that one moves.                                         *)
(***************************************************************************)
EXTENDS MCJson, Lists, MemTrace, Files, Descriptors

Parts == JsonParts \cup {"klist", "hlist", "trace", "file", "descriptors"}

Init ==
    /\ part \in Parts
    /\ JsonInit
    /\ KListInit /\ HListInit /\ MemInit /\ DescriptorInit
    /\ FileInit /\ (part # "file" => use = "log")

JsonStep ==
    /\ JsonNext
    /\ UNCHANGED <<klistVars, hlistVars, memVars, fileVars, fdVars>>

KListStep ==
    /\ part = "klist" /\ KListNext
    /\ UNCHANGED <<jsonVars, hlistVars, memVars, fileVars, fdVars>>

HListStep ==
    /\ part = "hlist" /\ HListNext
    /\ UNCHANGED <<jsonVars, klistVars, memVars, fileVars, fdVars>>

TraceStep ==
    /\ part = "trace" /\ MemNext
    /\ UNCHANGED <<jsonVars, klistVars, hlistVars, fileVars, fdVars>>

FileStep ==
    /\ part = "file" /\ FileNext
    /\ UNCHANGED <<jsonVars, klistVars, hlistVars, memVars, fdVars>>

DescriptorStep ==
    /\ part = "descriptors" /\ DescriptorNext
    /\ UNCHANGED <<jsonVars, klistVars, hlistVars, memVars, fileVars>>

Next == JsonStep \/ KListStep \/ HListStep \/ TraceStep \/ FileStep \/ DescriptorStep

Spec == Init /\ [][Next]_<<jsonVars, klistVars, hlistVars, memVars, fileVars, fdVars>>
=============================================================================
