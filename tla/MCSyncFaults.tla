---------------------------- MODULE MCSyncFaults ----------------------------
(* The protocol when every operation can be applied, and when a1 clashes with *)
(* what the server has.                                                       *)
EXTENDS MCSyncProtocol

VARIABLE clash \* the second case

Calm == INSTANCE SyncProtocol WITH Clashing <- {}
Tense == INSTANCE SyncProtocol WITH
    FaultKinds <- {"network", "crash", "storage", "snapshot"}

FaultsInit == Init /\ clash \in BOOLEAN
FaultsNext ==
    /\ UNCHANGED clash
    /\ \/ ~clash /\ Calm!Next
       \/ clash /\ Tense!Next

\* Operations of one author reach the log in the order they were made, except
\* for those the server cannot apply.
AuthorOrderKept == IF clash THEN AuthorOrder ELSE Calm!AuthorOrder

FaultsSpec == FaultsInit /\ [][FaultsNext]_<<vars, clash>>
=============================================================================
