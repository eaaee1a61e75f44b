--------------------------- MODULE MCSyncProtocol ---------------------------
(* Instances of SyncProtocol for TLC. *)
EXTENDS SyncProtocol

CONSTANTS c1, c2, a1, a2, a3, b1, s1

\* c1 authors a1 and a2, c2 authors b1 and the server s1; a2 needs a1 (a block
\* and the page it is in).
MCAuthorOf == [o \in Ops |-> CASE o = b1 -> c2
                               [] o = s1 -> Server
                               [] OTHER  -> c1]
NoNeeds == [o \in Ops |-> {}]
MCNeeds == [o \in Ops |-> IF o = a2 THEN {a1} ELSE {}]
=============================================================================
