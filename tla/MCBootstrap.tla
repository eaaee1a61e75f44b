---------------------------- MODULE MCBootstrap ----------------------------
(* Two devices and a server, for TLC; e1 and e2 are made on d1. *)
EXTENDS Bootstrap

CONSTANTS d1, d2, e1, e2, f1

MCEditorOf == [e \in Edits |-> IF e = f1 THEN d2 ELSE d1]
=============================================================================
