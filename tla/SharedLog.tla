------------------------------ MODULE SharedLog ------------------------------
(***************************************************************************)
(* What the sync promises, without any of its machinery: one log that only *)
(* grows, in which every operation somebody wrote appears at most once,    *)
(* and one position per reader that only moves forward inside that log.    *)
(* docs/architecture/sync-storage-ai.md describes the server this way      *)
(* ("append-only sequenced oplog", "a gapless per-user seq").              *)
(***************************************************************************)
EXTENDS Integers, Sequences

CONSTANTS Op, Reader

VARIABLES
    written,   \* operations somebody has authored
    log,       \* the sequenced operations
    position   \* position[r]: how much of the log reader r has applied

Init ==
    /\ written = {}
    /\ log = <<>>
    /\ position = [r \in Reader |-> 0]

Write(o) ==
    /\ o \in Op \ written
    /\ written' = written \union {o}
    /\ UNCHANGED <<log, position>>

Sequence(o) ==
    /\ o \in written
    /\ \A i \in DOMAIN log : log[i] # o
    /\ log' = Append(log, o)
    /\ UNCHANGED <<written, position>>

\* A reader applies a run of operations that follow its position.
Read(r, n) ==
    /\ position[r] < n /\ n <= Len(log)
    /\ position' = [position EXCEPT ![r] = n]
    /\ UNCHANGED <<written, log>>

Next ==
    \/ \E o \in Op : Write(o) \/ Sequence(o)
    \/ \E r \in Reader, n \in 1 .. Len(log) : Read(r, n)

Spec == Init /\ [][Next]_<<written, log, position>>
=============================================================================
