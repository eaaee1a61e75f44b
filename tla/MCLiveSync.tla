----------------------------- MODULE MCLiveSync -----------------------------
(***************************************************************************)
(* LiveSync in two scenarios.  In one an operation of the device is        *)
(* refused, another one is not, and the server crashes.  In the other the  *)
(* device has one operation, pushes of it are repeated, the backlog does   *)
(* not fit a page, and anything fails.                                     *)
(***************************************************************************)
EXTENDS LiveSync

CONSTANTS c1, c2, a1, a2, b1, s1

VARIABLE scenario

\* c1 authors a1 and a2, c2 authors b1 and the server s1.
MCAuthorOf == [o \in Ops |-> CASE o = b1 -> c2
                               [] o = s1 -> Server
                               [] OTHER  -> c1]
NoNeeds == [o \in Ops |-> {}]

\* The constants of this module are those of the refusal.  Nobody writes a2 in
\* the other scenario.
WithoutSecond == [o \in Ops |-> IF o = a2 THEN Nobody ELSE MCAuthorOf[o]]

Torn == INSTANCE LiveSync WITH
    AuthorOf <- WithoutSecond, Refused <- {}, BacklogSize <- 1, MaxUnanswered <- 2,
    FaultKinds <- {"network", "crash", "snapshot", "retry"}

ScenariosInit == LiveInit /\ scenario \in {"refusal", "torn"}

ScenariosNext ==
    /\ UNCHANGED scenario
    /\ \/ scenario = "refusal" /\ LiveNext
       \/ scenario = "torn" /\ Torn!LiveNext

\* What is promised in the end is promised of the refusal, under its fairness.
ScenariosSpec == ScenariosInit /\ [][ScenariosNext]_<<liveVars, scenario>> /\ LiveFairness

\* An operation that the server can accept reaches the log and every device,
\* although one beside it is refused and the server crashes
\* (isolate_rejected_batch, synchronize_session).
OpsArriveBesideRefusals == scenario = "refusal" => SoundOpsArrive
=============================================================================
