----------------------------- MODULE MCScenarios -----------------------------
(***************************************************************************)
(* Convergence in four scenarios, each with the commands, the history and  *)
(* the number of operations that it is about.                              *)
(***************************************************************************)
EXTENDS MCConvergence

CONSTANTS TreeCommands, NamingCommands, AdoptingCommands,
          FewStamps     \* MaxStamp of all scenarios but "adopt"

VARIABLE scenario

\* The constants of this module are those of the work that is undone.
TreeWork == INSTANCE Convergence WITH
    Commands <- TreeCommands, Seeds <- BlockSeeds, HistoryLimit <- NoHistory,
    MaxStamp <- FewStamps
UndoWork == INSTANCE Convergence WITH MaxStamp <- FewStamps
NameWork == INSTANCE Convergence WITH
    Commands <- NamingCommands, HistoryLimit <- NoHistory, MaxStamp <- FewStamps
AdoptWork == INSTANCE Convergence WITH
    Commands <- AdoptingCommands, PageOf <- OneBlock

ScenariosInit ==
    \/ scenario = "tree" /\ TreeWork!Init
    \/ scenario = "undo" /\ UndoWork!Init
    \/ scenario = "adopt" /\ AdoptWork!Init
    \/ scenario = "naming" /\ NameWork!Init

ScenariosNext ==
    /\ UNCHANGED scenario
    /\ \/ scenario = "tree" /\ TreeWork!Next
       \/ scenario = "undo" /\ UndoWork!Next
       \/ scenario = "adopt" /\ AdoptWork!Next
       \/ scenario = "naming" /\ NameWork!Next

ScenariosSpec == ScenariosInit /\ [][ScenariosNext]_<<vars, scenario>>
=============================================================================
