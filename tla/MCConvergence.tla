--------------------------- MODULE MCConvergence ---------------------------
(* Instances of Convergence for TLC. *)
EXTENDS Convergence

CONSTANTS d1, d2, p1, p2, b1, b2, j1, t1, t2

\* What the two devices do: d1 restructures and deletes while d2 writes.
Roles(first, second) == [d \in Devices |-> IF d = d1 THEN first ELSE second]

Tree    == Roles({"delete_page", "move_block"},
                 {"create_block", "delete_block", "move_block"})
Undoing == Roles({"delete_page", "set_block_content", "undo", "redo"},
                 {"create_block", "delete_page", "set_block_content"})
\* d1 undoes around what d2 deletes and rewrites.
Adopting == Roles({"delete_page", "create_block", "undo", "redo"},
                  {"delete_page", "set_block_content"})
Naming  == Roles({"rename_page", "ensure_journal"}, {"create_page", "ensure_journal"})
Journal == Roles({"ensure_journal", "delete_page"}, {"ensure_journal"})
Restoring == Roles({"delete_block", "undo"}, {"delete_page", "undo"})

NoHistory  == [d \in Devices |-> 0]
OneEntry   == Roles(1, 1)
TwoEntries == Roles(2, 0)

OnePage   == [b \in Blocks |-> p1]
\* With p2 never created, b1 is the only block.
OneBlock  == [b \in Blocks |-> IF b = b1 THEN p1 ELSE p2]

Seed(i, kind) == [at |-> i, device |-> Server, kind |-> kind]

NoSeeds    == <<>>
PageSeeds  == <<Seed(1, PageCreates(p1, None))>>
BlockSeeds == PageSeeds \o <<Seed(2, BlockCreates(b1, None))>>
=============================================================================
