------------------------------ MODULE Snapshot ------------------------------
(***************************************************************************)
(* What a server hands to a device that joins: export_sync_snapshot,       *)
(* validate_snapshot and import_sync_snapshot of notes-core/src/           *)
(* operation.rs.  A snapshot has the rows of pages, blocks, structure      *)
(* intents and tombstones, all with their stamps; the tree of blocks is    *)
(* among them but the importer builds it again from the intents.           *)
(***************************************************************************)
EXTENDS ApplyEngine

\* One transaction reads every table, so a snapshot is a database at a moment.
ExportSnapshot(db) ==
  [pages      |-> [p \in {q \in Pages : PageExists(db, q)} |-> db.pages[p]],
   blocks     |-> [b \in {c \in Blocks : BlockExists(db, c)} |-> db.blocks[b]],
   structure  |-> [b \in {c \in Blocks : db.structure[c].at > 0} |-> db.structure[b]],
   tombstones |-> [x \in {y \in Objects : IsTombstoned(db, y)} |-> db.tombstones[x]]]

Live(s) == DOMAIN s.pages \cup DOMAIN s.blocks
Dead(s) == DOMAIN s.tombstones

-----------------------------------------------------------------------------
(* validate_snapshot *)

\* "snapshot UUID {} is both live and tombstoned"
NothingLivesDead(s) == Live(s) \cap Dead(s) = {}

\* "snapshot block {} references missing page {}"
BlocksHavePages(s) == \A b \in DOMAIN s.blocks : PageOf[b] \in DOMAIN s.pages

\* "snapshot block {} has missing materialized parent {}"
ParentsAreThere(s) ==
  \A b \in DOMAIN s.blocks :
    LET up == s.blocks[b].parent
    IN  up # None => up \in DOMAIN s.blocks /\ PageOf[up] = PageOf[b]

\* "snapshot structure references missing block {}", "snapshot block {} has no
\* raw structure intent"
IntentsMatchBlocks(s) == DOMAIN s.structure = DOMAIN s.blocks

\* "snapshot raw parent {} is neither live nor tombstoned"
IntendedParentsAreKnown(s) ==
  \A b \in DOMAIN s.structure :
    LET up == s.structure[b].parent
    IN  up # None => IF up \in DOMAIN s.blocks THEN PageOf[up] = PageOf[b] ELSE up \in Dead(s)

ValidSnapshot(s) ==
  /\ NothingLivesDead(s)
  /\ BlocksHavePages(s)
  /\ ParentsAreThere(s)
  /\ IntentsMatchBlocks(s)
  /\ IntendedParentsAreKnown(s)

-----------------------------------------------------------------------------
(* import_sync_snapshot: whatever the replica held before is gone *)

RowOr(rows, x, none) == IF x \in DOMAIN rows THEN rows[x] ELSE none

\* The rows as they are inserted: no block has a parent yet.
InsertedRows(s) ==
  [pages      |-> [p \in Pages |-> RowOr(s.pages, p, NoPage)],
   blocks     |-> [b \in Blocks |-> [RowOr(s.blocks, b, NoBlock) EXCEPT !.parent = None]],
   structure  |-> [b \in Blocks |-> RowOr(s.structure, b, NoIntent)],
   tombstones |-> [x \in Objects |-> RowOr(s.tombstones, x, 0)]]

\* Mutant: the tree of the server is not built again.
ImportFlat(s) == InsertedRows(s)

ImportSnapshot(s) == ReconcileStructure(InsertedRows(s))

\* A database that a snapshot hands over whole: what is imported is what was
\* exported, and the importer objects to no more than a block that is both
\* alive and dead.
CarriesOver(db) ==
  LET s == ExportSnapshot(db)
  IN  /\ ImportSnapshot(s) = db
      /\ BlocksHavePages(s) /\ ParentsAreThere(s)
      /\ IntentsMatchBlocks(s) /\ IntendedParentsAreKnown(s)
      /\ Live(s) \cap Dead(s) \subseteq Blocks
=============================================================================
