---------------------------- MODULE ApplyEngine ----------------------------
(***************************************************************************)
(* How a replica materializes one operation: apply_one_with_effects of     *)
(* notes-core/src/operation.rs and the helpers it calls.  A database is a  *)
(* record of its tables, an operation a record [at, device, kind], and     *)
(* Apply(db, op) the database after the operation.                         *)
(*                                                                         *)
(* A hybrid logical clock stamp is a natural number (Hlc.tla has the       *)
(* clock); 0 stands for NULL or for a row that is not there.  The text of  *)
(* a block is named by the stamp of the write that put it there; its style *)
(* and a page's layout are registers of the same shape and are left out.   *)
(* A block stays on the page it was created on (PageOf): every command     *)
(* that emits a BlockMove emits it for the block's own page.               *)
(***************************************************************************)
EXTENDS Naturals, FiniteSets

CONSTANTS Pages, Blocks,  \* the uuids of pages and of blocks
          Journals,       \* the pages that are journals of a date
          PageOf,         \* the page of a block
          Titles,         \* normalized titles
          None            \* SQL's NULL, for a title or a parent

ASSUME EngineAssumption ==
  /\ Pages \cap Blocks = {}
  /\ Journals \subseteq Pages
  /\ PageOf \in [Blocks -> Pages]
  /\ None \notin Blocks \cup Titles
  /\ IsFiniteSet(Blocks)

Objects == Pages \cup Blocks

NoPage  == [existence |-> 0, title |-> None, titleAt |-> 0]
NoBlock == [existence |-> 0, parent |-> None, markdownAt |-> 0]
NoIntent == [at |-> 0, parent |-> None]

Databases == [pages      : [Pages -> [existence : Nat, title : Titles \cup {None}, titleAt : Nat]],
              blocks     : [Blocks -> [existence : Nat, parent : Blocks \cup {None}, markdownAt : Nat]],
              structure  : [Blocks -> [at : Nat, parent : Blocks \cup {None}]],
              tombstones : [Objects -> Nat]]

EmptyDatabase == [pages      |-> [p \in Pages |-> NoPage],
                  blocks     |-> [b \in Blocks |-> NoBlock],
                  structure  |-> [b \in Blocks |-> NoIntent],
                  tombstones |-> [x \in Objects |-> 0]]

PageExists(db, p)  == db.pages[p].existence > 0
BlockExists(db, b) == db.blocks[b].existence > 0
BlocksOf(db, p)    == {b \in Blocks : PageOf[b] = p /\ BlockExists(db, b)}

-----------------------------------------------------------------------------
(* Tombstones *)

Later(s, t) == IF s < t THEN t ELSE s

\* INSERT ... ON CONFLICT DO UPDATE ... WHERE deleted_hlc < excluded.deleted_hlc.
WriteTombstones(db, X, at) ==
  [db EXCEPT !.tombstones = [x \in Objects |-> IF x \in X THEN Later(@[x], at) ELSE @[x]]]

TombstoneDominates(db, x, at) == db.tombstones[x] >= at
IsTombstoned(db, x)           == db.tombstones[x] > 0

DropOlderTombstone(db, x, at) ==
  [db EXCEPT !.tombstones[x] = IF @ < at THEN 0 ELSE @]

DropIntents(db, B) ==
  [db EXCEPT !.structure = [b \in Blocks |-> IF b \in B THEN NoIntent ELSE @[b]]]

\* parent_uuid REFERENCES blocks(uuid) ON DELETE SET NULL.
DropBlocks(db, B) ==
  [db EXCEPT !.blocks =
     [b \in Blocks |-> IF b \in B THEN NoBlock
                       ELSE [db.blocks[b] EXCEPT !.parent = IF @ \in B THEN None ELSE @]]]

-----------------------------------------------------------------------------
(* Registers: the last writer wins *)

ApplyAnyMarkdown(db, b, at) ==
  IF BlockExists(db, b) THEN [db EXCEPT !.blocks[b].markdownAt = at] ELSE db

ApplyMarkdown(db, b, at) ==
  IF BlockExists(db, b) /\ db.blocks[b].markdownAt < at
  THEN [db EXCEPT !.blocks[b].markdownAt = at]
  ELSE db

WriteAnyIntent(db, b, parent, at) ==
  [db EXCEPT !.structure[b] = [at |-> at, parent |-> parent]]

WriteStructureIntent(db, b, parent, at) ==
  IF db.structure[b].at < at
  THEN [db EXCEPT !.structure[b] = [at |-> at, parent |-> parent]]
  ELSE db

AnyTitleWins(db, p, at) == PageExists(db, p)
TitleWins(db, p, at)    == PageExists(db, p) /\ db.pages[p].titleAt < at

NoHolders(db, p, title) == {}
Holders(db, p, title) ==
  {q \in Pages \ {p} : title # None /\ PageExists(db, q) /\ db.pages[q].title = title}

\* A normalized title belongs to one page at most (idx_pages_normalized_title):
\* of two that claim it the later claim keeps it and the other page has none.
ApplyPageTitle(db, p, title, at) ==
  LET holders == Holders(db, p, title)
      loses   == \E q \in holders : db.pages[q].titleAt >= at
  IN  IF ~TitleWins(db, p, at) THEN db
      ELSE [db EXCEPT !.pages =
              [q \in Pages |->
                 CASE q = p -> [db.pages[q] EXCEPT !.title = IF loses THEN None ELSE title, !.titleAt = at]
                   [] q \in holders /\ ~loses -> [db.pages[q] EXCEPT !.title = None]
                   [] OTHER -> db.pages[q]]]

-----------------------------------------------------------------------------
(* The handlers *)

\* A journal that exists takes the earliest stamp any device ensured it with.
EnsureJournalAgain(db, p, at) ==
  LET old == db.pages[p].existence
  IN  IF at < old
      THEN [db EXCEPT !.pages[p].existence = at,
                      !.pages[p].titleAt = IF @ = old THEN at ELSE @]
      ELSE db

\* A recreated page starts a new generation: the blocks of the older one die,
\* and their tombstones move up to the recreation.
StartGeneration(db, p, at) ==
  LET stale == IF PageExists(db, p) /\ db.pages[p].existence < at
               THEN {b \in BlocksOf(db, p) : db.blocks[b].existence < at} ELSE {}
      dead  == {b \in Blocks : PageOf[b] = p /\ IsTombstoned(db, b)}
  IN  DropIntents(DropBlocks(WriteTombstones(db, stale \cup dead, at), stale), stale)

UpsertPage(db, p, at) ==
  [db EXCEPT !.pages[p] = IF @.existence < at THEN [@ EXCEPT !.existence = at] ELSE @]

PageCreate(db, p, title, at) ==
  IF TombstoneDominates(db, p, at) THEN db
  ELSE IF p \in Journals /\ PageExists(db, p) THEN EnsureJournalAgain(db, p, at)
  ELSE ApplyPageTitle(
         DropOlderTombstone(UpsertPage(StartGeneration(db, p, at), p, at), p, at), p, title, at)

PageSetTitle(db, p, title, at) ==
  IF IsTombstoned(db, p) THEN db ELSE ApplyPageTitle(db, p, title, at)

PageDeleteUnmarked(db, p, at) ==
  LET blocks == BlocksOf(db, p)
  IN  IF db.pages[p].existence > at THEN db
      ELSE [DropBlocks(DropIntents(db, blocks), blocks) EXCEPT !.pages[p] = NoPage]

PageDelete(db, p, at) ==
  IF db.pages[p].existence > at THEN db
  ELSE LET blocks == BlocksOf(db, p)
           marked == DropIntents(WriteTombstones(db, {p} \cup blocks, at), blocks)
       IN  IF marked.tombstones[p] = at
           THEN [DropBlocks(marked, blocks) EXCEPT !.pages[p] = NoPage]
           ELSE marked

UpsertBlock(db, b, at) ==
  [db EXCEPT !.blocks[b].existence = IF @ < at THEN at ELSE @]

AnyGeneration(db, b, at)   == FALSE
OlderGeneration(db, b, at) == db.pages[PageOf[b]].existence > at

\* A block of a deleted page, or of an older generation of it, is dead at once.
BlockCreate(db, b, parent, at) ==
  LET p == PageOf[b]
  IN  IF TombstoneDominates(db, b, at) THEN db
      ELSE IF IsTombstoned(db, p) THEN WriteTombstones(db, {b}, db.tombstones[p])
      ELSE IF OlderGeneration(db, b, at) THEN WriteTombstones(db, {b}, db.pages[p].existence)
      ELSE ApplyMarkdown(
             WriteStructureIntent(
               DropOlderTombstone(UpsertBlock(db, b, at), b, at), b, parent, at), b, at)

BlockSetMarkdown(db, b, at) ==
  IF IsTombstoned(db, b) THEN db ELSE ApplyMarkdown(db, b, at)

BlockMove(db, b, parent, at) ==
  IF IsTombstoned(db, b) THEN db ELSE WriteStructureIntent(db, b, parent, at)

BlockDelete(db, b, at) ==
  IF db.blocks[b].existence > at THEN db
  ELSE LET marked == WriteTombstones(db, {b}, at)
       IN  IF marked.tombstones[b] = at THEN DropBlocks(DropIntents(marked, {b}), {b}) ELSE marked

PageCreates(p, title)    == [name |-> "PageCreate", page |-> p, title |-> title]
PageSetsTitle(p, title)  == [name |-> "PageSetTitle", page |-> p, title |-> title]
PageDeletes(p)           == [name |-> "PageDelete", page |-> p]
BlockCreates(b, parent)  == [name |-> "BlockCreate", block |-> b, parent |-> parent]
BlockSetsMarkdown(b)     == [name |-> "BlockSetMarkdown", block |-> b]
BlockMoves(b, parent)    == [name |-> "BlockMove", block |-> b, parent |-> parent]
BlockDeletes(b)          == [name |-> "BlockDelete", block |-> b]

\* Where a block may be put: below another block of its page, or below none.
PlacesOf(b) == {None} \cup {u \in Blocks \ {b} : PageOf[u] = PageOf[b]}

\* OpKind: what an operation may ask for.
Kinds == {PageCreates(p, t) : p \in Pages, t \in Titles \cup {None}}
         \cup {PageSetsTitle(p, t) : p \in Pages, t \in Titles \cup {None}}
         \cup {PageDeletes(p) : p \in Pages}
         \cup (UNION {{BlockCreates(b, u) : u \in PlacesOf(b)} : b \in Blocks})
         \cup {BlockSetsMarkdown(b) : b \in Blocks}
         \cup (UNION {{BlockMoves(b, u) : u \in PlacesOf(b)} : b \in Blocks})
         \cup {BlockDeletes(b) : b \in Blocks}

\* The object an operation writes.
ObjectOf(kind) == IF "page" \in DOMAIN kind THEN kind.page ELSE kind.block

\* The object an operation brings into being, and those it speaks of, which its
\* author has on its replica when it writes the operation.
Makes(kind) == IF kind.name \in {"PageCreate", "BlockCreate"} THEN {ObjectOf(kind)} ELSE {}

Needs(kind) ==
  (IF kind.name \in {"PageCreate", "BlockCreate"} THEN {} ELSE {ObjectOf(kind)})
  \cup (IF kind.name \in {"BlockCreate", "BlockDelete"} THEN {PageOf[kind.block]} ELSE {})
  \cup (IF kind.name \in {"BlockCreate", "BlockMove"} THEN {kind.parent} \ {None} ELSE {})

Apply(db, op) ==
  LET k == op.kind
  IN  CASE k.name = "PageCreate"       -> PageCreate(db, k.page, k.title, op.at)
        [] k.name = "PageSetTitle"     -> PageSetTitle(db, k.page, k.title, op.at)
        [] k.name = "PageDelete"       -> PageDelete(db, k.page, op.at)
        [] k.name = "BlockCreate"      -> BlockCreate(db, k.block, k.parent, op.at)
        [] k.name = "BlockSetMarkdown" -> BlockSetMarkdown(db, k.block, op.at)
        [] k.name = "BlockMove"        -> BlockMove(db, k.block, k.parent, op.at)
        [] k.name = "BlockDelete"      -> BlockDelete(db, k.block, op.at)

\* The one operation of these that apply refuses with an error: a block on a
\* page that is neither there nor deleted.
Refuses(db, op) ==
  /\ op.kind.name = "BlockCreate"
  /\ ~TombstoneDominates(db, op.kind.block, op.at)
  /\ ~IsTombstoned(db, PageOf[op.kind.block])
  /\ ~PageExists(db, PageOf[op.kind.block])

-----------------------------------------------------------------------------
(* The tree of blocks (reconcile_structure) *)

Structured(db, b) == BlockExists(db, b) /\ db.structure[b].at > 0 /\ PageExists(db, PageOf[b])

\* An intent binds to a parent that exists on the same page and was not
\* created after the intent.
BoundParent(db, b) ==
  LET up == db.structure[b].parent
  IN  IF /\ up # None
         /\ Structured(db, up) /\ PageOf[up] = PageOf[b]
         /\ db.structure[b].at >= db.blocks[up].existence
      THEN up ELSE None

\* The blocks above b, given every block's parent; b itself when on a cycle.
Above(parent, b) ==
  LET up[n \in 1..Cardinality(Blocks)] ==
        LET below == IF n = 1 THEN b ELSE up[n-1]
        IN  IF below = None THEN None ELSE parent[below]
  IN  {up[n] : n \in 1..Cardinality(Blocks)} \ {None}

KeepCycles(db, bound) == bound

\* break_structure_cycles: of every cycle the latest intent is detached.
BreakCycles(db, bound) ==
  LET latest(b) == LET cycle == Above(bound, b)
                   IN  b \in cycle /\ \A c \in cycle : db.structure[c].at <= db.structure[b].at
  IN  [b \in Blocks |-> IF bound[b] # None /\ latest(b) THEN None ELSE bound[b]]

ReconcileStructure(db) ==
  LET bound == [b \in Blocks |-> IF Structured(db, b) THEN BoundParent(db, b) ELSE None]
      parents == BreakCycles(db, bound)
  IN  [db EXCEPT !.blocks = [b \in Blocks |-> [db.blocks[b] EXCEPT !.parent = parents[b]]]]

ParentOf(db)  == [b \in Blocks |-> db.blocks[b].parent]
Children(db, p, parent) == {b \in BlocksOf(db, p) : db.blocks[b].parent = parent}

-----------------------------------------------------------------------------
(* What a database promises between two operations *)

\* A block belongs to the current generation of its page: the page is there and
\* was not created, or created again, after the block (BlockCreate, PageCreate).
InGeneration(db) ==
  \A b \in Blocks : BlockExists(db, b) =>
    /\ PageExists(db, PageOf[b])
    /\ db.pages[PageOf[b]].existence <= db.blocks[b].existence

\* A page is alive or has a tombstone, never both (PageCreate, PageDelete).
PageLiveOrDead(db) == \A p \in Pages : ~(PageExists(db, p) /\ IsTombstoned(db, p))

\* idx_pages_normalized_title: a title belongs to one page, and to one that is
\* there (apply_page_title).
OneTitleOnePage(db) ==
  \A p \in Pages : db.pages[p].title # None =>
    /\ PageExists(db, p)
    /\ \A q \in Pages \ {p} : db.pages[q].title # db.pages[p].title

Consistent(db) == InGeneration(db) /\ PageLiveOrDead(db) /\ OneTitleOnePage(db)
=============================================================================
