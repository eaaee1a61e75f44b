------------------------------ MODULE Outline ------------------------------
(***************************************************************************)
(* The outline of a page and the commands that rearrange it: the order     *)
(* keys of notes-core/src/model.rs, the commands of db/blocks.rs and the   *)
(* document editor of db/document.rs, over the database of ApplyEngine     *)
(* with one more table, the order key of every block's structure intent.   *)
(*                                                                         *)
(* A command reads the database, decides which operations to write, and    *)
(* writes them in a later transaction; the document editor reads a page    *)
(* and its revision, and saves a draft if the revision is still the same.  *)
(* Sync may apply an operation of another device in between.  Uuids are    *)
(* numbers, so that siblings with equal keys are ordered by uuid, and a    *)
(* new uuid is greater than the uuids that are there (UUIDv7).             *)
(***************************************************************************)
EXTENDS History

CONSTANTS Page,          \* the page; PageOf maps every block to it
          Step, MaxKey,  \* the distance of appended keys (2^32), the greatest key (2^64 - 1)
          Places,        \* intents at the start: [at, parent, key] of the blocks there are
          LocalLimit,    \* bound on the commands of this device
          RemoteLimit    \* bound on the operations of other devices

Keys == 0..MaxKey

ASSUME OutlineAssumption ==
  /\ Pages = {Page} /\ Blocks \subseteq Nat
  /\ Step \in Nat \ {0} /\ MaxKey \in Nat
  /\ \A places \in Places :
       /\ DOMAIN places \subseteq Blocks
       /\ \A b \in DOMAIN places : /\ places[b].at > Cardinality(Blocks) + 1
                                   /\ places[b].parent \in DOMAIN places \cup {None}
                                   /\ places[b].key \in Keys
  /\ LocalLimit \in Nat /\ RemoteLimit \in Nat

VARIABLES db,        \* the database: ApplyEngine's tables and keys
          clock,     \* last_hlc
          task,      \* the command between its reading and its transaction
          undoable,  \* the newest entry of history_undo
          asked,     \* what the last transaction was asked for
          locals, remotes

vars == <<db, clock, task, undoable, asked, locals, remotes>>

-----------------------------------------------------------------------------
(* Order keys *)

AtMost(key)  == IF key > MaxKey THEN MaxKey ELSE key
Ordinal(n)   == AtMost(n * Step)
After(key)   == AtMost(key + Step)

-----------------------------------------------------------------------------
(* Reading a page *)

PresentBlocks(data) == BlocksOf(data, Page)

\* ORDER BY order_key, uuid
ComesBefore(data, b, c) == \/ data.keys[b] < data.keys[c]
                           \/ data.keys[b] = data.keys[c] /\ b < c

UuidOrder == SetToSortSeq(Blocks, <)

\* list_block_children
Siblings(data, up) ==
  SortSeq(SelectSeq(UuidOrder, LAMBDA b : BlockExists(data, b) /\ data.blocks[b].parent = up), LAMBDA b, c : ComesBefore(data, b, c))

Layout(data) == [up \in Blocks \cup {None} |-> Siblings(data, up)]

\* deterministic_preorder
Preorder(data) ==
  LET under[n \in 0..Cardinality(Blocks), up \in Blocks \cup {None}] ==
        LET children == Siblings(data, up)
        IN  IF n = 0 THEN <<>>
            ELSE FlattenSeq([i \in DOMAIN children |-> <<children[i]>> \o under[n-1, children[i]]])
  IN  under[Cardinality(Blocks), None]

\* document_revision digests every row of the page with its stamps.
Revision(data) ==
  [b \in PresentBlocks(data) |-> <<data.blocks[b], data.structure[b].at, data.keys[b]>>]

-----------------------------------------------------------------------------
(* Writing operations *)

Creates(b, up, key) == BlockCreates(b, up) @@ ("key" :> key)
Moves(b, up, key)   == BlockMoves(b, up) @@ ("key" :> key)

\* A structure intent carries its order key (write_structure_intent).
Write(data, op) ==
  LET after == Apply(data, op)
  IN  IF "key" \in DOMAIN op.kind /\ after.structure[op.kind.block].at = op.at
      THEN [after EXCEPT !.keys[op.kind.block] = op.kind.key]
      ELSE after

WriteAll(data, at, kinds) ==
  LET after[i \in 0..Len(kinds)] ==
        IF i = 0 THEN data ELSE Write(after[i-1], [at |-> at + i, kind |-> kinds[i]])
  IN  ReconcileStructure(after[Len(kinds)])

\* One BlockMove for every sibling, with ordinals for keys.
Renumbered(up, order) == [i \in 1..Len(order) |-> Moves(order[i], up, Ordinal(i))]

\* inverse_kinds: an inverse brings back the row's own key.
KeyedInverse(data, kinds) ==
  LET plain == InverseKinds(data, kinds)
  IN  [i \in 1..Len(plain) |->
         IF plain[i].name \in {"BlockCreate", "BlockMove"}
         THEN plain[i] @@ ("key" :> data.keys[plain[i].block]) ELSE plain[i]]

Nothing == [by |-> "nothing"]

\* What a transaction was asked for: the layout that is to be seen afterwards.
\* A block whose intent is not bound as it stands is detached.
Detached(data) == {b \in PresentBlocks(data) : data.blocks[b].parent # data.structure[b].parent}

Request(by, data, layout) == [by |-> by, before |-> data, layout |-> layout]

\* apply_local_action
Act(kinds, request) ==
  /\ db' = WriteAll(db, clock, kinds)
  /\ clock' = clock + Len(kinds)
  /\ LET inverse == KeyedInverse(db, kinds)
     IN  undoable' = IF inverse = <<>> THEN undoable
                     ELSE [by |-> "history", fresh |-> request.by # "nothing",
                           request |-> Request("undo", db, Layout(db)), payload |-> Payload(db', inverse)]
  /\ asked' = request

-----------------------------------------------------------------------------
(* The commands of the outliner *)

Without(order, b)   == SelectSeq(order, LAMBDA c : c # b)
Inserted(order, i, b) == SubSeq(order, 1, i) \o <<b>> \o SubSeq(order, i + 1, Len(order))

\* The layout with b, wherever it was, at the place after the first i of the
\* other children of up: what the commands promise.
Placed(layout, b, up, i) ==
  [v \in DOMAIN layout |-> IF v = up THEN Inserted(Without(layout[v], b), i, b) ELSE Without(layout[v], b)]

Prepare(kinds, layout) ==
  /\ task.by = "nothing" /\ locals < LocalLimit
  /\ task' = [by |-> "command", fresh |-> TRUE, kinds |-> kinds, request |-> Request("command", db, layout)]
  /\ locals' = locals + 1
  /\ UNCHANGED <<db, clock, undoable, asked, remotes>>

\* Uuids that no device has generated; a new one is greater than those before.
Unborn == {b \in Blocks : ~BlockExists(db, b) /\ ~IsTombstoned(db, b)}
NewBlock == CHOOSE b \in Unborn : \A c \in Unborn : b <= c

\* A block appended takes the next key, if there is one; a block inserted
\* renumbers all its siblings.
CreateBlock(up, i) ==
  LET order == Siblings(db, up)
      kinds == IF i < Len(order)
               THEN <<Creates(NewBlock, up, Ordinal(i + 1))>> \o Renumbered(up, Inserted(order, i, NewBlock))
               ELSE <<Creates(NewBlock, up, IF order = <<>> THEN Ordinal(1) ELSE After(db.keys[Last(order)]))>>
  IN  /\ Unborn # {}
      /\ up # None => BlockExists(db, up)
      /\ i <= Len(order)
      /\ i = Len(order) /\ order # <<>> => After(db.keys[Last(order)]) # db.keys[Last(order)]
      /\ Prepare(kinds, Placed(Layout(db), NewBlock, up, i))

MoveKinds(b, up, i) == Renumbered(up, Inserted(Without(Siblings(db, up), b), i, b))

MoveBlock(b, up, i) ==
  /\ BlockExists(db, b)
  /\ up # None => BlockExists(db, up) /\ up # b /\ b \notin Above(ParentOf(db), up)
  /\ i <= Len(Without(Siblings(db, up), b))
  /\ Prepare(MoveKinds(b, up, i), Placed(Layout(db), b, up, i))

PositionOf(b) == CHOOSE i \in 1..Cardinality(Blocks) : Siblings(db, db.blocks[b].parent)[i] = b

\* The two neighbours change places; at either end nothing happens.
ReorderBlock(b, direction) ==
  LET up     == db.blocks[b].parent
      order  == Siblings(db, up)
      target == IF direction = "Up" THEN PositionOf(b) - 1 ELSE PositionOf(b) + 1
  IN  /\ BlockExists(db, b)
      /\ target \in DOMAIN order
      /\ Prepare(Renumbered(up, [order EXCEPT ![PositionOf(b)] = order[target], ![target] = b]),
                 Placed(Layout(db), b, up, target - 1))

IndentBlock(b) ==
  /\ BlockExists(db, b)
  /\ PositionOf(b) > 1
  /\ LET up == Siblings(db, db.blocks[b].parent)[PositionOf(b) - 1]
     IN  MoveBlock(b, up, Len(Siblings(db, up)))

OutdentBlock(b) ==
  /\ BlockExists(db, b)
  /\ db.blocks[b].parent # None
  /\ LET parent == db.blocks[b].parent
     IN  MoveBlock(b, db.blocks[parent].parent, PositionOf(parent))

DeleteBlock(b) ==
  /\ BlockExists(db, b)
  /\ Siblings(db, b) = <<>>
  /\ Prepare(<<BlockDeletes(b)>>, [up \in Blocks \cup {None} |-> Without(Siblings(db, up), b)])

\* split_block reads and writes in one transaction; a part that was split off
\* comes after its source.  (A caller whose revision of the text is not the
\* current one is refused.)
SplitBlock(b) ==
  LET up    == db.blocks[b].parent
      kinds == <<BlockSetsMarkdown(b), Creates(NewBlock, up, Ordinal(1))>>
               \o Renumbered(up, Inserted(Siblings(db, up), PositionOf(b), NewBlock))
  IN  /\ task.by = "nothing" /\ locals < LocalLimit
      /\ Unborn # {} /\ BlockExists(db, b)
      /\ Act(kinds, Request("command", db, Placed(Layout(db), NewBlock, up, PositionOf(b))))
      /\ locals' = locals + 1
      /\ UNCHANGED <<task, remotes>>

Commit ==
  /\ task.by = "command"
  /\ Act(task.kinds, IF task.fresh THEN task.request ELSE Nothing)
  /\ task' = Nothing
  /\ UNCHANGED <<locals, remotes>>

-----------------------------------------------------------------------------
(* The document editor.  A draft is a sequence of units [block, up, edited]: *)
(* up is the place of the unit's parent in the draft, 0 at the top.          *)

ParentIn(draft, i) == IF draft[i].up = 0 THEN None ELSE draft[draft[i].up].block
GroupOf(draft, up) ==
  LET members == SelectSeq([i \in 1..Len(draft) |-> i], LAMBDA i : ParentIn(draft, i) = up)
  IN  [i \in 1..Len(members) |-> draft[members[i]].block]
DraftLayout(draft) == [up \in Blocks \cup {None} |-> GroupOf(draft, up)]

\* The blocks of a group that were under the same parent before.
Stayers(group, up) == {b \in Range(group) : BlockExists(db, b) /\ db.blocks[b].parent = up}

NoKeepers(group, up) == {}

\* The siblings that keep their keys: those that keep their parent, if they
\* keep their order too.
KeyKeepers(group, up) ==
  LET stay == Stayers(group, up)
      In(b) == b \in stay
  IN  IF SelectSeq(group, In) = SelectSeq(Siblings(db, up), In) THEN stay ELSE {}

\* fill_order_key_gaps and order_keys_between: the newcomers between two keepers
\* share the keys between them evenly; bounds are shifted by one.
Gap(group, keepers, i) ==
  LET first == CHOOSE k \in 1..i : /\ \A j \in k..i : group[j] \notin keepers
                                   /\ k = 1 \/ group[k-1] \in keepers
      last  == CHOOSE k \in i..Len(group) : /\ \A j \in i..k : group[j] \notin keepers
                                            /\ k = Len(group) \/ group[k+1] \in keepers
  IN  [first |-> first, count |-> last - first + 1,
       lower |-> IF first = 1 THEN 0 ELSE db.keys[group[first-1]] + 1,
       upper |-> IF last = Len(group) THEN MaxKey + 2 ELSE db.keys[group[last+1]] + 1]

HasAnyRoom(gap) == gap.upper > gap.lower
HasRoom(gap)    == gap.upper > gap.lower /\ gap.upper - gap.lower - 1 >= gap.count

GapKey(gap, i) == gap.lower + ((gap.upper - gap.lower) * (i - gap.first + 1)) \div (gap.count + 1) - 1

\* assign_desired_order_keys: a group without enough room is renumbered.
GroupKeys(group, up) ==
  LET keepers == KeyKeepers(group, up)
      new     == {i \in 1..Len(group) : group[i] \notin keepers}
      gap     == [i \in new |-> Gap(group, keepers, i)]
  IN  [i \in 1..Len(group) |->
         IF \E j \in new : ~HasRoom(gap[j]) THEN Ordinal(i)
         ELSE IF i \in new THEN GapKey(gap[i], i) ELSE db.keys[group[i]]]

Doomed(draft) == SelectSeq(Reverse(Preorder(db)), LAMBDA b : \A i \in DOMAIN draft : draft[i].block # b)

\* plan_document_replace: creates, texts, moves of what is kept, deletes.
DocumentPlan(draft) ==
  LET groups == DraftLayout(draft)
      keys   == [up \in DOMAIN groups |-> GroupKeys(groups[up], up)]
      key(i) == LET up == ParentIn(draft, i)
                IN  keys[up][CHOOSE k \in DOMAIN groups[up] : groups[up][k] = draft[i].block]
      kept(i)     == BlockExists(db, draft[i].block)
      moved(i)    == kept(i) /\ \/ db.blocks[draft[i].block].parent # ParentIn(draft, i)
                                \/ db.keys[draft[i].block] # key(i)
      units(P(_)) == SelectSeq([i \in 1..Len(draft) |-> i], P)
      created == units(LAMBDA i : ~kept(i))
      written == units(LAMBDA i : kept(i) /\ draft[i].edited)
      placed  == units(moved)
      doomed  == Doomed(draft)
  IN  [i \in 1..Len(created) |-> Creates(draft[created[i]].block, ParentIn(draft, created[i]), key(created[i]))]
      \o [i \in 1..Len(written) |-> BlockSetsMarkdown(draft[written[i]].block)]
      \o [i \in 1..Len(placed) |-> Moves(draft[placed[i]].block, ParentIn(draft, placed[i]), key(placed[i]))]
      \o [i \in 1..Len(doomed) |-> BlockDeletes(doomed[i])]

\* get_page_document
OpenDocument ==
  /\ task.by = "nothing" /\ locals < LocalLimit
  /\ task' = [by |-> "document", revision |-> Revision(db)]
  /\ UNCHANGED <<db, clock, undoable, asked, locals, remotes>>

\* Drafts of what is there and at most one new block, with all texts
\* edited or, in a draft that does not hold every block, none.
Drafts ==
  UNION {{[i \in 1..Len(order) |-> [block |-> order[i], up |-> up[i], edited |-> edited]] :
            up \in {f \in [1..Len(order) -> 0..Len(order)] : \A i \in DOMAIN f : f[i] < i},
            edited \in IF Len(order) < Cardinality(Blocks) THEN BOOLEAN ELSE {TRUE}} :
         order \in UNION {SetToSeqs(S) : S \in SUBSET (PresentBlocks(db) \cup
                                                       IF Unborn = {} THEN {} ELSE {NewBlock})}}

SaveDocument(draft) ==
  /\ task.by = "document"
  /\ task.revision = Revision(db)
  /\ task' = Nothing
  /\ locals' = locals + 1
  /\ LET plan    == DocumentPlan(draft)
         request == Request("document", db, DraftLayout(draft))
     IN  IF plan = <<>>
         THEN asked' = request /\ UNCHANGED <<db, clock, undoable>>
         ELSE Act(plan, request)
  /\ UNCHANGED remotes

\* The page changed since editing began: the save is refused.
RefuseDocument ==
  /\ task.by = "document"
  /\ task.revision # Revision(db)
  /\ task' = Nothing
  /\ locals' = locals + 1
  /\ UNCHANGED <<db, clock, undoable, asked, remotes>>

-----------------------------------------------------------------------------
(* Undo and sync *)

\* Something was written since this was read.
Unfresh(record) == IF "fresh" \in DOMAIN record THEN [record EXCEPT !.fresh = FALSE] ELSE record

\* move_history: an entry that does not apply any more is dropped.
Undo ==
  /\ undoable.by = "history"
  /\ undoable' = Nothing
  /\ IF StillApplies(db, undoable.payload)
     THEN /\ db' = WriteAll(db, clock, undoable.payload.kinds)
          /\ clock' = clock + Len(undoable.payload.kinds)
          /\ asked' = IF undoable.fresh THEN undoable.request ELSE Nothing
     ELSE UNCHANGED <<db, clock, asked>>
  /\ task' = Unfresh(task)
  /\ UNCHANGED <<locals, remotes>>

UsedStamps ==
  {db.structure[b].at : b \in Blocks} \cup {db.blocks[b].existence : b \in Blocks}
  \cup {db.blocks[b].markdownAt : b \in Blocks} \cup {db.tombstones[x] : x \in Objects} \cup {db.pages[Page].existence}

RemoteKinds ==
  {Moves(b, up, key) : b \in PresentBlocks(db), up \in PresentBlocks(db) \cup {None}, key \in {Step}}
  \cup {BlockDeletes(b) : b \in PresentBlocks(db)}
  \cup {BlockSetsMarkdown(b) : b \in PresentBlocks(db)}

\* A page of sync brings an operation of another device, however old, while a
\* command is under way; what came before is among Places.
Sync(kind, at) ==
  /\ task.by # "nothing" /\ remotes < RemoteLimit
  /\ kind.name = "BlockMove" => kind.block # kind.parent
  /\ at \notin UsedStamps
  /\ db' = ReconcileStructure(Write(db, [at |-> at, kind |-> kind]))
  /\ clock' = Later(clock, at)
  /\ task' = Unfresh(task)
  /\ undoable' = Unfresh(undoable)
  /\ asked' = Nothing
  /\ remotes' = remotes + 1
  /\ UNCHANGED locals

-----------------------------------------------------------------------------

Placement(places) ==
  LET there == DOMAIN places
  IN  ReconcileStructure(
        [EmptyDatabase EXCEPT
           !.pages[Page].existence = 1,
           !.blocks = [b \in Blocks |-> IF b \in there
                                        THEN [existence |-> b + 1, parent |-> None, markdownAt |-> b + 1]
                                        ELSE NoBlock],
           !.structure = [b \in Blocks |-> IF b \in there
                                           THEN [at |-> places[b].at, parent |-> places[b].parent]
                                           ELSE NoIntent]]
        @@ ("keys" :> [b \in Blocks |-> IF b \in there THEN places[b].key ELSE 0]))

Init ==
  /\ \E places \in Places :
       /\ db = Placement(places)
       /\ clock = Max({places[b].at : b \in DOMAIN places} \cup {1})
  /\ task = Nothing /\ undoable = Nothing /\ asked = Nothing
  /\ locals = 0 /\ remotes = 0

Next ==
  \/ \E up \in Blocks \cup {None}, i \in 0..Cardinality(Blocks) :
       \/ CreateBlock(up, i)
       \/ \E b \in Blocks : MoveBlock(b, up, i)
  \/ \E b \in Blocks :
       \/ ReorderBlock(b, "Up") \/ ReorderBlock(b, "Down")
       \/ IndentBlock(b) \/ OutdentBlock(b)
       \/ DeleteBlock(b)
       \/ SplitBlock(b)
  \/ Commit
  \/ OpenDocument
  \/ task.by = "document" /\ \E draft \in Drafts : SaveDocument(draft)
  \/ RefuseDocument
  \/ Undo
  \/ \E kind \in RemoteKinds, at \in 1..(clock + 1) : Sync(kind, at)

Spec == Init /\ [][Next]_vars

-----------------------------------------------------------------------------
(* Properties *)

\* A command, a saved draft and an undo have exactly the effect they promise on
\* the order and the nesting of the whole page, whatever keys the siblings had
\* (equal ones, neighbours, the last one), if nothing was written between the
\* reading and the transaction and no block is detached by a broken cycle.
PlacedAsAsked ==
  asked.by # "nothing" /\ Detached(asked.before) = {} => Layout(db) = asked.layout

\* Keys for the newcomers of a group that leave the others' alone.
HasKeys(data, group, stay) ==
  LET old == {i \in 1..Len(group) : group[i] \in stay}
  IN  \E new \in [(1..Len(group)) \ old -> Keys] :
        LET key(i) == IF i \in old THEN data.keys[group[i]] ELSE new[i]
        IN  \A i \in 1..Len(group) - 1 : {i, i + 1} \subseteq old \/ key(i) < key(i + 1)

\* "Preserve every existing key when the retained siblings keep their parent
\* and relative order": a saved draft writes over the place of such a sibling,
\* and so over what another device does with it, only when keys have run out.
StillInPlace ==
  asked.by = "document" =>
    \A up \in DOMAIN asked.layout :
      LET group == asked.layout[up]
          stay  == {b \in Range(group) : BlockExists(asked.before, b) /\ asked.before.blocks[b].parent = up}
          In(b) == b \in stay
      IN  (\E b \in stay : db.structure[b] # asked.before.structure[b])
          => \/ SelectSeq(group, In) # SelectSeq(Siblings(asked.before, up), In)
             \/ ~HasKeys(asked.before, group, stay)

\* "Atomically replace one page's complete current block document when the
\* caller still owns the exact snapshot revision it edited": what is read after
\* a save is the draft.
DraftIsShown == asked.by = "document" => Layout(db) = asked.layout
=============================================================================
