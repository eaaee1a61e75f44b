----------------------------- MODULE References -----------------------------
(***************************************************************************)
(* What a replica keeps beside its pages and blocks so that it need not    *)
(* read every text again: the links a block's text makes to titles and the *)
(* page each one leads to, the blocks the text refers to, and the files    *)
(* attached to an object (ApplyEffects, replace_block_refs and             *)
(* reconcile_attachment of notes-core/src/operation.rs).  An operation     *)
(* changes only the rows it knows to be touched.  A batch from the server  *)
(* or an import puts off links and references until its end; a command     *)
(* writes them at once.  A replica that joins reads every text.            *)
(***************************************************************************)
EXTENDS ApplyEngine

CONSTANTS Hashes,    \* the contents of attached files
          Mentions,  \* the titles and blocks that the text with a stamp mentions
          Scenarios, \* what the operations of a run ask for, by their stamps
          LastStamp  \* bound on stamps, and so on operations

NoFile == [at |-> 0, present |-> FALSE]
NoName == [at |-> 0, present |-> FALSE]
NoLinks == [t \in {} |-> None]

SetsAlias(p, title, present) == [name |-> "PageAliasSet", page |-> p, title |-> title, present |-> present]
Attaches(x, h, present)      == [name |-> "Attachment", owner |-> x, hash |-> h, present |-> present]

RowKinds == {SetsAlias(p, t, y) : p \in Pages, t \in Titles, y \in BOOLEAN}
            \cup {Attaches(x, h, y) : x \in Objects, h \in Hashes, y \in BOOLEAN}

ASSUME ReferencesAssumption ==
  /\ LastStamp \in Nat
  /\ Mentions \in [1..LastStamp -> SUBSET (Titles \cup Blocks)]
  /\ \A s \in Scenarios : \E n \in 0..LastStamp : s \in [1..n -> Kinds \cup RowKinds]
  /\ Titles \cap Blocks = {}
  /\ None \notin Pages

EmptyStore ==
  [db         |-> EmptyDatabase,
   identities |-> {},                                          \* page_identities
   aliases    |-> [p \in Pages |-> [t \in Titles |-> NoName]], \* page_alias_lww
   files      |-> [x \in Objects |-> [h \in Hashes |-> NoFile]], \* attachment_lww
   links      |-> [b \in Blocks |-> NoLinks],                  \* page_links: where a title leads
   refs       |-> [b \in Blocks |-> {}],                       \* block_refs
   attached   |-> {}]                                          \* attachments

-----------------------------------------------------------------------------
(* Links and references of a text *)

TitlesIn(db, b) == Mentions[db.blocks[b].markdownAt] \cap Titles
BlocksIn(db, b) == (Mentions[db.blocks[b].markdownAt] \cap Blocks) \ {b}

ExplicitAliases(s, p) == {t \in Titles : s.aliases[p][t].present}

ReferenceAliases(s, p) == ExplicitAliases(s, p) \cup ({s.db.pages[p].title} \ {None})

Candidates(s, title) == {p \in Pages : PageExists(s.db, p) /\ title \in ReferenceAliases(s, p)}

\* A title leads to the one page that has it, by its title or an alias, and
\* nowhere if two have it.
ResolvePageAlias(s, title) ==
  IF Cardinality(Candidates(s, title)) = 1 THEN CHOOSE p \in Candidates(s, title) : TRUE ELSE None

\* reconcile_page_links_for_alias, for each of these titles.
ReconcileLinks(s, titles) ==
  [s EXCEPT !.links = [b \in Blocks |-> [t \in DOMAIN @[b] |->
                         IF t \in titles THEN ResolvePageAlias(s, t) ELSE @[b][t]]]]

\* replace_block_refs, for each of these blocks.
ReplaceRefs(s, B) ==
  [s EXCEPT !.links = [b \in Blocks |-> IF b \in B THEN [t \in TitlesIn(s.db, b) |-> ResolvePageAlias(s, t)]
                                        ELSE @[b]],
            !.refs  = [b \in Blocks |-> IF b \in B THEN BlocksIn(s.db, b) ELSE @[b]]]

-----------------------------------------------------------------------------
(* Attached files *)

Exists(db, x) == IF x \in Pages THEN PageExists(db, x) ELSE BlockExists(db, x)

\* reconcile_attachment, for each of these owners and contents.
ReconcileFiles(s, keys) ==
  [s EXCEPT !.attached = (@ \ keys) \cup {k \in keys : s.files[k[1]][k[2]].present /\ Exists(s.db, k[1])}]

FilesOf(x) == {x} \X Hashes

-----------------------------------------------------------------------------
(* One operation (apply_one_with_effects) *)

Newer(register, op) ==
  IF register.at < op.at THEN [at |-> op.at, present |-> op.kind.present] ELSE register

Vanished(db, after) == {x \in Objects : Exists(db, x) /\ ~Exists(after, x)}

\* The foreign keys: rows of a page or a block go with it, and a link that led
\* to the page leads nowhere.
Cascade(s, after) ==
  LET gone == Vanished(s.db, after)
  IN  [s EXCEPT !.db = after,
                !.links = [b \in Blocks |-> IF b \in gone THEN NoLinks
                             ELSE [t \in DOMAIN @[b] |-> IF @[b][t] \in gone THEN None ELSE @[b][t]]],
                !.refs = [b \in Blocks |-> IF b \in gone THEN {} ELSE @[b]],
                !.attached = {a \in @ : a[1] \notin gone}]

\* A journal that is there is only ensured again.
Materializes(db, op) ==
  /\ op.kind.name = "PageCreate"
  /\ ~TombstoneDominates(db, op.kind.page, op.at)
  /\ ~(op.kind.page \in Journals /\ PageExists(db, op.kind.page))

\* The owners whose files come back: the intents outlive the object.
Revived(db, op) ==
  IF Materializes(db, op) THEN {op.kind.page}
  ELSE IF op.kind.name = "BlockCreate" THEN {op.kind.block} ELSE {}

RowsAfter(s, op) ==
  CASE op.kind.name = "PageAliasSet" ->
         [s EXCEPT !.aliases[op.kind.page][op.kind.title] = Newer(@, op)]
    [] op.kind.name = "Attachment" ->
         ReconcileFiles([s EXCEPT !.files[op.kind.owner][op.kind.hash] = Newer(@, op)],
                        {<<op.kind.owner, op.kind.hash>>})
    [] OTHER ->
         LET after == Cascade([s EXCEPT !.identities =
                                 IF op.kind.name = "PageCreate" THEN @ \cup {op.kind.page} ELSE @],
                              Apply(s.db, op))
         IN  ReconcileFiles(after, UNION {FilesOf(x) : x \in Revived(s.db, op)})

NewTitle(s, after, p, title) == {title} \ {None}

\* apply_page_title: the title a page had and the one it claims, if it wins.
Claimed(s, after, p, title) ==
  IF after.db.pages[p].titleAt = s.db.pages[p].titleAt THEN {}
  ELSE {s.db.pages[p].title, title} \ {None}

\* The page is deleted by this operation, and not by a later one before it.
Deletes(s, after, op) ==
  s.db.pages[op.kind.page].existence <= op.at /\ after.db.tombstones[op.kind.page] = op.at

\* The titles that may lead elsewhere now.
DirtyTitles(s, after, op) ==
  CASE op.kind.name = "PageCreate" ->
         IF Materializes(s.db, op)
         THEN Claimed(s, after, op.kind.page, op.kind.title) \cup ExplicitAliases(s, op.kind.page)
         ELSE {}
    [] op.kind.name = "PageSetTitle" -> Claimed(s, after, op.kind.page, op.kind.title)
    [] op.kind.name = "PageDelete" ->
         IF Deletes(s, after, op) THEN ReferenceAliases(s, op.kind.page) ELSE {}
    [] op.kind.name = "PageAliasSet" -> IF after # s THEN {op.kind.title} ELSE {}
    [] OTHER -> {}

\* apply_block_markdown: the block whose text this is now.
DirtyTexts(s, after, op) ==
  {b \in Blocks : /\ op.kind.name \in {"BlockCreate", "BlockSetMarkdown"} /\ b = op.kind.block
                  /\ after.db.blocks[b].markdownAt # s.db.blocks[b].markdownAt}

KeepAll(texts, db, after) == texts

\* discard_block_refs: texts of blocks that this operation takes away are not read.
Remaining(texts, db, after) == texts \ Vanished(db, after)

\* A name for a page nobody ever created is an error, as is a block on it, or
\* a title for a journal.
IsRefused(s, op) ==
  \/ op.kind.name = "PageSetTitle" /\ op.kind.page \in s.identities \cap Journals
  \/ op.kind.name = "PageAliasSet" /\ op.kind.page \notin s.identities
  \/ op.kind.name = "BlockCreate" /\ Refuses(s.db, op)

-----------------------------------------------------------------------------
(* Batches: one transaction each *)

VARIABLES store,   \* what the replica keeps
          effects, \* the effects of the batch that is open
          used,    \* the stamps of the operations it has met
          scenario

refVars == <<store, effects, used, scenario>>

NoEffects == [open |-> FALSE, deferred |-> FALSE, titles |-> {}, texts |-> {}, before |-> <<>>]

\* ApplyEffects::immediate and ApplyEffects::deferred.
Begin(deferred) ==
  /\ ~effects.open
  /\ used # DOMAIN scenario
  /\ effects' = [NoEffects EXCEPT !.open = TRUE, !.deferred = deferred, !.before = store]
  /\ UNCHANGED <<store, used, scenario>>

RepairTree(s) == [s EXCEPT !.db = ReconcileStructure(@)]

ApplyOne(op) ==
  LET after  == RowsAfter(store, op)
      titles == DirtyTitles(store, after, op)
      texts  == DirtyTexts(store, after, op)
  IN  /\ effects.open /\ op.at \notin used
      /\ ~IsRefused(store, op)
      /\ used' = used \cup {op.at}
      /\ IF effects.deferred
         THEN /\ store' = after
              /\ effects' = [effects EXCEPT !.titles = @ \cup titles,
                                        !.texts = Remaining(@, store.db, after.db) \cup texts]
         ELSE /\ store' = ReplaceRefs(ReconcileLinks(RepairTree(after), titles), texts)
              /\ UNCHANGED effects
      /\ UNCHANGED scenario

\* An error takes the whole transaction back.
Rollback(op) ==
  /\ effects.open /\ op.at \notin used
  /\ IsRefused(store, op)
  /\ store' = effects.before
  /\ effects' = NoEffects
  /\ used' = used \cup {op.at}
  /\ UNCHANGED scenario

\* ApplyEffects::finish: titles first, then texts against the final titles.
Finish ==
  /\ effects.open
  /\ store' = ReplaceRefs(ReconcileLinks(RepairTree(store), effects.titles), effects.texts)
  /\ effects' = NoEffects
  /\ UNCHANGED <<used, scenario>>

Offered == {[at |-> i, kind |-> scenario[i]] : i \in DOMAIN scenario}

RefInit ==
  /\ scenario \in Scenarios
  /\ store = EmptyStore
  /\ effects = NoEffects
  /\ used = {}

RefNext ==
  \/ \E deferred \in BOOLEAN : Begin(deferred)
  \/ \E op \in Offered : ApplyOne(op) \/ Rollback(op)
  \/ Finish

RefSpec == RefInit /\ [][RefNext]_refVars

-----------------------------------------------------------------------------
(* Properties *)

\* A replica that joins (import_sync_snapshot): the rows of the snapshot, and then
\* every text and every file.
Newcomer(s) ==
  LET rows == [EmptyStore EXCEPT !.db = s.db, !.identities = s.identities,
                                 !.aliases = s.aliases, !.files = s.files]
  IN  ReconcileFiles(ReplaceRefs(rows, {b \in Blocks : BlockExists(s.db, b)}), Objects \X Hashes)

\* A replica that applied the operations, in whatever order and batches, shows
\* the links, references and files of one that joins with its snapshot.
ShowsWhatJoinersSee == ~effects.open => store = Newcomer(store)

\* A batch reads no text at its end of a block that is gone: its row could not
\* be written (page_links REFERENCES blocks) and the batch would be refused.
PendingTextsAreThere == \A b \in effects.texts : BlockExists(store.db, b)
=============================================================================
