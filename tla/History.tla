------------------------------ MODULE History ------------------------------
(***************************************************************************)
(* The linear undo and redo history of a replica: notes-core/src/db/       *)
(* history.rs.  An entry holds the operations of a command and those that  *)
(* undo it; each of the two payloads has guards, the stamps the fields it  *)
(* is about had when the entry was written, and scopes, the blocks that    *)
(* were below what its deletes delete.  A payload whose guards do not      *)
(* match any more is dropped, never applied.                               *)
(*                                                                         *)
(* A history is a record [undo, redo] of sequences of entries, the oldest  *)
(* first; a field is a pair of a register's name and an object.            *)
(***************************************************************************)
EXTENDS ApplyEngine, Sequences, SequencesExt

EmptyHistory == [undo |-> <<>>, redo |-> <<>>]

-----------------------------------------------------------------------------
(* What undoes an operation, given the database before it *)

InverseOf(db, k) ==
  CASE k.name = "PageCreate"       -> <<PageDeletes(k.page)>>
    [] k.name = "PageSetTitle"     -> IF PageExists(db, k.page)
                                      THEN <<PageSetsTitle(k.page, db.pages[k.page].title)>> ELSE <<>>
    [] k.name = "PageDelete"       -> IF PageExists(db, k.page)
                                      THEN <<PageCreates(k.page, db.pages[k.page].title)>> ELSE <<>>
    [] k.name = "BlockCreate"      -> <<BlockDeletes(k.block)>>
    [] k.name = "BlockSetMarkdown" -> IF BlockExists(db, k.block)
                                      THEN <<BlockSetsMarkdown(k.block)>> ELSE <<>>
    [] k.name = "BlockMove"        -> IF BlockExists(db, k.block)
                                      THEN <<BlockMoves(k.block, db.blocks[k.block].parent)>> ELSE <<>>
    [] k.name = "BlockDelete"      -> IF BlockExists(db, k.block)
                                      THEN <<BlockCreates(k.block, db.blocks[k.block].parent)>> ELSE <<>>

\* The inverses of a command, the last operation's first.
InverseKinds(db, kinds) ==
  LET inverse[i \in 0..Len(kinds)] ==
        IF i = 0 THEN <<>> ELSE InverseOf(db, kinds[i]) \o inverse[i-1]
  IN  inverse[Len(kinds)]

-----------------------------------------------------------------------------
(* Guards and scopes *)

\* current_field_hlc: NULL, and a row that is not there, are 0.
FieldStamp(db, field) ==
  LET x == field[2]
  IN  CASE field[1] = "existence" ->
             Later(IF x \in Pages THEN db.pages[x].existence ELSE db.blocks[x].existence,
                   db.tombstones[x])
        [] field[1] = "title"     -> db.pages[x].titleAt
        [] field[1] = "markdown"  -> db.blocks[x].markdownAt
        [] field[1] = "structure" -> db.structure[x].at

GuardFields(k) ==
  LET own == CASE k.name \in {"PageCreate", "PageDelete", "PageSetTitle"} -> {"existence", "title"}
               [] k.name \in {"BlockCreate", "BlockDelete"} -> {"existence", "markdown", "structure"}
               [] k.name = "BlockSetMarkdown" -> {"existence", "markdown"}
               [] k.name = "BlockMove"        -> {"existence", "structure"}
      around == (IF k.name \in {"BlockCreate", "BlockDelete", "BlockMove"} THEN {PageOf[k.block]} ELSE {})
                \cup (IF k.name \in {"BlockCreate", "BlockMove"} THEN {k.parent} \ {None} ELSE {})
  IN  {<<register, ObjectOf(k)>> : register \in own} \cup {<<"existence", x>> : x \in around}

Guards(db, kinds) ==
  [f \in UNION {GuardFields(k) : k \in ToSet(kinds)} |-> FieldStamp(db, f)]

GuardsIgnored(db, guards) == TRUE
GuardsMatch(db, guards)   == \A f \in DOMAIN guards : FieldStamp(db, f) = guards[f]

\* The blocks a delete of x would take with it, or leave without a parent.
Below(db, x) ==
  IF x \in Pages THEN BlocksOf(db, x)
  ELSE {b \in Blocks : BlockExists(db, b) /\ x \in Above(ParentOf(db), b)}

Scopes(db, kinds) ==
  [x \in {ObjectOf(k) : k \in {l \in ToSet(kinds) : l.name \in {"PageDelete", "BlockDelete"}}} |-> Below(db, x)]

ScopesMatch(db, scopes) == \A x \in DOMAIN scopes : Below(db, x) \subseteq scopes[x]

Payload(db, kinds) == [kinds |-> kinds, guards |-> Guards(db, kinds), scopes |-> Scopes(db, kinds)]

StillApplies(db, payload) == GuardsMatch(db, payload.guards) /\ ScopesMatch(db, payload.scopes)

-----------------------------------------------------------------------------
(* Recording and moving *)

\* A recorded command; limit is the number of entries history_undo keeps.
RecordAction(history, kinds, inverse, db, limit) ==
  LET entry == [forward |-> [kinds |-> kinds, guards |-> <<>>, scopes |-> <<>>],
                inverse |-> Payload(db, inverse)]
      all   == Append(history.undo, entry)
      first == IF Len(all) > limit THEN Len(all) - limit + 1 ELSE 1
  IN  IF inverse = <<>> THEN history
      ELSE [undo |-> SubSeq(all, first, Len(all)), redo |-> <<>>]

\* The entries that stay adopt the stamps a neighbour has just written.
Refreshed(payload, fresh) ==
  [kinds  |-> payload.kinds,
   guards |-> [f \in DOMAIN payload.guards |->
                 IF f \in DOMAIN fresh THEN fresh[f] ELSE payload.guards[f]],
   scopes |-> payload.scopes]

RefreshSiblings(entries, fresh) ==
  [i \in 1..Len(entries) |-> [forward |-> Refreshed(entries[i].forward, fresh),
                              inverse |-> Refreshed(entries[i].inverse, fresh)]]

\* What undoing applies is an entry's inverse, what redoing applies its forward.
Selected(source) == IF source = "undo" THEN "inverse" ELSE "forward"
Other(source)    == IF source = "undo" THEN "redo" ELSE "undo"

Newest(history, source)  == Last(history[source])
Older(history, source)   == SubSeq(history[source], 1, Len(history[source]) - 1)
Dropped(history, source) == [history EXCEPT ![source] = Older(history, source)]

\* The newest entry of source was applied, and db is the database since: the
\* entry goes to the other table, its other payload guarded by what was written.
Moved(history, source, db) ==
  LET entry == Newest(history, source)
      fresh == Guards(db, entry[Selected(source)].kinds)
      back  == Selected(Other(source))
      moved == [side \in {"forward", "inverse"} |->
                  IF side # back THEN entry[side]
                  ELSE [kinds  |-> entry[side].kinds,
                        guards |-> fresh,
                        scopes |-> Scopes(db, entry[side].kinds)]]
  IN  [table \in {"undo", "redo"} |->
         IF table = source THEN RefreshSiblings(Older(history, source), fresh)
         ELSE Append(RefreshSiblings(history[table], fresh), moved)]
=============================================================================
