---------------------------- MODULE EngineProofs ----------------------------
(***************************************************************************)
(* One operation keeps a database consistent, whatever database it meets   *)
(* and however late it comes: for every set of pages, blocks and titles.   *)
(* The repair at the end of a transaction leaves no cycle in its tree,     *)
(* whatever intents it meets, and changes nothing when it runs again.      *)
(*                                                                         *)
(* What a replica shows of a set of operations it has applied (Shows) does *)
(* not depend on their order: an operation that comes to them, earlier or  *)
(* later than any, leads to a replica that shows it as well (ApplyShows).  *)
(* Two replicas that show the same operations agree on every page, block   *)
(* and text that was created once, on the titles nobody else claims, and,  *)
(* when that is so of all of them, on the tree (SamePage, SameBlock,       *)
(* SameBlocks).                                                            *)
(*                                                                         *)
(* The links, references and files a replica keeps beside its notes are,   *)
(* between batches, those its texts, names and owners call for; an open    *)
(* batch differs in no more than its effects name (References).            *)
(***************************************************************************)
EXTENDS References, Induction

Stamp == Nat \ {0}

-----------------------------------------------------------------------------
(* The helpers keep the types and change only what they name *)

LEMMA LaterIsStamp == ASSUME NEW s \in Nat, NEW t \in Nat PROVE Later(s, t) \in Nat
  BY DEF Later

LEMMA WriteTombstonesType ==
  ASSUME NEW db \in Databases, NEW X, NEW at \in Nat
  PROVE  WriteTombstones(db, X, at) \in Databases
  BY LaterIsStamp DEF WriteTombstones, Databases, Objects

LEMMA DropOlderTombstoneType ==
  ASSUME NEW db \in Databases, NEW x \in Objects, NEW at \in Nat
  PROVE  DropOlderTombstone(db, x, at) \in Databases
  BY DEF DropOlderTombstone, Databases

\* A tombstone keeps the later of its stamps, everything else stays.
LEMMA MarkEffect ==
  ASSUME NEW db \in Databases, NEW X, NEW at \in Nat
  PROVE  LET after == WriteTombstones(db, X, at)
         IN  /\ after \in Databases
             /\ after.pages = db.pages /\ after.blocks = db.blocks
             /\ after.structure = db.structure
             /\ \A x \in Objects \cap X : after.tombstones[x] = Later(db.tombstones[x], at)
             /\ \A x \in Objects \ X : after.tombstones[x] = db.tombstones[x]
  <1> DEFINE stones == [x \in Objects |-> IF x \in X THEN Later(db.tombstones[x], at) ELSE db.tombstones[x]]
             after == WriteTombstones(db, X, at)
  <1>1. after = [db EXCEPT !.tombstones = stones] BY DEF WriteTombstones
  <1>2. \A x \in Objects : stones[x] = IF x \in X THEN Later(db.tombstones[x], at) ELSE db.tombstones[x]
    OBVIOUS
  <1> HIDE DEF stones
  <1>3. /\ after.pages = db.pages /\ after.blocks = db.blocks
        /\ after.structure = db.structure /\ after.tombstones = stones
    BY <1>1 DEF Databases
  <1>4. after \in Databases BY WriteTombstonesType
  <1> QED BY <1>2, <1>3, <1>4

LEMMA IntentsDropped ==
  ASSUME NEW db \in Databases, NEW B
  PROVE  LET after == DropIntents(db, B)
         IN  /\ after.pages = db.pages /\ after.blocks = db.blocks /\ after.tombstones = db.tombstones
             /\ \A b \in Blocks : after.structure[b] = IF b \in B THEN NoIntent ELSE db.structure[b]
  <1> DEFINE intents == [b \in Blocks |-> IF b \in B THEN NoIntent ELSE db.structure[b]]
  <1>1. DropIntents(db, B) = [db EXCEPT !.structure = intents] BY DEF DropIntents
  <1>2. \A b \in Blocks : intents[b] = IF b \in B THEN NoIntent ELSE db.structure[b] OBVIOUS
  <1> HIDE DEF intents
  <1>3. /\ DropIntents(db, B).pages = db.pages /\ DropIntents(db, B).blocks = db.blocks
        /\ DropIntents(db, B).tombstones = db.tombstones /\ DropIntents(db, B).structure = intents
    BY <1>1 DEF Databases
  <1> QED BY <1>2, <1>3

LEMMA DropIntentsType ==
  ASSUME NEW db \in Databases, NEW B
  PROVE  DropIntents(db, B) \in Databases
  BY DEF DropIntents, Databases, NoIntent

LEMMA DropBlocksType ==
  ASSUME NEW db \in Databases, NEW B
  PROVE  DropBlocks(db, B) \in Databases
  <1> DEFINE Row == [existence : Nat, parent : Blocks \cup {None}, markdownAt : Nat]
             after == [b \in Blocks |->
                         IF b \in B THEN NoBlock
                         ELSE [db.blocks[b] EXCEPT !.parent = IF @ \in B THEN None ELSE @]]
  <1>1. ASSUME NEW b \in Blocks PROVE after[b] \in Row
    <2>1. db.blocks[b] \in Row BY DEF Databases
    <2>2. NoBlock \in Row BY DEF NoBlock
    <2>3. [db.blocks[b] EXCEPT !.parent = IF @ \in B THEN None ELSE @] \in Row BY <2>1
    <2> QED BY <2>2, <2>3
  <1>2. after \in [Blocks -> Row] BY <1>1
  <1>3. DropBlocks(db, B) = [db EXCEPT !.blocks = after] BY DEF DropBlocks
  <1> HIDE DEF after
  <1> QED BY <1>2, <1>3 DEF Databases

LEMMA WriteStructureIntentType ==
  ASSUME NEW db \in Databases, NEW b \in Blocks, NEW up \in Blocks \cup {None}, NEW at \in Nat
  PROVE  WriteStructureIntent(db, b, up, at) \in Databases
  BY DEF WriteStructureIntent, Databases

\* apply_page_title changes titles and their stamps, and gives no title to two.
LEMMA TitleEffect ==
  ASSUME NEW db \in Databases, NEW p \in Pages, NEW title \in Titles \cup {None}, NEW at \in Nat
  PROVE  LET after == ApplyPageTitle(db, p, title, at)
         IN  /\ after \in Databases
             /\ after.blocks = db.blocks /\ after.structure = db.structure
             /\ after.tombstones = db.tombstones
             /\ \A q \in Pages : after.pages[q].existence = db.pages[q].existence
             /\ OneTitleOnePage(db) => OneTitleOnePage(after)
  <1> DEFINE Row == [existence : Nat, title : Titles \cup {None}, titleAt : Nat]
             holders == Holders(db, p, title)
             loses   == \E q \in holders : db.pages[q].titleAt >= at
             pages   == [q \in Pages |->
                           CASE q = p -> [db.pages[q] EXCEPT !.title = IF loses THEN None ELSE title,
                                                             !.titleAt = at]
                             [] q \in holders /\ ~loses -> [db.pages[q] EXCEPT !.title = None]
                             [] OTHER -> db.pages[q]]
             after   == ApplyPageTitle(db, p, title, at)
  <1>1. CASE ~TitleWins(db, p, at) BY <1>1 DEF ApplyPageTitle
  <1>2. CASE TitleWins(db, p, at)
    <2>1. after = [db EXCEPT !.pages = pages] BY <1>2 DEF ApplyPageTitle
    <2>2. db.pages \in [Pages -> Row] /\ p \notin holders /\ holders \subseteq Pages
      BY DEF Databases, Holders
    <2>3. \A q \in Pages :
            /\ q = p => /\ pages[q] = [db.pages[q] EXCEPT !.title = IF loses THEN None ELSE title,
                                                          !.titleAt = at]
            /\ q # p /\ q \in holders /\ ~loses => pages[q] = [db.pages[q] EXCEPT !.title = None]
            /\ q # p /\ (q \notin holders \/ loses) => pages[q] = db.pages[q]
      BY <2>2
    <2> HIDE DEF pages
    <2>4. \A q \in Pages : pages[q] \in Row /\ pages[q].existence = db.pages[q].existence
      <3> SUFFICES ASSUME NEW q \in Pages
                   PROVE  pages[q] \in Row /\ pages[q].existence = db.pages[q].existence
        OBVIOUS
      <3>1. db.pages[q] \in Row BY <2>2
      <3>2. (IF loses THEN None ELSE title) \in Titles \cup {None} BY DEF loses
      <3>3. CASE q = p BY <2>3, <3>1, <3>2, <3>3
      <3>4. CASE q # p /\ q \in holders /\ ~loses BY <2>3, <3>1, <3>4
      <3>5. CASE q # p /\ (q \notin holders \/ loses) BY <2>3, <3>1, <3>5
      <3> QED BY <3>3, <3>4, <3>5
    <2>9. \A q \in Pages :
            /\ q = p => pages[q].title = IF loses THEN None ELSE title
            /\ q # p /\ q \in holders /\ ~loses => pages[q].title = None
            /\ q # p /\ (q \notin holders \/ loses) => pages[q].title = db.pages[q].title
      <3> SUFFICES ASSUME NEW q \in Pages
                   PROVE  /\ q = p => pages[q].title = IF loses THEN None ELSE title
                          /\ q # p /\ q \in holders /\ ~loses => pages[q].title = None
                          /\ q # p /\ (q \notin holders \/ loses) => pages[q].title = db.pages[q].title
        OBVIOUS
      <3>1. db.pages[q] \in Row BY <2>2
      <3> HIDE DEF holders, loses
      <3> QED BY <2>3, <3>1
    <2>5. pages \in [Pages -> Row]
      BY <2>4 DEF pages
    <2>6. /\ after.pages = pages /\ after.blocks = db.blocks /\ after.structure = db.structure
          /\ after.tombstones = db.tombstones
      BY <2>1 DEF Databases
    <2>7. after \in Databases BY <2>1, <2>5 DEF Databases
    <2>8. ASSUME OneTitleOnePage(db) PROVE OneTitleOnePage(after)
      <3> SUFFICES ASSUME NEW q \in Pages, pages[q].title # None
                   PROVE  /\ pages[q].existence > 0
                          /\ \A r \in Pages \ {q} : pages[r].title # pages[q].title
        BY <2>6 DEF OneTitleOnePage, PageExists
      <3>1. \A r \in Pages \ {p} : pages[r].title # None => pages[r].title = db.pages[r].title
        <4> HIDE DEF holders, loses
        <4> QED BY <2>9
      <3>2. pages[p].title # None => /\ ~loses /\ pages[p].title = title
        <4> HIDE DEF holders, loses
        <4> QED BY <2>9
      <3>3. db.pages[p].existence > 0 BY <1>2 DEF TitleWins, PageExists
      <3>4. ~loses /\ title # None => \A r \in Pages \ {p} : pages[r].title # title
        <4> SUFFICES ASSUME ~loses, title # None, NEW r \in Pages \ {p}
                     PROVE  pages[r].title # title
          OBVIOUS
        <4>1. CASE r \in holders
          <5> HIDE DEF holders, loses
          <5> QED BY <4>1, <2>9
        <4>2. CASE r \notin holders
          <5>1. pages[r].title = db.pages[r].title
            <6> HIDE DEF holders, loses
            <6> QED BY <4>2, <2>9
          <5>2. db.pages[r].title # title
            BY <4>2, <2>8 DEF Holders, OneTitleOnePage, PageExists
          <5> QED BY <5>1, <5>2
        <4> QED BY <4>1, <4>2
      <3>5. CASE q = p
        BY <3>5, <3>2, <3>3, <3>4, <2>4
      <3>6. CASE q # p
        <4>1. pages[q].title = db.pages[q].title BY <3>6, <3>1
        <4>2. db.pages[q].existence > 0 /\ \A r \in Pages \ {q} : db.pages[r].title # db.pages[q].title
          BY <4>1, <2>8 DEF OneTitleOnePage, PageExists
        <4>3. \A r \in Pages \ {p, q} : pages[r].title # pages[q].title
          BY <4>1, <4>2, <3>1
        <4>4. pages[p].title # pages[q].title
          BY <3>6, <3>2, <3>4
        <4> QED BY <4>2, <4>3, <4>4, <2>4
      <3> QED BY <3>5, <3>6
    <2> QED BY <2>4, <2>6, <2>7, <2>8
  <1> QED BY <1>1, <1>2

-----------------------------------------------------------------------------
(* The handlers that only touch a tombstone, a text or an intent *)

\* Equal lives of pages and blocks, and equal titles, are equally consistent.
LEMMA SameLives ==
  ASSUME NEW db \in Databases, NEW after \in Databases, Consistent(db),
         after.pages = db.pages,
         \A p \in Pages : after.tombstones[p] = db.tombstones[p],
         \A b \in Blocks : after.blocks[b].existence = db.blocks[b].existence
  PROVE  Consistent(after)
  <1>1. InGeneration(after)
    BY DEF Consistent, InGeneration, PageExists, BlockExists
  <1>2. PageLiveOrDead(after)
    BY DEF Consistent, PageLiveOrDead, PageExists, IsTombstoned
  <1>3. OneTitleOnePage(after)
    BY DEF Consistent, OneTitleOnePage, PageExists
  <1> QED BY <1>1, <1>2, <1>3 DEF Consistent

\* Dead blocks belong to no generation.
LEMMA FewerBlocks ==
  ASSUME NEW db \in Databases, NEW after \in Databases, Consistent(db),
         after.pages = db.pages,
         \A p \in Pages : after.tombstones[p] = db.tombstones[p],
         \A b \in Blocks : BlockExists(after, b) => after.blocks[b].existence = db.blocks[b].existence
  PROVE  Consistent(after)
  <1>1. InGeneration(after)
    BY DEF Consistent, InGeneration, PageExists, BlockExists
  <1>2. PageLiveOrDead(after)
    BY DEF Consistent, PageLiveOrDead, PageExists, IsTombstoned
  <1>3. OneTitleOnePage(after)
    BY DEF Consistent, OneTitleOnePage, PageExists
  <1> QED BY <1>1, <1>2, <1>3 DEF Consistent

LEMMA MarkdownEffect ==
  ASSUME NEW db \in Databases, NEW b \in Blocks, NEW at \in Nat
  PROVE  LET after == ApplyMarkdown(db, b, at)
         IN  /\ after \in Databases
             /\ after.pages = db.pages /\ after.structure = db.structure
             /\ after.tombstones = db.tombstones
             /\ \A c \in Blocks : /\ after.blocks[c].existence = db.blocks[c].existence
                                 /\ after.blocks[c].parent = db.blocks[c].parent
             /\ \A c \in Blocks \ {b} : after.blocks[c] = db.blocks[c]
             /\ ~BlockExists(db, b) => after.blocks[b] = db.blocks[b]
             /\ BlockExists(db, b) =>
                  after.blocks[b].markdownAt = Later(db.blocks[b].markdownAt, at)
  <1> DEFINE Row == [existence : Nat, parent : Blocks \cup {None}, markdownAt : Nat]
             row == [db.blocks[b] EXCEPT !.markdownAt = at]
             after == ApplyMarkdown(db, b, at)
  <1>1. db.blocks \in [Blocks -> Row] /\ db.blocks[b].markdownAt \in Nat BY DEF Databases
  <1>2. CASE BlockExists(db, b) /\ db.blocks[b].markdownAt < at
    <2>1. after = [db EXCEPT !.blocks = [db.blocks EXCEPT ![b] = row]] BY <1>2 DEF ApplyMarkdown
    <2>2. /\ row \in Row /\ row.existence = db.blocks[b].existence
          /\ row.parent = db.blocks[b].parent /\ row.markdownAt = at
      BY <1>1
    <2> HIDE DEF row
    <2>3. [db.blocks EXCEPT ![b] = row] \in [Blocks -> Row] BY <1>1, <2>2
    <2>4. /\ after.blocks = [db.blocks EXCEPT ![b] = row] /\ after.pages = db.pages
          /\ after.structure = db.structure /\ after.tombstones = db.tombstones
      BY <2>1 DEF Databases
    <2>5. after \in Databases BY <2>1, <2>3 DEF Databases
    <2>6. after.blocks[b] = row /\ \A c \in Blocks \ {b} : after.blocks[c] = db.blocks[c]
      BY <1>1, <2>4
    <2> HIDE DEF after
    <2> QED BY <1>2, <2>2, <2>4, <2>5, <2>6 DEF after, Later
  <1>3. CASE ~(BlockExists(db, b) /\ db.blocks[b].markdownAt < at)
    BY <1>1, <1>3 DEF ApplyMarkdown, Later
  <1> QED BY <1>2, <1>3

LEMMA IntentEffect ==
  ASSUME NEW db \in Databases, NEW b \in Blocks, NEW up \in Blocks \cup {None}, NEW at \in Nat
  PROVE  LET after == WriteStructureIntent(db, b, up, at)
         IN  /\ after \in Databases
             /\ after.pages = db.pages
             /\ after.tombstones = db.tombstones
             /\ after.blocks = db.blocks
             /\ \A c \in Blocks \ {b} : after.structure[c] = db.structure[c]
             /\ after.structure[b] = IF db.structure[b].at < at THEN [at |-> at, parent |-> up]
                                                             ELSE db.structure[b]
  BY WriteStructureIntentType DEF WriteStructureIntent, Databases

\* What a text and an intent leave alone.
LEMMA MarkdownFrame ==
  ASSUME NEW db \in Databases, NEW b \in Blocks, NEW at \in Nat
  PROVE  LET after == ApplyMarkdown(db, b, at)
         IN  /\ after \in Databases
             /\ after.pages = db.pages /\ after.tombstones = db.tombstones
             /\ \A c \in Blocks : after.blocks[c].existence = db.blocks[c].existence
  BY MarkdownEffect

LEMMA IntentFrame ==
  ASSUME NEW db \in Databases, NEW b \in Blocks, NEW up \in Blocks \cup {None}, NEW at \in Nat
  PROVE  LET after == WriteStructureIntent(db, b, up, at)
         IN  /\ after \in Databases
             /\ after.pages = db.pages
             /\ after.tombstones = db.tombstones
             /\ after.blocks = db.blocks
  BY IntentEffect

\* The row of a block that stays: its text and its stamps are the same, and its
\* parent too unless it was one of those that went.
RowStays(row, was) ==
  /\ row.existence = was.existence
  /\ row.markdownAt = was.markdownAt
  /\ row.parent \in {was.parent, None}

\* Rows that are dropped are gone, the others live on.
LEMMA DropEffect ==
  ASSUME NEW db \in Databases, NEW B \in SUBSET Blocks
  PROVE  LET after == DropBlocks(db, B)
         IN  /\ after \in Databases
             /\ after.pages = db.pages
             /\ after.tombstones = db.tombstones
             /\ after.structure = db.structure
             /\ \A b \in B : after.blocks[b] = NoBlock /\ ~BlockExists(after, b)
             /\ \A b \in Blocks \ B : RowStays(after.blocks[b], db.blocks[b])
  <1> DEFINE Row == [existence : Nat, parent : Blocks \cup {None}, markdownAt : Nat]
             rows == [b \in Blocks |->
                        IF b \in B THEN NoBlock
                        ELSE [db.blocks[b] EXCEPT !.parent = IF @ \in B THEN None ELSE @]]
             after == DropBlocks(db, B)
  <1>1. after = [db EXCEPT !.blocks = rows] BY DEF DropBlocks
  <1>2. ASSUME NEW b \in Blocks \ B PROVE RowStays(rows[b], db.blocks[b])
    <2>1. db.blocks[b] \in Row BY DEF Databases
    <2>2. rows[b] = [db.blocks[b] EXCEPT !.parent = IF @ \in B THEN None ELSE @] OBVIOUS
    <2> HIDE DEF rows
    <2> QED BY <2>1, <2>2 DEF RowStays
  <1>3. ASSUME NEW b \in B PROVE rows[b] = NoBlock OBVIOUS
  <1> HIDE DEF rows
  <1>4. after.blocks = rows /\ after.pages = db.pages /\ after.tombstones = db.tombstones
        /\ after.structure = db.structure
    BY <1>1 DEF Databases
  <1> HIDE DEF after
  <1>5. after \in Databases BY DropBlocksType DEF after
  <1>6. \A b \in B : after.blocks[b] = NoBlock /\ ~(after.blocks[b].existence > 0)
    BY <1>3, <1>4 DEF NoBlock
  <1> QED BY <1>2, <1>4, <1>5, <1>6 DEF after, BlockExists

\* Intents and then rows of B (PageDelete, BlockDelete).
LEMMA IntentsThenRows ==
  ASSUME NEW db \in Databases, NEW B \in SUBSET Blocks
  PROVE  LET after == DropBlocks(DropIntents(db, B), B)
         IN  /\ after \in Databases
             /\ after.pages = db.pages
             /\ after.tombstones = db.tombstones
             /\ \A b \in B : /\ after.blocks[b] = NoBlock /\ ~BlockExists(after, b)
                            /\ after.structure[b] = NoIntent
             /\ \A b \in Blocks \ B : /\ RowStays(after.blocks[b], db.blocks[b])
                                     /\ after.structure[b] = db.structure[b]
  <1> DEFINE half  == DropIntents(db, B)
             after == DropBlocks(half, B)
  <1>1. /\ half \in Databases /\ half.pages = db.pages /\ half.blocks = db.blocks
        /\ half.tombstones = db.tombstones
        /\ \A b \in Blocks : half.structure[b] = IF b \in B THEN NoIntent ELSE db.structure[b]
    BY DropIntentsType, IntentsDropped
  <1> HIDE DEF half
  <1>2. /\ after \in Databases /\ after.pages = half.pages /\ after.tombstones = half.tombstones
        /\ after.structure = half.structure
        /\ \A b \in B : after.blocks[b] = NoBlock /\ ~BlockExists(after, b)
        /\ \A b \in Blocks \ B : RowStays(after.blocks[b], half.blocks[b])
    BY <1>1, DropEffect
  <1> HIDE DEF after
  <1>3. /\ after \in Databases /\ after.pages = db.pages /\ after.tombstones = db.tombstones
        /\ \A b \in B : after.blocks[b] = NoBlock /\ ~BlockExists(after, b) /\ after.structure[b] = NoIntent
        /\ \A b \in Blocks \ B : /\ RowStays(after.blocks[b], db.blocks[b])
                                /\ after.structure[b] = db.structure[b]
    BY <1>1, <1>2
  <1> QED BY <1>3 DEF after, half

\* The same in the other order (StartGeneration).
LEMMA RowsThenIntents ==
  ASSUME NEW db \in Databases, NEW B \in SUBSET Blocks
  PROVE  LET after == DropIntents(DropBlocks(db, B), B)
         IN  /\ after \in Databases
             /\ after.pages = db.pages
             /\ after.tombstones = db.tombstones
             /\ \A b \in B : /\ after.blocks[b] = NoBlock /\ ~BlockExists(after, b)
                            /\ after.structure[b] = NoIntent
             /\ \A b \in Blocks \ B : /\ RowStays(after.blocks[b], db.blocks[b])
                                     /\ after.structure[b] = db.structure[b]
  <1> DEFINE half  == DropBlocks(db, B)
             after == DropIntents(half, B)
  <1>1. /\ half \in Databases /\ half.pages = db.pages /\ half.tombstones = db.tombstones
        /\ half.structure = db.structure
        /\ \A b \in B : half.blocks[b] = NoBlock /\ ~BlockExists(half, b)
        /\ \A b \in Blocks \ B : RowStays(half.blocks[b], db.blocks[b])
    BY DropEffect
  <1> HIDE DEF half
  <1>2. /\ after \in Databases /\ after.pages = half.pages /\ after.blocks = half.blocks
        /\ after.tombstones = half.tombstones
        /\ \A b \in Blocks : after.structure[b] = IF b \in B THEN NoIntent ELSE half.structure[b]
    BY <1>1, DropIntentsType, IntentsDropped
  <1>3. \A b \in B : ~BlockExists(after, b) BY <1>1, <1>2 DEF BlockExists
  <1> HIDE DEF after
  <1>4. /\ after \in Databases /\ after.pages = db.pages /\ after.tombstones = db.tombstones
        /\ \A b \in B : after.blocks[b] = NoBlock /\ after.structure[b] = NoIntent
        /\ \A b \in Blocks \ B : /\ RowStays(after.blocks[b], db.blocks[b])
                                /\ after.structure[b] = db.structure[b]
    BY <1>1, <1>2
  <1> QED BY <1>3, <1>4 DEF after, half

-----------------------------------------------------------------------------
(* The handlers *)

LEMMA SetTitleKeeps ==
  ASSUME NEW db \in Databases, Consistent(db),
         NEW p \in Pages, NEW title \in Titles \cup {None}, NEW at \in Stamp
  PROVE  LET after == ApplyPageTitle(db, p, title, at)
         IN  after \in Databases /\ Consistent(after)
  <1> DEFINE after == ApplyPageTitle(db, p, title, at)
  <1>1. /\ after \in Databases /\ after.blocks = db.blocks /\ after.tombstones = db.tombstones
        /\ \A q \in Pages : after.pages[q].existence = db.pages[q].existence
        /\ OneTitleOnePage(db) => OneTitleOnePage(after)
    BY TitleEffect DEF Stamp
  <1> HIDE DEF after
  <1>2. InGeneration(after)
    BY <1>1, EngineAssumption DEF Consistent, InGeneration, PageExists, BlockExists
  <1>3. PageLiveOrDead(after)
    BY <1>1 DEF Consistent, PageLiveOrDead, PageExists, IsTombstoned
  <1>4. OneTitleOnePage(after) BY <1>1 DEF Consistent
  <1> QED BY <1>1, <1>2, <1>3, <1>4 DEF Consistent, after

\* A journal that exists only gets older, so it stays below its blocks.
LEMMA EnsureJournalAgainKeeps ==
  ASSUME NEW db \in Databases, Consistent(db), NEW p \in Pages, PageExists(db, p), NEW at \in Stamp
  PROVE  LET after == EnsureJournalAgain(db, p, at)
         IN  after \in Databases /\ Consistent(after)
  <1> DEFINE Row == [existence : Nat, title : Titles \cup {None}, titleAt : Nat]
             old   == db.pages[p].existence
             after == EnsureJournalAgain(db, p, at)
  <1>1. CASE at >= old BY <1>1 DEF EnsureJournalAgain, Databases, Stamp
  <1>2. CASE at < old
    <2>1. PICK row \in Row : /\ after = [db EXCEPT !.pages[p] = row]
                             /\ row.existence = at /\ row.title = db.pages[p].title
      <3> DEFINE row == [db.pages[p] EXCEPT !.existence = at, !.titleAt = IF @ = old THEN at ELSE @]
      <3>1. db.pages[p] \in Row BY DEF Databases
      <3>2. row \in Row /\ row.existence = at /\ row.title = db.pages[p].title
        BY <3>1 DEF Stamp
      <3>3. after = [db EXCEPT !.pages[p] = row]
        BY <1>2, <3>1 DEF EnsureJournalAgain, Databases
      <3> HIDE DEF row
      <3> QED BY <3>2, <3>3
    <2>2. /\ after \in Databases /\ after.blocks = db.blocks /\ after.tombstones = db.tombstones
          /\ after.pages[p] = row /\ \A q \in Pages \ {p} : after.pages[q] = db.pages[q]
      <3>1. db.pages \in [Pages -> Row] BY DEF Databases
      <3>2. after = [db EXCEPT !.pages = [db.pages EXCEPT ![p] = row]]
        BY <2>1
      <3>3. [db.pages EXCEPT ![p] = row] \in [Pages -> Row] BY <2>1, <3>1
      <3> HIDE DEF after
      <3>4. after \in Databases BY <3>2, <3>3 DEF Databases
      <3>5. /\ after.blocks = db.blocks /\ after.tombstones = db.tombstones
            /\ after.pages = [db.pages EXCEPT ![p] = row]
        BY <3>2 DEF Databases
      <3> QED BY <3>1, <3>4, <3>5
    <2> HIDE DEF after
    <2>3. \A q \in Pages : /\ after.pages[q].title = db.pages[q].title
                           /\ PageExists(db, q) <=> PageExists(after, q)
                           /\ after.pages[q].existence <= db.pages[q].existence
      BY <1>2, <2>1, <2>2 DEF PageExists, Stamp, Databases
    <2>4. InGeneration(after)
      <3> SUFFICES ASSUME NEW b \in Blocks, BlockExists(after, b)
                   PROVE  /\ PageExists(after, PageOf[b])
                          /\ after.pages[PageOf[b]].existence <= after.blocks[b].existence
        BY DEF InGeneration
      <3>1. PageOf[b] \in Pages BY EngineAssumption
      <3>2. /\ after.pages[PageOf[b]].existence \in Nat /\ db.pages[PageOf[b]].existence \in Nat
            /\ db.blocks[b].existence \in Nat
        BY <2>2, <3>1 DEF Databases
      <3>3. /\ PageExists(db, PageOf[b]) /\ db.pages[PageOf[b]].existence <= db.blocks[b].existence
        BY <2>2 DEF Consistent, InGeneration, BlockExists
      <3>4. after.pages[PageOf[b]].existence <= db.pages[PageOf[b]].existence
        BY <2>3, <3>1
      <3> QED BY <2>2, <2>3, <3>1, <3>2, <3>3, <3>4
    <2>5. PageLiveOrDead(after)
      BY <2>2, <2>3 DEF Consistent, PageLiveOrDead, IsTombstoned
    <2>6. OneTitleOnePage(after)
      BY <2>3 DEF Consistent, OneTitleOnePage
    <2> QED BY <2>2, <2>4, <2>5, <2>6 DEF Consistent, after
  <1>3. at \in Nat /\ old \in Nat BY DEF Databases, Stamp
  <1> QED BY <1>1, <1>2, <1>3

\* What an older generation of the page leaves: nothing that was created before.
\* Of a block either the row and the intent are gone and a tombstone is there, or
\* both stay and so does what it has of a tombstone.
BlockStays(after, db, b) ==
  /\ RowStays(after.blocks[b], db.blocks[b])
  /\ after.structure[b] = db.structure[b]
  /\ IsTombstoned(after, b) <=> IsTombstoned(db, b)

Buried(after, b) ==
  after.blocks[b] = NoBlock /\ after.structure[b] = NoIntent /\ IsTombstoned(after, b)

\* What a page's creation or deletion does to a block: nothing, or it goes with
\* the generation of the page it belonged to.
StaysOrGoes(after, db, p, b) ==
  \/ BlockStays(after, db, b)
  \/ PageOf[b] = p /\ BlockExists(db, b) /\ Buried(after, b)

LEMMA LaterIsLater ==
  ASSUME NEW s \in Nat, NEW t \in Nat
  PROVE  /\ Later(s, t) \in Nat
         /\ s > 0 \/ t > 0 => Later(s, t) > 0
         /\ Later(s, t) >= s /\ Later(s, t) >= t
         /\ Later(s, t) = s \/ Later(s, t) = t
  BY DEF Later

LEMMA StartGenerationEffect ==
  ASSUME NEW db \in Databases, NEW p \in Pages, NEW at \in Stamp
  PROVE  LET after == StartGeneration(db, p, at)
         IN  /\ after \in Databases
             /\ after.pages = db.pages
             /\ \A q \in Pages : after.tombstones[q] = db.tombstones[q]
             /\ \A b \in Blocks : BlockExists(after, b) =>
                  /\ after.blocks[b].existence = db.blocks[b].existence
                  /\ PageOf[b] = p /\ PageExists(db, p) /\ db.pages[p].existence < at
                     => db.blocks[b].existence >= at
             /\ \A b \in Blocks : StaysOrGoes(after, db, p, b)
  <1> DEFINE stale == IF PageExists(db, p) /\ db.pages[p].existence < at
                      THEN {b \in BlocksOf(db, p) : db.blocks[b].existence < at} ELSE {}
             dead  == {b \in Blocks : PageOf[b] = p /\ IsTombstoned(db, b)}
             after == StartGeneration(db, p, at)
  <1>1. after = DropIntents(DropBlocks(WriteTombstones(db, stale \cup dead, at), stale), stale)
    BY DEF StartGeneration
  <1>2. stale \in SUBSET Blocks /\ stale \cup dead \in SUBSET Objects
    BY DEF BlocksOf, Objects
  <1>3. \A b \in Blocks : /\ PageOf[b] = p /\ PageExists(db, p) /\ db.pages[p].existence < at
                          /\ BlockExists(db, b) /\ b \notin stale
                          => ~(db.blocks[b].existence < at)
    BY DEF BlocksOf
  <1>4. \A q \in Pages : q \in Objects /\ q \notin stale \cup dead
    BY EngineAssumption DEF BlocksOf, Objects
  <1>7. /\ \A b \in stale : PageOf[b] = p /\ BlockExists(db, b)
        /\ \A b \in dead : db.tombstones[b] > 0
    BY DEF BlocksOf, IsTombstoned
  <1> HIDE DEF stale, dead, after
  <1>5. /\ after \in Databases /\ after.pages = db.pages
        /\ \A q \in Pages : after.tombstones[q] = db.tombstones[q]
        /\ \A b \in stale : /\ ~BlockExists(after, b)
                           /\ after.blocks[b] = NoBlock /\ after.structure[b] = NoIntent
        /\ \A b \in Blocks \ stale : /\ RowStays(after.blocks[b], db.blocks[b])
                                    /\ after.structure[b] = db.structure[b]
        /\ \A b \in stale \cup dead : after.tombstones[b] > 0
        /\ \A b \in Blocks \ (stale \cup dead) : after.tombstones[b] = db.tombstones[b]
    <2> DEFINE marked == WriteTombstones(db, stale \cup dead, at)
    <2>1. /\ marked \in Databases /\ marked.pages = db.pages /\ marked.blocks = db.blocks
          /\ marked.structure = db.structure
          /\ \A x \in Objects \cap (stale \cup dead) : marked.tombstones[x] = Later(db.tombstones[x], at)
          /\ \A x \in Objects \ (stale \cup dead) : marked.tombstones[x] = db.tombstones[x]
      BY MarkEffect DEF Stamp
    <2>2. after = DropIntents(DropBlocks(marked, stale), stale) BY <1>1
    <2> HIDE DEF marked
    <2>3. /\ after \in Databases /\ after.pages = marked.pages /\ after.tombstones = marked.tombstones
          /\ \A b \in stale : /\ after.blocks[b] = NoBlock /\ ~BlockExists(after, b)
                             /\ after.structure[b] = NoIntent
          /\ \A b \in Blocks \ stale : /\ RowStays(after.blocks[b], marked.blocks[b])
                                      /\ after.structure[b] = marked.structure[b]
      BY <1>2, <2>1, <2>2, RowsThenIntents
    <2>4. ASSUME NEW b \in stale \cup dead PROVE after.tombstones[b] > 0
      <3>1. b \in Objects /\ db.tombstones[b] \in Nat /\ at \in Nat /\ at > 0
        BY <1>2 DEF Databases, Stamp
      <3>2. after.tombstones[b] = Later(db.tombstones[b], at) BY <2>1, <2>3, <3>1
      <3>3. Later(db.tombstones[b], at) > 0 BY <3>1, LaterIsLater
      <3> QED BY <3>2, <3>3
    <2>5. \A b \in Blocks : b \in Objects BY DEF Objects
    <2> QED BY <1>4, <2>1, <2>3, <2>4, <2>5
  <1>6. ASSUME NEW b \in Blocks, BlockExists(after, b)
        PROVE  /\ after.blocks[b].existence = db.blocks[b].existence
               /\ PageOf[b] = p /\ PageExists(db, p) /\ db.pages[p].existence < at
                  => db.blocks[b].existence >= at
    <2>1. b \notin stale /\ after.blocks[b].existence = db.blocks[b].existence
      BY <1>5, <1>6 DEF RowStays
    <2>2. BlockExists(db, b) BY <1>6, <2>1 DEF BlockExists
    <2>3. db.blocks[b].existence \in Nat /\ at \in Nat BY DEF Databases, Stamp
    <2> QED BY <1>3, <2>1, <2>2, <2>3
  <1>8. ASSUME NEW b \in Blocks
        PROVE  StaysOrGoes(after, db, p, b)
    <2>1. CASE b \in stale BY <1>5, <1>7, <2>1 DEF StaysOrGoes, Buried, IsTombstoned
    <2>2. CASE b \notin stale BY <1>5, <1>7, <2>2 DEF StaysOrGoes, BlockStays, IsTombstoned
    <2> QED BY <2>1, <2>2
  <1> QED BY <1>5, <1>6, <1>8 DEF after

\* A creation that is not dominated: the page lives, without a tombstone, at the
\* later of its stamps.
LEMMA RaisePageEffect ==
  ASSUME NEW db \in Databases, NEW p \in Pages, NEW at \in Stamp, db.tombstones[p] < at
  PROVE  LET after == DropOlderTombstone(UpsertPage(db, p, at), p, at)
         IN  /\ after \in Databases
             /\ after.blocks = db.blocks /\ after.structure = db.structure
             /\ after.tombstones[p] = 0
             /\ \A b \in Blocks : after.tombstones[b] = db.tombstones[b]
             /\ \A q \in Pages \ {p} : /\ after.tombstones[q] = db.tombstones[q]
                                       /\ after.pages[q] = db.pages[q]
             /\ after.pages[p].existence = Later(db.pages[p].existence, at)
             /\ after.pages[p].title = db.pages[p].title
             /\ after.pages[p].titleAt = db.pages[p].titleAt
  <1> DEFINE Row == [existence : Nat, title : Titles \cup {None}, titleAt : Nat]
             row == IF db.pages[p].existence < at THEN [db.pages[p] EXCEPT !.existence = at] ELSE db.pages[p]
             raised == UpsertPage(db, p, at)
             after == DropOlderTombstone(raised, p, at)
  <1>1. db.pages \in [Pages -> Row] /\ db.tombstones \in [Objects -> Nat] /\ p \in Objects
    BY DEF Databases, Objects
  <1>2. /\ row \in Row /\ row.title = db.pages[p].title /\ row.titleAt = db.pages[p].titleAt
        /\ row.existence = Later(db.pages[p].existence, at)
    BY <1>1 DEF Later, Stamp
  <1>3. raised = [db EXCEPT !.pages = [db.pages EXCEPT ![p] = row]] BY DEF UpsertPage
  <1> HIDE DEF row
  <1>4. /\ raised \in Databases /\ raised.blocks = db.blocks /\ raised.tombstones = db.tombstones
        /\ raised.pages = [db.pages EXCEPT ![p] = row] /\ raised.structure = db.structure
    <2>1. [db.pages EXCEPT ![p] = row] \in [Pages -> Row] BY <1>1, <1>2
    <2> HIDE DEF raised
    <2> QED BY <1>3, <2>1 DEF Databases
  <1> HIDE DEF raised
  <1>5. after = [raised EXCEPT !.tombstones = [raised.tombstones EXCEPT ![p] = 0]]
    BY <1>4 DEF DropOlderTombstone
  <1>6. after \in Databases BY <1>1, <1>4, DropOlderTombstoneType DEF Stamp
  <1>7. /\ after.blocks = raised.blocks /\ after.pages = raised.pages
        /\ after.structure = raised.structure
        /\ after.tombstones = [raised.tombstones EXCEPT ![p] = 0]
    BY <1>4, <1>5 DEF Databases
  <1> HIDE DEF after
  <1>8. /\ \A q \in Pages : q \in Objects
        /\ \A b \in Blocks : b \in Objects \ {p}
    BY EngineAssumption DEF Objects
  <1>9. /\ after.blocks = db.blocks /\ after.pages[p] = row /\ after.tombstones[p] = 0
        /\ after.structure = db.structure
        /\ \A b \in Blocks : after.tombstones[b] = db.tombstones[b]
        /\ \A q \in Pages \ {p} : /\ after.tombstones[q] = db.tombstones[q]
                                  /\ after.pages[q] = db.pages[q]
    BY <1>1, <1>4, <1>7, <1>8
  <1> QED BY <1>2, <1>6, <1>9 DEF after, raised

LEMMA PageCreateKeeps ==
  ASSUME NEW db \in Databases, Consistent(db),
         NEW p \in Pages, NEW title \in Titles \cup {None}, NEW at \in Stamp
  PROVE  LET after == PageCreate(db, p, title, at)
         IN  after \in Databases /\ Consistent(after)
  <1> DEFINE young == StartGeneration(db, p, at)
             alive == DropOlderTombstone(UpsertPage(young, p, at), p, at)
             after == PageCreate(db, p, title, at)
  <1>1. CASE TombstoneDominates(db, p, at) BY <1>1 DEF PageCreate
  <1>2. CASE ~TombstoneDominates(db, p, at) /\ p \in Journals /\ PageExists(db, p)
    <2>1. after = EnsureJournalAgain(db, p, at) BY <1>2 DEF PageCreate
    <2> QED BY <1>2, <2>1, EnsureJournalAgainKeeps
  <1>3. CASE ~TombstoneDominates(db, p, at) /\ ~(p \in Journals /\ PageExists(db, p))
    <2>1. after = ApplyPageTitle(alive, p, title, at) BY <1>3 DEF PageCreate
    <2>2. /\ db.tombstones[p] < at /\ at \in Nat /\ at > 0
      BY <1>3 DEF TombstoneDominates, Databases, Objects, Stamp
    <2>3. /\ young \in Databases /\ young.pages = db.pages
          /\ \A q \in Pages : young.tombstones[q] = db.tombstones[q]
          /\ \A b \in Blocks : BlockExists(young, b) =>
               /\ young.blocks[b].existence = db.blocks[b].existence
               /\ PageOf[b] = p /\ PageExists(db, p) /\ db.pages[p].existence < at
                  => db.blocks[b].existence >= at
      BY StartGenerationEffect
    <2> HIDE DEF young, after
    <2>4. /\ alive \in Databases
          /\ alive.blocks = young.blocks
          /\ alive.tombstones[p] = 0
          /\ \A q \in Pages \ {p} : /\ alive.tombstones[q] = db.tombstones[q]
                                    /\ alive.pages[q] = db.pages[q]
          /\ alive.pages[p].existence = Later(db.pages[p].existence, at)
          /\ alive.pages[p].title = db.pages[p].title
      BY <2>2, <2>3, RaisePageEffect
    <2> HIDE DEF alive
    <2>5. InGeneration(alive)
      <3> SUFFICES ASSUME NEW b \in Blocks, BlockExists(alive, b)
                   PROVE  /\ PageExists(alive, PageOf[b])
                          /\ alive.pages[PageOf[b]].existence <= alive.blocks[b].existence
        BY DEF InGeneration
      <3>1. BlockExists(young, b) BY <2>4 DEF BlockExists
      <3>2. alive.blocks[b].existence = db.blocks[b].existence /\ BlockExists(db, b)
        BY <2>3, <2>4, <3>1 DEF BlockExists
      <3>3. PageExists(db, PageOf[b]) /\ db.pages[PageOf[b]].existence <= db.blocks[b].existence
        BY <3>2 DEF Consistent, InGeneration
      <3>4. PageOf[b] \in Pages BY EngineAssumption
      <3>5. db.pages[p].existence \in Nat /\ db.blocks[b].existence \in Nat BY DEF Databases
      <3>6. CASE PageOf[b] # p BY <2>4, <3>2, <3>3, <3>4, <3>6 DEF PageExists
      <3>7. CASE PageOf[b] = p
        <4>1. db.pages[p].existence < at => db.blocks[b].existence >= at
          BY <2>3, <3>1, <3>3, <3>7
        <4>2. Later(db.pages[p].existence, at) <= db.blocks[b].existence
              /\ Later(db.pages[p].existence, at) > 0
          BY <2>2, <3>3, <3>5, <3>7, <4>1 DEF Later, PageExists
        <4> QED BY <2>4, <3>2, <3>7, <4>2 DEF PageExists
      <3> QED BY <3>6, <3>7
    <2>6. PageLiveOrDead(alive)
      BY <2>4 DEF Consistent, PageLiveOrDead, PageExists, IsTombstoned
    <2>7. OneTitleOnePage(alive)
      <3>1. \A q \in Pages : alive.pages[q].title = db.pages[q].title BY <2>4
      <3>2. Later(db.pages[p].existence, at) > 0 BY <2>2 DEF Later, Databases
      <3>3. \A q \in Pages : PageExists(db, q) => PageExists(alive, q)
        BY <2>4, <3>2 DEF PageExists
      <3> QED BY <3>1, <3>3 DEF Consistent, OneTitleOnePage
    <2>8. Consistent(alive) BY <2>5, <2>6, <2>7 DEF Consistent
    <2> QED BY <2>1, <2>4, <2>8, SetTitleKeeps DEF after
  <1> QED BY <1>1, <1>2, <1>3

\* A delete that is not older than the page takes the page and all its blocks.
LEMMA PageDeleteKeeps ==
  ASSUME NEW db \in Databases, Consistent(db), NEW p \in Pages, NEW at \in Stamp
  PROVE  LET after == PageDelete(db, p, at)
         IN  after \in Databases /\ Consistent(after)
  <1> DEFINE Row == [existence : Nat, title : Titles \cup {None}, titleAt : Nat]
             blocks == BlocksOf(db, p)
             buried == WriteTombstones(db, {p} \cup blocks, at)
             marked == DropIntents(buried, blocks)
             empty  == DropBlocks(marked, blocks)
             after  == PageDelete(db, p, at)
  <1>1. CASE db.pages[p].existence > at BY <1>1 DEF PageDelete
  <1>2. CASE ~(db.pages[p].existence > at)
    <2>1. after = IF marked.tombstones[p] = at THEN [empty EXCEPT !.pages[p] = NoPage] ELSE marked
      BY <1>2 DEF PageDelete
    <2>2. /\ blocks \in SUBSET Blocks
          /\ \A b \in Blocks \ blocks : ~(PageOf[b] = p /\ BlockExists(db, b))
          /\ \A q \in Pages : q \in Objects /\ (q # p => q \notin {p} \cup blocks)
      BY EngineAssumption DEF BlocksOf, Objects
    <2>3. /\ buried \in Databases /\ buried.pages = db.pages /\ buried.blocks = db.blocks
          /\ \A x \in Objects : buried.tombstones[x] = IF x \in {p} \cup blocks
                                                       THEN Later(db.tombstones[x], at)
                                                       ELSE db.tombstones[x]
      BY MarkEffect DEF Stamp
    <2> HIDE DEF blocks, after, buried
    <2>4. /\ buried.tombstones[p] = Later(db.tombstones[p], at)
          /\ \A q \in Pages \ {p} : buried.tombstones[q] = db.tombstones[q]
      BY <2>2, <2>3
    <2>5. /\ marked \in Databases /\ marked.pages = db.pages /\ marked.blocks = db.blocks
          /\ marked.tombstones = buried.tombstones
      BY <2>3, DropIntentsType, IntentsDropped
    <2> HIDE DEF marked
    <2>6. /\ empty \in Databases /\ empty.pages = marked.pages /\ empty.tombstones = marked.tombstones
          /\ \A b \in blocks : ~BlockExists(empty, b)
          /\ \A b \in Blocks \ blocks : empty.blocks[b].existence = marked.blocks[b].existence
      BY <2>2, <2>5, DropEffect DEF RowStays
    <2> HIDE DEF empty
    <2>7. CASE marked.tombstones[p] = at
      <3>1. after = [empty EXCEPT !.pages = [empty.pages EXCEPT ![p] = NoPage]] BY <2>1, <2>7
      <3>2. empty.pages \in [Pages -> Row] /\ NoPage \in Row /\ NoPage.existence = 0 /\ NoPage.title = None
        BY <2>6 DEF Databases, NoPage
      <3>3. [empty.pages EXCEPT ![p] = NoPage] \in [Pages -> Row] BY <3>2
      <3>4. /\ after \in Databases /\ after.blocks = empty.blocks /\ after.tombstones = empty.tombstones
            /\ after.pages = [empty.pages EXCEPT ![p] = NoPage]
        BY <2>6, <3>1, <3>3 DEF Databases
      <3>5. /\ after.pages[p] = NoPage
            /\ \A q \in Pages \ {p} : after.pages[q] = db.pages[q]
        BY <2>5, <2>6, <3>2, <3>4
      <3>6. InGeneration(after)
        <4> SUFFICES ASSUME NEW b \in Blocks, BlockExists(after, b)
                     PROVE  /\ PageExists(after, PageOf[b])
                            /\ after.pages[PageOf[b]].existence <= after.blocks[b].existence
          BY DEF InGeneration
        <4>1. b \notin blocks /\ after.blocks[b].existence = db.blocks[b].existence
          BY <2>5, <2>6, <3>4 DEF BlockExists
        <4>2. BlockExists(db, b) /\ PageOf[b] \in Pages \ {p}
          BY <2>2, <4>1, EngineAssumption DEF BlockExists
        <4> QED BY <3>5, <4>1, <4>2 DEF Consistent, InGeneration, PageExists
      <3>7. PageLiveOrDead(after)
        BY <2>4, <2>5, <2>6, <3>2, <3>4, <3>5 DEF Consistent, PageLiveOrDead, PageExists, IsTombstoned
      <3>8. OneTitleOnePage(after)
        BY <3>2, <3>5 DEF Consistent, OneTitleOnePage, PageExists
      <3> QED BY <3>4, <3>6, <3>7, <3>8 DEF Consistent, after
    <2>8. CASE marked.tombstones[p] # at
      <3>1. after = marked BY <2>1, <2>8
      <3>2. db.tombstones[p] > 0 /\ db.tombstones[p] \in Nat
        BY <2>4, <2>5, <2>8 DEF Later, Databases, Objects, Stamp
      <3>3. ~PageExists(db, p) BY <3>2 DEF Consistent, PageLiveOrDead, IsTombstoned
      <3>4. InGeneration(after)
        BY <2>5, <3>1 DEF Consistent, InGeneration, PageExists, BlockExists
      <3>5. PageLiveOrDead(after)
        BY <2>4, <2>5, <3>1, <3>3 DEF Consistent, PageLiveOrDead, PageExists, IsTombstoned
      <3>6. OneTitleOnePage(after)
        BY <2>5, <3>1 DEF Consistent, OneTitleOnePage, PageExists
      <3> QED BY <2>5, <3>1, <3>4, <3>5, <3>6 DEF Consistent, after
    <2> QED BY <2>7, <2>8
  <1> QED BY <1>1, <1>2

\* Tombstones of blocks change nothing for pages and what lives.
LEMMA MarkBlockKeeps ==
  ASSUME NEW db \in Databases, Consistent(db), NEW b \in Blocks, NEW at \in Nat
  PROVE  LET after == WriteTombstones(db, {b}, at)
         IN  after \in Databases /\ Consistent(after)
  <1> DEFINE after == WriteTombstones(db, {b}, at)
  <1>1. /\ after \in Databases /\ after.pages = db.pages /\ after.blocks = db.blocks
        /\ \A x \in Objects \ {b} : after.tombstones[x] = db.tombstones[x]
    BY MarkEffect
  <1>2. \A p \in Pages : p \in Objects \ {b} BY EngineAssumption DEF Objects
  <1> HIDE DEF after
  <1>3. Consistent(after) BY <1>1, <1>2, SameLives
  <1> QED BY <1>1, <1>3 DEF after

\* A delete that is not older than the block drops its row and its intent.
LEMMA BlockDeleteKeeps ==
  ASSUME NEW db \in Databases, Consistent(db), NEW b \in Blocks, NEW at \in Stamp
  PROVE  LET after == BlockDelete(db, b, at)
         IN  after \in Databases /\ Consistent(after)
  <1> DEFINE marked == WriteTombstones(db, {b}, at)
             empty  == DropBlocks(DropIntents(marked, {b}), {b})
             after  == BlockDelete(db, b, at)
  <1>1. marked \in Databases /\ Consistent(marked) BY MarkBlockKeeps DEF Stamp
  <1>2. after = db \/ after = marked \/ after = empty BY DEF BlockDelete
  <1> HIDE DEF marked, after
  <1>3. /\ empty \in Databases /\ empty.pages = marked.pages /\ empty.tombstones = marked.tombstones
        /\ \A c \in {b} : ~BlockExists(empty, c)
        /\ \A c \in Blocks \ {b} : empty.blocks[c].existence = marked.blocks[c].existence
    BY <1>1, IntentsThenRows DEF RowStays
  <1> HIDE DEF empty
  <1>4. Consistent(empty) BY <1>1, <1>3, FewerBlocks
  <1> QED BY <1>1, <1>2, <1>3, <1>4 DEF after

\* The row of a block that is created: at the later of its stamps, not tombstoned
\* by anything older.
LEMMA RaiseBlockEffect ==
  ASSUME NEW db \in Databases, NEW b \in Blocks, NEW at \in Stamp
  PROVE  LET after == DropOlderTombstone(UpsertBlock(db, b, at), b, at)
         IN  /\ after \in Databases
             /\ after.pages = db.pages /\ after.structure = db.structure
             /\ \A p \in Pages : after.tombstones[p] = db.tombstones[p]
             /\ after.blocks[b].existence = Later(db.blocks[b].existence, at)
             /\ after.blocks[b].markdownAt = db.blocks[b].markdownAt
             /\ \A c \in Blocks \ {b} : /\ after.blocks[c] = db.blocks[c]
                                       /\ after.tombstones[c] = db.tombstones[c]
             /\ db.tombstones[b] < at => after.tombstones[b] = 0
  <1> DEFINE Row == [existence : Nat, parent : Blocks \cup {None}, markdownAt : Nat]
             row == [db.blocks[b] EXCEPT !.existence = IF @ < at THEN at ELSE @]
             raised == UpsertBlock(db, b, at)
             stone  == IF raised.tombstones[b] < at THEN 0 ELSE raised.tombstones[b]
             after == DropOlderTombstone(raised, b, at)
  <1>1. db.blocks \in [Blocks -> Row] /\ db.tombstones \in [Objects -> Nat] /\ b \in Objects
    BY DEF Databases, Objects
  <1>2. /\ row \in Row /\ row.existence = Later(db.blocks[b].existence, at)
        /\ row.markdownAt = db.blocks[b].markdownAt
    BY <1>1 DEF Later, Stamp
  <1>3. raised = [db EXCEPT !.blocks = [db.blocks EXCEPT ![b] = row]] BY <1>1 DEF UpsertBlock, Databases
  <1> HIDE DEF row, raised
  <1>4. /\ raised \in Databases /\ raised.pages = db.pages /\ raised.tombstones = db.tombstones
        /\ raised.blocks = [db.blocks EXCEPT ![b] = row] /\ raised.structure = db.structure
    <2>1. [db.blocks EXCEPT ![b] = row] \in [Blocks -> Row] BY <1>1, <1>2
    <2> QED BY <1>3, <2>1 DEF Databases
  <1>5. after = [raised EXCEPT !.tombstones = [raised.tombstones EXCEPT ![b] = stone]]
    BY <1>1, <1>4 DEF DropOlderTombstone
  <1>6. after \in Databases BY <1>1, <1>4, DropOlderTombstoneType DEF Stamp
  <1>10. db.tombstones[b] < at => stone = 0 BY <1>4
  <1> HIDE DEF stone
  <1>7. /\ after.pages = raised.pages /\ after.blocks = raised.blocks
        /\ after.structure = raised.structure
        /\ after.tombstones = [raised.tombstones EXCEPT ![b] = stone]
    BY <1>4, <1>5 DEF Databases
  <1>8. /\ \A p \in Pages : p \in Objects \ {b}
        /\ \A c \in Blocks : c \in Objects
    BY EngineAssumption DEF Objects
  <1> HIDE DEF after
  <1>9. /\ after.pages = db.pages /\ after.structure = db.structure
        /\ \A p \in Pages : after.tombstones[p] = db.tombstones[p]
        /\ after.blocks[b] = row
        /\ \A c \in Blocks \ {b} : /\ after.blocks[c] = db.blocks[c]
                                  /\ after.tombstones[c] = db.tombstones[c]
        /\ db.tombstones[b] < at => after.tombstones[b] = 0
    BY <1>1, <1>4, <1>7, <1>8, <1>10
  <1> QED BY <1>2, <1>6, <1>9 DEF after, raised

LEMMA BlockCreateKeeps ==
  ASSUME NEW db \in Databases, Consistent(db),
         NEW b \in Blocks, NEW up \in Blocks \cup {None}, NEW at \in Stamp,
         TombstoneDominates(db, b, at) \/ IsTombstoned(db, PageOf[b]) \/ PageExists(db, PageOf[b])
  PROVE  LET after == BlockCreate(db, b, up, at)
         IN  after \in Databases /\ Consistent(after)
  <1> DEFINE p == PageOf[b]
             raised == DropOlderTombstone(UpsertBlock(db, b, at), b, at)
             placed == WriteStructureIntent(raised, b, up, at)
             after  == BlockCreate(db, b, up, at)
  <1>1. /\ p \in Pages /\ p \in Objects /\ db.tombstones[p] \in Nat /\ db.pages[p].existence \in Nat
        /\ db.blocks[b].existence \in Nat /\ at \in Nat
    BY EngineAssumption DEF Databases, Objects, Stamp
  <1>2. CASE TombstoneDominates(db, b, at) BY <1>2 DEF BlockCreate
  <1>3. CASE ~TombstoneDominates(db, b, at) /\ IsTombstoned(db, p)
    <2>1. after = WriteTombstones(db, {b}, db.tombstones[p]) BY <1>3 DEF BlockCreate
    <2> QED BY <1>1, <2>1, MarkBlockKeeps
  <1>4. CASE ~TombstoneDominates(db, b, at) /\ ~IsTombstoned(db, p) /\ OlderGeneration(db, b, at)
    <2>1. after = WriteTombstones(db, {b}, db.pages[p].existence) BY <1>4 DEF BlockCreate
    <2> QED BY <1>1, <2>1, MarkBlockKeeps
  <1>5. CASE ~TombstoneDominates(db, b, at) /\ ~IsTombstoned(db, p) /\ ~OlderGeneration(db, b, at)
    <2>1. after = ApplyMarkdown(placed, b, at) BY <1>5 DEF BlockCreate
    <2>2. PageExists(db, p) /\ db.pages[p].existence <= at
      BY <1>1, <1>5 DEF OlderGeneration
    <2>3. /\ raised \in Databases /\ raised.pages = db.pages
          /\ \A q \in Pages : raised.tombstones[q] = db.tombstones[q]
          /\ raised.blocks[b].existence = Later(db.blocks[b].existence, at)
          /\ \A c \in Blocks \ {b} : raised.blocks[c] = db.blocks[c]
      BY RaiseBlockEffect
    <2> HIDE DEF raised
    <2>4. Consistent(raised)
      <3>1. db.pages[p].existence <= Later(db.blocks[b].existence, at)
        BY <1>1, <2>2 DEF Later
      <3>2. InGeneration(raised)
        BY <2>2, <2>3, <3>1 DEF Consistent, InGeneration, PageExists, BlockExists
      <3>3. PageLiveOrDead(raised)
        BY <2>3 DEF Consistent, PageLiveOrDead, PageExists, IsTombstoned
      <3>4. OneTitleOnePage(raised)
        BY <2>3 DEF Consistent, OneTitleOnePage, PageExists
      <3> QED BY <3>2, <3>3, <3>4 DEF Consistent
    <2>5. /\ placed \in Databases /\ placed.pages = raised.pages
          /\ placed.tombstones = raised.tombstones /\ placed.blocks = raised.blocks
      BY <1>1, <2>3, IntentFrame
    <2> HIDE DEF placed
    <2>6. Consistent(placed) BY <2>3, <2>4, <2>5, SameLives
    <2>7. /\ ApplyMarkdown(placed, b, at) \in Databases
          /\ ApplyMarkdown(placed, b, at).pages = placed.pages
          /\ ApplyMarkdown(placed, b, at).tombstones = placed.tombstones
          /\ \A c \in Blocks : ApplyMarkdown(placed, b, at).blocks[c].existence = placed.blocks[c].existence
      BY <1>1, <2>5, MarkdownFrame
    <2>8. Consistent(ApplyMarkdown(placed, b, at)) BY <2>5, <2>6, <2>7, SameLives
    <2> QED BY <2>1, <2>7, <2>8
  <1> QED BY <1>2, <1>3, <1>4, <1>5

-----------------------------------------------------------------------------
(* One operation, and the repair of the tree *)

LEMMA KindCases ==
  ASSUME NEW k \in Kinds
  PROVE  \/ \E p \in Pages, t \in Titles \cup {None} : k = PageCreates(p, t)
         \/ \E p \in Pages, t \in Titles \cup {None} : k = PageSetsTitle(p, t)
         \/ \E p \in Pages : k = PageDeletes(p)
         \/ \E b \in Blocks, u \in Blocks \cup {None} : u \in PlacesOf(b) /\ k = BlockCreates(b, u)
         \/ \E b \in Blocks : k = BlockSetsMarkdown(b)
         \/ \E b \in Blocks, u \in Blocks \cup {None} : u \in PlacesOf(b) /\ k = BlockMoves(b, u)
         \/ \E b \in Blocks : k = BlockDeletes(b)
  <1>1. ASSUME k \in UNION {{BlockCreates(b, u) : u \in PlacesOf(b)} : b \in Blocks}
        PROVE  \E b \in Blocks, u \in Blocks \cup {None} : u \in PlacesOf(b) /\ k = BlockCreates(b, u)
    <2>1. PICK b \in Blocks : k \in {BlockCreates(b, u) : u \in PlacesOf(b)} BY <1>1
    <2>2. PICK u \in PlacesOf(b) : k = BlockCreates(b, u) BY <2>1
    <2>3. u \in Blocks \cup {None} BY DEF PlacesOf
    <2> QED BY <2>2, <2>3
  <1>2. ASSUME k \in UNION {{BlockMoves(b, u) : u \in PlacesOf(b)} : b \in Blocks}
        PROVE  \E b \in Blocks, u \in Blocks \cup {None} : u \in PlacesOf(b) /\ k = BlockMoves(b, u)
    <2>1. PICK b \in Blocks : k \in {BlockMoves(b, u) : u \in PlacesOf(b)} BY <1>2
    <2>2. PICK u \in PlacesOf(b) : k = BlockMoves(b, u) BY <2>1
    <2>3. u \in Blocks \cup {None} BY DEF PlacesOf
    <2> QED BY <2>2, <2>3
  <1> QED BY <1>1, <1>2 DEF Kinds

\* A replica that applies an operation, of any kind, by whomever, and however
\* late it arrives, has the types of its tables right afterwards, its blocks in
\* the current generation of their pages, no page both alive and tombstoned, and
\* no title twice (apply_one_with_effects).
THEOREM ApplyKeepsConsistency ==
  ASSUME NEW db \in Databases, Consistent(db),
         NEW op, op.kind \in Kinds, op.at \in Stamp, ~Refuses(db, op)
  PROVE  Apply(db, op) \in Databases /\ Consistent(Apply(db, op))
  <1> DEFINE k     == op.kind
             after == Apply(db, op)
             Goal  == after \in Databases /\ Consistent(after)
  <1> SUFFICES Goal OBVIOUS
  <1>0. op.at \in Nat BY DEF Stamp
  <1>1. ASSUME NEW p \in Pages, NEW t \in Titles \cup {None}, k = PageCreates(p, t) PROVE Goal
    <2>1. after = PageCreate(db, p, t, op.at) BY <1>1 DEF Apply, PageCreates
    <2> HIDE DEF after
    <2> QED BY <2>1, PageCreateKeeps
  <1>2. ASSUME NEW p \in Pages, NEW t \in Titles \cup {None}, k = PageSetsTitle(p, t) PROVE Goal
    <2>1. after = PageSetTitle(db, p, t, op.at) BY <1>2 DEF Apply, PageSetsTitle
    <2>2. after = db \/ after = ApplyPageTitle(db, p, t, op.at) BY <2>1 DEF PageSetTitle
    <2> HIDE DEF after
    <2> QED BY <2>2, SetTitleKeeps
  <1>3. ASSUME NEW p \in Pages, k = PageDeletes(p) PROVE Goal
    <2>1. after = PageDelete(db, p, op.at) BY <1>3 DEF Apply, PageDeletes
    <2> HIDE DEF after
    <2> QED BY <2>1, PageDeleteKeeps
  <1>4. ASSUME NEW b \in Blocks, NEW u \in Blocks \cup {None}, k = BlockCreates(b, u) PROVE Goal
    <2>1. after = BlockCreate(db, b, u, op.at) BY <1>4 DEF Apply, BlockCreates
    <2>2. TombstoneDominates(db, b, op.at) \/ IsTombstoned(db, PageOf[b]) \/ PageExists(db, PageOf[b])
      BY <1>4 DEF Refuses, BlockCreates
    <2> HIDE DEF after
    <2> QED BY <2>1, <2>2, BlockCreateKeeps
  <1>5. ASSUME NEW b \in Blocks, k = BlockSetsMarkdown(b) PROVE Goal
    <2> DEFINE written == ApplyMarkdown(db, b, op.at)
    <2>1. after = BlockSetMarkdown(db, b, op.at) BY <1>5 DEF Apply, BlockSetsMarkdown
    <2>2. after = db \/ after = written BY <2>1 DEF BlockSetMarkdown
    <2>3. /\ written \in Databases /\ written.pages = db.pages /\ written.tombstones = db.tombstones
          /\ \A c \in Blocks : written.blocks[c].existence = db.blocks[c].existence
      BY <1>0, MarkdownFrame
    <2> HIDE DEF after, written
    <2>4. Consistent(written) BY <2>3, SameLives
    <2> QED BY <2>2, <2>3, <2>4
  <1>6. ASSUME NEW b \in Blocks, NEW u \in Blocks \cup {None}, k = BlockMoves(b, u) PROVE Goal
    <2> DEFINE moved == WriteStructureIntent(db, b, u, op.at)
    <2>1. after = BlockMove(db, b, u, op.at) BY <1>6 DEF Apply, BlockMoves
    <2>2. after = db \/ after = moved BY <2>1 DEF BlockMove
    <2>3. /\ moved \in Databases /\ moved.pages = db.pages /\ moved.tombstones = db.tombstones
          /\ moved.blocks = db.blocks
      BY <1>0, IntentFrame
    <2> HIDE DEF after, moved
    <2>4. Consistent(moved) BY <2>3, SameLives
    <2> QED BY <2>2, <2>3, <2>4
  <1>7. ASSUME NEW b \in Blocks, k = BlockDeletes(b) PROVE Goal
    <2>1. after = BlockDelete(db, b, op.at) BY <1>7 DEF Apply, BlockDeletes
    <2> HIDE DEF after
    <2> QED BY <2>1, BlockDeleteKeeps
  <1> QED BY <1>1, <1>2, <1>3, <1>4, <1>5, <1>6, <1>7, KindCases

\* The repair of the tree at the end of a transaction only moves blocks
\* (reconcile_structure).
THEOREM ReconcileKeepsConsistency ==
  ASSUME NEW db \in Databases, Consistent(db)
  PROVE  ReconcileStructure(db) \in Databases /\ Consistent(ReconcileStructure(db))
  <1> DEFINE Row     == [existence : Nat, parent : Blocks \cup {None}, markdownAt : Nat]
             bound   == [b \in Blocks |-> IF Structured(db, b) THEN BoundParent(db, b) ELSE None]
             parents == BreakCycles(db, bound)
             rows    == [b \in Blocks |-> [db.blocks[b] EXCEPT !.parent = parents[b]]]
             after   == ReconcileStructure(db)
  <1>1. after = [db EXCEPT !.blocks = rows] BY DEF ReconcileStructure
  <1>2. ASSUME NEW b \in Blocks PROVE bound[b] \in Blocks \cup {None}
    <2>1. db.structure[b].parent \in Blocks \cup {None} BY DEF Databases
    <2>2. BoundParent(db, b) \in Blocks \cup {None} BY <2>1 DEF BoundParent
    <2> QED BY <2>2
  <1> HIDE DEF bound
  <1>3. ASSUME NEW b \in Blocks PROVE parents[b] \in Blocks \cup {None}
    BY <1>2 DEF BreakCycles
  <1> HIDE DEF parents
  <1>4. ASSUME NEW b \in Blocks
        PROVE  rows[b] \in Row /\ rows[b].existence = db.blocks[b].existence
    <2>1. db.blocks[b] \in Row BY DEF Databases
    <2>2. rows[b] = [db.blocks[b] EXCEPT !.parent = parents[b]] OBVIOUS
    <2> HIDE DEF rows
    <2> QED BY <1>3, <2>1, <2>2
  <1>5. rows \in [Blocks -> Row] BY <1>4
  <1> HIDE DEF rows, after
  <1>6. /\ after \in Databases /\ after.pages = db.pages /\ after.tombstones = db.tombstones
        /\ after.blocks = rows
    BY <1>1, <1>5 DEF Databases
  <1>7. Consistent(after) BY <1>4, <1>6, SameLives
  <1> QED BY <1>6, <1>7 DEF after

-----------------------------------------------------------------------------
(* What each handler does to every row *)

\* The rows of another page: at most its title goes, to a page that claims it.
PageStays(after, db, q, title) ==
  /\ after.pages[q].existence = db.pages[q].existence
  /\ after.pages[q].titleAt = db.pages[q].titleAt
  /\ \/ after.pages[q].title = db.pages[q].title
     \/ after.pages[q].title = None /\ title # None /\ db.pages[q].title = title

\* A claim that is newer than the page's title is taken, with the title unless
\* another page has it; an older one is not.
Titled(after, db, p, title, at) ==
  IF db.pages[p].titleAt < at
  THEN /\ after.pages[p].titleAt = at
       /\ \/ after.pages[p].title = title
          \/ /\ after.pages[p].title = None
             /\ title # None /\ \E q \in Pages \ {p} : db.pages[q].title = title
  ELSE after.pages[p].titleAt = db.pages[p].titleAt /\ after.pages[p].title = db.pages[p].title

LEMMA TitleRows ==
  ASSUME NEW db \in Databases, NEW p \in Pages, NEW title \in Titles \cup {None}, NEW at \in Nat
  PROVE  LET after == ApplyPageTitle(db, p, title, at)
         IN  /\ \A q \in Pages \ {p} : PageStays(after, db, q, title)
             /\ PageExists(db, p) => Titled(after, db, p, title, at)
             /\ ~PageExists(db, p) \/ db.pages[p].titleAt >= at => after = db
  <1> DEFINE Row == [existence : Nat, title : Titles \cup {None}, titleAt : Nat]
             holders == Holders(db, p, title)
             loses   == \E q \in holders : db.pages[q].titleAt >= at
             pages   == [q \in Pages |->
                           CASE q = p -> [db.pages[q] EXCEPT !.title = IF loses THEN None ELSE title,
                                                             !.titleAt = at]
                             [] q \in holders /\ ~loses -> [db.pages[q] EXCEPT !.title = None]
                             [] OTHER -> db.pages[q]]
             after   == ApplyPageTitle(db, p, title, at)
  <1>1. CASE ~TitleWins(db, p, at) BY <1>1 DEF ApplyPageTitle, TitleWins, PageStays, Titled
  <1>2. CASE TitleWins(db, p, at)
    <2>0. PageExists(db, p) /\ ~(db.pages[p].titleAt >= at)
      BY <1>2 DEF TitleWins, Databases
    <2>1. after = [db EXCEPT !.pages = pages] BY <1>2 DEF ApplyPageTitle
    <2>2. /\ db.pages \in [Pages -> Row] /\ p \notin holders
          /\ \A q \in holders : title # None /\ db.pages[q].title = title /\ q \in Pages \ {p}
      BY DEF Databases, Holders
    <2>3. \A q \in Pages :
            /\ q = p => pages[q] = [db.pages[q] EXCEPT !.title = IF loses THEN None ELSE title,
                                                       !.titleAt = at]
            /\ q # p /\ q \in holders /\ ~loses => pages[q] = [db.pages[q] EXCEPT !.title = None]
            /\ q # p /\ (q \notin holders \/ loses) => pages[q] = db.pages[q]
      BY <2>2
    <2>4. loses => title # None /\ \E q \in Pages \ {p} : db.pages[q].title = title BY <2>2
    <2> HIDE DEF pages, holders, loses
    <2>5. after.pages = pages BY <2>1 DEF Databases
    <2> HIDE DEF after
    <2>6. ASSUME NEW q \in Pages \ {p} PROVE PageStays(after, db, q, title)
      <3>1. db.pages[q] \in Row BY <2>2
      <3>2. CASE q \in holders /\ ~loses
        <4>1. pages[q] = [db.pages[q] EXCEPT !.title = None] BY <2>3, <3>2
        <4>2. title # None /\ db.pages[q].title = title BY <2>2, <3>2
        <4> QED BY <2>5, <3>1, <4>1, <4>2 DEF PageStays
      <3>3. CASE q \notin holders \/ loses
        <4>1. pages[q] = db.pages[q] BY <2>3, <3>3
        <4> QED BY <2>5, <4>1 DEF PageStays
      <3> QED BY <3>2, <3>3
    <2>7. Titled(after, db, p, title, at)
      <3>1. db.pages[p] \in Row BY <2>2
      <3>2. pages[p] = [db.pages[p] EXCEPT !.title = IF loses THEN None ELSE title, !.titleAt = at]
        BY <2>3
      <3>3. pages[p].titleAt = at /\ pages[p].title = IF loses THEN None ELSE title BY <3>1, <3>2
      <3> QED BY <1>2, <2>4, <2>5, <3>3 DEF Titled, TitleWins
    <2> QED BY <2>0, <2>6, <2>7 DEF after
  <1> QED BY <1>1, <1>2

LEMMA JournalAgainRows ==
  ASSUME NEW db \in Databases, NEW p \in Pages, NEW at \in Stamp
  PROVE  LET after == EnsureJournalAgain(db, p, at)
         IN  /\ after.blocks = db.blocks /\ after.structure = db.structure
             /\ after.tombstones = db.tombstones
             /\ \A q \in Pages \ {p} : after.pages[q] = db.pages[q]
             /\ after.pages[p].title = db.pages[p].title
             /\ after.pages[p].existence = IF at < db.pages[p].existence THEN at
                                                                       ELSE db.pages[p].existence
  <1> DEFINE Row == [existence : Nat, title : Titles \cup {None}, titleAt : Nat]
             old == db.pages[p].existence
             row == [db.pages[p] EXCEPT !.existence = at, !.titleAt = IF @ = old THEN at ELSE @]
             after == EnsureJournalAgain(db, p, at)
  <1>1. CASE ~(at < old) BY <1>1 DEF EnsureJournalAgain
  <1>2. CASE at < old
    <2>1. db.pages \in [Pages -> Row] BY DEF Databases
    <2>2. row.existence = at /\ row.title = db.pages[p].title BY <2>1
    <2>3. after = [db EXCEPT !.pages = [db.pages EXCEPT ![p] = row]]
      BY <1>2, <2>1 DEF EnsureJournalAgain, Databases
    <2> HIDE DEF row, after
    <2>4. /\ after.pages = [db.pages EXCEPT ![p] = row] /\ after.tombstones = db.tombstones
          /\ after.blocks = db.blocks /\ after.structure = db.structure
      BY <2>3 DEF Databases
    <2>5. after.pages[p] = row /\ \A q \in Pages \ {p} : after.pages[q] = db.pages[q] BY <2>1, <2>4
    <2> QED BY <1>2, <2>2, <2>4, <2>5 DEF after
  <1> QED BY <1>1, <1>2

\* How a creation finds its page: dead since, a journal that is there already,
\* or neither.
Created(after, db, p, title, at) ==
  \/ after = db /\ db.tombstones[p] >= at
  \/ /\ p \in Journals /\ PageExists(db, p)
     /\ after.pages[p].title = db.pages[p].title
     /\ after.pages[p].existence = IF at < db.pages[p].existence THEN at ELSE db.pages[p].existence
  \/ /\ ~(p \in Journals /\ PageExists(db, p))
     /\ after.pages[p].existence = Later(db.pages[p].existence, at)
     /\ Titled(after, db, p, title, at)

LEMMA PageCreateRows ==
  ASSUME NEW db \in Databases, NEW p \in Pages, NEW title \in Titles \cup {None}, NEW at \in Stamp
  PROVE  LET after == PageCreate(db, p, title, at)
         IN  /\ Created(after, db, p, title, at)
             /\ \A q \in Pages \ {p} : /\ PageStays(after, db, q, title)
                                       /\ after.tombstones[q] = db.tombstones[q]
             /\ db.pages[p].titleAt >= at => \A q \in Pages \ {p} : after.pages[q] = db.pages[q]
             /\ \A b \in Blocks : StaysOrGoes(after, db, p, b)
  <1> DEFINE young == StartGeneration(db, p, at)
             alive == DropOlderTombstone(UpsertPage(young, p, at), p, at)
             after == PageCreate(db, p, title, at)
  <1>0. /\ at \in Nat /\ at > 0 /\ db.tombstones[p] \in Nat /\ db.pages[p].existence \in Nat
    BY DEF Stamp, Databases, Objects
  <1>1. CASE TombstoneDominates(db, p, at)
    BY <1>1 DEF PageCreate, TombstoneDominates, Created, PageStays, StaysOrGoes, BlockStays, RowStays
  <1>2. CASE ~TombstoneDominates(db, p, at) /\ p \in Journals /\ PageExists(db, p)
    <2>1. after = EnsureJournalAgain(db, p, at) BY <1>2 DEF PageCreate
    <2> HIDE DEF after
    <2>2. /\ after.blocks = db.blocks /\ after.structure = db.structure
          /\ after.tombstones = db.tombstones
          /\ \A q \in Pages \ {p} : after.pages[q] = db.pages[q]
          /\ after.pages[p].title = db.pages[p].title
          /\ after.pages[p].existence = IF at < db.pages[p].existence THEN at
                                                                    ELSE db.pages[p].existence
      BY <2>1, JournalAgainRows
    <2>3. Created(after, db, p, title, at) BY <1>2, <2>2 DEF Created
    <2>4. \A b \in Blocks : StaysOrGoes(after, db, p, b)
      BY <2>2 DEF StaysOrGoes, BlockStays, RowStays, IsTombstoned
    <2>5. \A q \in Pages \ {p} : PageStays(after, db, q, title) BY <2>2 DEF PageStays
    <2> QED BY <2>2, <2>3, <2>4, <2>5 DEF after
  <1>3. CASE ~TombstoneDominates(db, p, at) /\ ~(p \in Journals /\ PageExists(db, p))
    <2>1. after = ApplyPageTitle(alive, p, title, at) BY <1>3 DEF PageCreate
    <2>2. db.tombstones[p] < at BY <1>0, <1>3 DEF TombstoneDominates
    <2>3. /\ young \in Databases /\ young.pages = db.pages
          /\ \A q \in Pages : young.tombstones[q] = db.tombstones[q]
          /\ \A b \in Blocks : StaysOrGoes(young, db, p, b)
      BY StartGenerationEffect
    <2> HIDE DEF young, after
    <2>4. /\ alive \in Databases
          /\ alive.blocks = young.blocks /\ alive.structure = young.structure
          /\ \A b \in Blocks : alive.tombstones[b] = young.tombstones[b]
          /\ \A q \in Pages \ {p} : /\ alive.tombstones[q] = young.tombstones[q]
                                    /\ alive.pages[q] = young.pages[q]
          /\ alive.pages[p].existence = Later(young.pages[p].existence, at)
          /\ alive.pages[p].title = young.pages[p].title
          /\ alive.pages[p].titleAt = young.pages[p].titleAt
      BY <2>2, <2>3, RaisePageEffect
    <2> HIDE DEF alive
    <2>5. PageExists(alive, p) BY <1>0, <2>3, <2>4, LaterIsLater DEF PageExists
    <2>6. /\ after.blocks = alive.blocks /\ after.structure = alive.structure
          /\ after.tombstones = alive.tombstones
          /\ \A q \in Pages : after.pages[q].existence = alive.pages[q].existence
      BY <1>0, <2>1, <2>4, TitleEffect
    <2>7. /\ \A q \in Pages \ {p} : PageStays(after, alive, q, title)
          /\ Titled(after, alive, p, title, at)
          /\ alive.pages[p].titleAt >= at => after = alive
      BY <1>0, <2>1, <2>4, <2>5, TitleRows
    <2>8. Titled(after, db, p, title, at)
      BY <2>3, <2>4, <2>7 DEF Titled
    <2>9. Created(after, db, p, title, at) BY <1>3, <2>3, <2>4, <2>6, <2>8 DEF Created
    <2>10. \A q \in Pages \ {p} : PageStays(after, db, q, title) BY <2>3, <2>4, <2>7 DEF PageStays
    <2>11. \A b \in Blocks : StaysOrGoes(after, db, p, b)
      BY <2>3, <2>4, <2>6 DEF StaysOrGoes, BlockStays, RowStays, Buried, IsTombstoned
    <2>12. \A q \in Pages \ {p} : after.tombstones[q] = db.tombstones[q] BY <2>3, <2>4, <2>6
    <2>13. db.pages[p].titleAt >= at => \A q \in Pages \ {p} : after.pages[q] = db.pages[q]
      BY <2>3, <2>4, <2>7
    <2> QED BY <2>9, <2>10, <2>11, <2>12, <2>13 DEF after
  <1> QED BY <1>1, <1>2, <1>3

LEMMA PageSetTitleRows ==
  ASSUME NEW db \in Databases, NEW p \in Pages, NEW title \in Titles \cup {None}, NEW at \in Stamp
  PROVE  LET after == PageSetTitle(db, p, title, at)
         IN  /\ after.blocks = db.blocks /\ after.structure = db.structure
             /\ after.tombstones = db.tombstones
             /\ \A q \in Pages \ {p} : PageStays(after, db, q, title)
             /\ after.pages[p].existence = db.pages[p].existence
             /\ IsTombstoned(db, p) \/ ~PageExists(db, p) \/ db.pages[p].titleAt >= at => after = db
             /\ ~IsTombstoned(db, p) /\ PageExists(db, p) => Titled(after, db, p, title, at)
  <1>1. at \in Nat BY DEF Stamp
  <1>2. CASE IsTombstoned(db, p) BY <1>2 DEF PageSetTitle, PageStays
  <1>3. CASE ~IsTombstoned(db, p) BY <1>1, <1>3, TitleEffect, TitleRows DEF PageSetTitle
  <1> QED BY <1>2, <1>3

\* A deletion takes the page unless the page is newer, or dead already.
LEMMA PageDeleteRows ==
  ASSUME NEW db \in Databases, Consistent(db), NEW p \in Pages, NEW at \in Stamp
  PROVE  LET after == PageDelete(db, p, at)
         IN  /\ \A q \in Pages \ {p} : /\ after.pages[q] = db.pages[q]
                                       /\ after.tombstones[q] = db.tombstones[q]
             /\ \A b \in Blocks : StaysOrGoes(after, db, p, b)
             /\ \/ after = db /\ db.pages[p].existence > at
                \/ /\ db.pages[p].existence <= at
                   /\ IsTombstoned(after, p)
                   /\ \/ after.pages[p] = NoPage /\ after.tombstones[p] = at
                      \/ after.pages[p] = db.pages[p] /\ ~PageExists(db, p)
  <1> DEFINE Row == [existence : Nat, title : Titles \cup {None}, titleAt : Nat]
             blocks == BlocksOf(db, p)
             buried == WriteTombstones(db, {p} \cup blocks, at)
             marked == DropIntents(buried, blocks)
             empty  == DropBlocks(marked, blocks)
             after  == PageDelete(db, p, at)
  <1>0. /\ at \in Nat /\ at > 0 /\ db.tombstones[p] \in Nat /\ db.pages[p].existence \in Nat
    BY DEF Stamp, Databases, Objects
  <1>1. CASE db.pages[p].existence > at
    BY <1>1 DEF PageDelete, StaysOrGoes, BlockStays, RowStays
  <1>2. CASE ~(db.pages[p].existence > at)
    <2>1. after = IF marked.tombstones[p] = at THEN [empty EXCEPT !.pages[p] = NoPage] ELSE marked
      BY <1>2 DEF PageDelete
    <2>2. /\ blocks \in SUBSET Blocks
          /\ \A b \in blocks : PageOf[b] = p /\ BlockExists(db, b)
          /\ \A b \in Blocks \ blocks : ~(PageOf[b] = p /\ BlockExists(db, b))
          /\ \A q \in Pages : q \in Objects /\ (q # p => q \notin {p} \cup blocks)
          /\ \A b \in Blocks : b \in Objects /\ b # p
      BY EngineAssumption DEF BlocksOf, Objects
    <2>3. /\ buried \in Databases /\ buried.pages = db.pages /\ buried.blocks = db.blocks
          /\ buried.structure = db.structure
          /\ \A x \in Objects \cap ({p} \cup blocks) : buried.tombstones[x] = Later(db.tombstones[x], at)
          /\ \A x \in Objects \ ({p} \cup blocks) : buried.tombstones[x] = db.tombstones[x]
      BY <1>0, MarkEffect
    <2> HIDE DEF blocks, after, buried
    <2>4. /\ buried.tombstones[p] = Later(db.tombstones[p], at)
          /\ \A q \in Pages \ {p} : buried.tombstones[q] = db.tombstones[q]
          /\ \A b \in Blocks \ blocks : buried.tombstones[b] = db.tombstones[b]
      BY <2>2, <2>3
    <2>5. \A b \in blocks : buried.tombstones[b] > 0
      <3> SUFFICES ASSUME NEW b \in blocks PROVE buried.tombstones[b] > 0 OBVIOUS
      <3>1. b \in Objects /\ db.tombstones[b] \in Nat BY <2>2 DEF Databases
      <3>2. Later(db.tombstones[b], at) > 0 BY <1>0, <3>1, LaterIsLater
      <3> QED BY <2>3, <3>1, <3>2
    <2>6. /\ marked \in Databases /\ marked.pages = db.pages /\ marked.blocks = db.blocks
          /\ marked.tombstones = buried.tombstones
          /\ \A b \in Blocks : marked.structure[b] = IF b \in blocks THEN NoIntent ELSE db.structure[b]
      BY <2>3, DropIntentsType, IntentsDropped
    <2> HIDE DEF marked
    <2>7. /\ empty \in Databases /\ empty.pages = marked.pages /\ empty.tombstones = marked.tombstones
          /\ empty.structure = marked.structure
          /\ \A b \in blocks : empty.blocks[b] = NoBlock
          /\ \A b \in Blocks \ blocks : RowStays(empty.blocks[b], marked.blocks[b])
      BY <2>2, <2>6, DropEffect
    <2> HIDE DEF empty
    <2>8. CASE marked.tombstones[p] = at
      <3>1. after = [empty EXCEPT !.pages = [empty.pages EXCEPT ![p] = NoPage]] BY <2>1, <2>8
      <3>2. empty.pages \in [Pages -> Row] BY <2>7 DEF Databases
      <3>3. /\ after.blocks = empty.blocks /\ after.tombstones = empty.tombstones
            /\ after.structure = empty.structure
            /\ after.pages = [empty.pages EXCEPT ![p] = NoPage]
        BY <2>7, <3>1 DEF Databases
      <3>4. /\ after.pages[p] = NoPage
            /\ \A q \in Pages \ {p} : after.pages[q] = db.pages[q]
        BY <2>6, <2>7, <3>2, <3>3
      <3>5. \A b \in Blocks : StaysOrGoes(after, db, p, b)
        <4> SUFFICES ASSUME NEW b \in Blocks PROVE StaysOrGoes(after, db, p, b) OBVIOUS
        <4>1. CASE b \in blocks
          BY <2>2, <2>5, <2>6, <2>7, <3>3, <4>1 DEF StaysOrGoes, Buried, IsTombstoned
        <4>2. CASE b \notin blocks
          BY <2>4, <2>6, <2>7, <3>3, <4>2 DEF StaysOrGoes, BlockStays, IsTombstoned
        <4> QED BY <4>1, <4>2
      <3>6. IsTombstoned(after, p) /\ after.tombstones[p] = at
        BY <1>0, <2>7, <2>8, <3>3 DEF IsTombstoned
      <3>7. \A q \in Pages \ {p} : after.tombstones[q] = db.tombstones[q] BY <2>4, <2>6, <2>7, <3>3
      <3> QED BY <1>0, <1>2, <3>4, <3>5, <3>6, <3>7 DEF after
    <2>9. CASE marked.tombstones[p] # at
      <3>1. after = marked BY <2>1, <2>9
      <3>2. db.tombstones[p] > 0
        BY <1>0, <2>4, <2>6, <2>9 DEF Later
      <3>3. ~PageExists(db, p) BY <3>2 DEF Consistent, PageLiveOrDead, IsTombstoned
      <3>4. blocks = {} BY <2>2, <3>3 DEF Consistent, InGeneration
      <3>5. \A b \in Blocks : StaysOrGoes(after, db, p, b)
        BY <2>4, <2>6, <3>1, <3>4 DEF StaysOrGoes, BlockStays, RowStays, IsTombstoned
      <3>6. IsTombstoned(after, p)
        <4>1. Later(db.tombstones[p], at) > 0 BY <1>0, LaterIsLater
        <4> QED BY <2>4, <2>6, <3>1, <4>1 DEF IsTombstoned
      <3>7. \A q \in Pages \ {p} : after.tombstones[q] = db.tombstones[q] BY <2>4, <2>6, <3>1
      <3> QED BY <1>0, <1>2, <2>6, <3>1, <3>3, <3>5, <3>6, <3>7 DEF after
    <2> QED BY <2>8, <2>9
  <1> QED BY <1>1, <1>2

\* The operations of a block leave the pages and the other blocks alone.
Elsewhere(after, db, b) ==
  /\ after.pages = db.pages
  /\ \A p \in Pages : after.tombstones[p] = db.tombstones[p]
  /\ \A c \in Blocks \ {b} : BlockStays(after, db, c)

\* How a creation finds its block: dead since, on a page that is dead or of a
\* newer generation, or on a page that takes it.
Placed(after, db, b, up, at) ==
  LET p == PageOf[b]
  IN  \/ after = db /\ db.tombstones[b] >= at
      \/ /\ IsTombstoned(db, p) \/ db.pages[p].existence > at
         /\ after.blocks[b] = db.blocks[b] /\ after.structure[b] = db.structure[b]
         /\ IsTombstoned(after, b)
      \/ /\ ~IsTombstoned(db, p) /\ db.pages[p].existence <= at
         /\ after.tombstones[b] = 0
         /\ after.blocks[b].existence = Later(db.blocks[b].existence, at)
         /\ after.blocks[b].markdownAt = Later(db.blocks[b].markdownAt, at)
         /\ after.structure[b] = IF db.structure[b].at < at THEN [at |-> at, parent |-> up]
                                                            ELSE db.structure[b]

LEMMA MarkBlockRows ==
  ASSUME NEW db \in Databases, NEW b \in Blocks, NEW at \in Nat, at > 0
  PROVE  LET after == WriteTombstones(db, {b}, at)
         IN  /\ Elsewhere(after, db, b)
             /\ after.blocks = db.blocks /\ after.structure = db.structure
             /\ after.tombstones[b] = Later(db.tombstones[b], at)
             /\ IsTombstoned(after, b)
  <1> DEFINE after == WriteTombstones(db, {b}, at)
  <1>1. /\ after.pages = db.pages /\ after.blocks = db.blocks /\ after.structure = db.structure
        /\ \A x \in Objects \cap {b} : after.tombstones[x] = Later(db.tombstones[x], at)
        /\ \A x \in Objects \ {b} : after.tombstones[x] = db.tombstones[x]
    BY MarkEffect
  <1>2. /\ b \in Objects /\ db.tombstones[b] \in Nat
        /\ \A p \in Pages : p \in Objects \ {b}
        /\ \A c \in Blocks \ {b} : c \in Objects \ {b}
    BY EngineAssumption DEF Objects, Databases
  <1> HIDE DEF after
  <1>3. after.tombstones[b] = Later(db.tombstones[b], at) /\ IsTombstoned(after, b)
    <2>1. Later(db.tombstones[b], at) > 0 BY <1>2, LaterIsLater
    <2> QED BY <1>1, <1>2, <2>1 DEF IsTombstoned
  <1>4. Elsewhere(after, db, b)
    BY <1>1, <1>2 DEF Elsewhere, BlockStays, RowStays, IsTombstoned
  <1> QED BY <1>1, <1>3, <1>4 DEF after

LEMMA BlockCreateRows ==
  ASSUME NEW db \in Databases, NEW b \in Blocks, NEW up \in Blocks \cup {None}, NEW at \in Stamp
  PROVE  LET after == BlockCreate(db, b, up, at)
         IN  Elsewhere(after, db, b) /\ Placed(after, db, b, up, at)
  <1> DEFINE p == PageOf[b]
             raised == DropOlderTombstone(UpsertBlock(db, b, at), b, at)
             placed == WriteStructureIntent(raised, b, up, at)
             after  == BlockCreate(db, b, up, at)
  <1>1. /\ p \in Pages /\ p \in Objects /\ db.tombstones[p] \in Nat /\ db.pages[p].existence \in Nat
        /\ db.blocks[b].existence \in Nat /\ at \in Nat /\ at > 0 /\ db.tombstones[b] \in Nat
    BY EngineAssumption DEF Databases, Objects, Stamp
  <1>2. CASE TombstoneDominates(db, b, at)
    BY <1>2 DEF BlockCreate, TombstoneDominates, Elsewhere, BlockStays, RowStays, Placed
  <1>3. CASE ~TombstoneDominates(db, b, at) /\ IsTombstoned(db, p)
    <2>1. after = WriteTombstones(db, {b}, db.tombstones[p]) BY <1>3 DEF BlockCreate
    <2> HIDE DEF after
    <2>2. /\ Elsewhere(after, db, b) /\ after.blocks = db.blocks /\ after.structure = db.structure
          /\ IsTombstoned(after, b)
      <3>1. db.tombstones[p] > 0 BY <1>3 DEF IsTombstoned
      <3> QED BY <1>1, <2>1, <3>1, MarkBlockRows
    <2> QED BY <1>3, <2>2 DEF Placed, after
  <1>4. CASE ~TombstoneDominates(db, b, at) /\ ~IsTombstoned(db, p) /\ OlderGeneration(db, b, at)
    <2>1. after = WriteTombstones(db, {b}, db.pages[p].existence) BY <1>4 DEF BlockCreate
    <2> HIDE DEF after
    <2>2. db.pages[p].existence > at /\ db.pages[p].existence > 0 BY <1>1, <1>4 DEF OlderGeneration
    <2>3. /\ Elsewhere(after, db, b) /\ after.blocks = db.blocks /\ after.structure = db.structure
          /\ IsTombstoned(after, b)
      BY <1>1, <2>1, <2>2, MarkBlockRows
    <2> QED BY <2>2, <2>3 DEF Placed, after
  <1>5. CASE ~TombstoneDominates(db, b, at) /\ ~IsTombstoned(db, p) /\ ~OlderGeneration(db, b, at)
    <2>1. after = ApplyMarkdown(placed, b, at) BY <1>5 DEF BlockCreate
    <2>2. db.pages[p].existence <= at /\ db.tombstones[b] < at
      BY <1>1, <1>5 DEF OlderGeneration, TombstoneDominates
    <2>3. /\ raised \in Databases /\ raised.pages = db.pages /\ raised.structure = db.structure
          /\ \A q \in Pages : raised.tombstones[q] = db.tombstones[q]
          /\ \A c \in Blocks \ {b} : /\ raised.blocks[c] = db.blocks[c]
                                    /\ raised.tombstones[c] = db.tombstones[c]
          /\ raised.blocks[b].existence = Later(db.blocks[b].existence, at)
          /\ raised.blocks[b].markdownAt = db.blocks[b].markdownAt
          /\ raised.tombstones[b] = 0
      BY <2>2, RaiseBlockEffect
    <2> HIDE DEF raised, after
    <2>4. /\ placed \in Databases /\ placed.pages = raised.pages
          /\ placed.tombstones = raised.tombstones /\ placed.blocks = raised.blocks
          /\ \A c \in Blocks \ {b} : placed.structure[c] = raised.structure[c]
          /\ placed.structure[b] = IF raised.structure[b].at < at THEN [at |-> at, parent |-> up]
                                                                  ELSE raised.structure[b]
      <3>1. raised \in Databases /\ at \in Nat BY <1>1, <2>3
      <3> QED BY <3>1, IntentEffect
    <2> HIDE DEF placed
    <2>5. BlockExists(placed, b)
      <3>1. Later(db.blocks[b].existence, at) > 0 BY <1>1, LaterIsLater
      <3> QED BY <2>3, <2>4, <3>1 DEF BlockExists
    <2>6. /\ after.pages = placed.pages /\ after.structure = placed.structure
          /\ after.tombstones = placed.tombstones
          /\ \A c \in Blocks : after.blocks[c].existence = placed.blocks[c].existence
          /\ \A c \in Blocks \ {b} : after.blocks[c] = placed.blocks[c]
          /\ after.blocks[b].markdownAt = Later(placed.blocks[b].markdownAt, at)
      <3>1. placed \in Databases /\ at \in Nat BY <1>1, <2>4
      <3> QED BY <2>1, <2>5, <3>1, MarkdownEffect
    <2>7. Elsewhere(after, db, b)
      BY <2>3, <2>4, <2>6 DEF Elsewhere, BlockStays, RowStays, IsTombstoned
    <2>8. Placed(after, db, b, up, at)
      BY <1>5, <2>2, <2>3, <2>4, <2>6 DEF Placed
    <2> QED BY <2>7, <2>8 DEF after
  <1> QED BY <1>2, <1>3, <1>4, <1>5

LEMMA BlockSetMarkdownRows ==
  ASSUME NEW db \in Databases, NEW b \in Blocks, NEW at \in Stamp
  PROVE  LET after == BlockSetMarkdown(db, b, at)
         IN  /\ Elsewhere(after, db, b)
             /\ after.tombstones = db.tombstones /\ after.structure = db.structure
             /\ after.blocks[b].existence = db.blocks[b].existence
             /\ IsTombstoned(db, b) \/ ~BlockExists(db, b) => after.blocks[b] = db.blocks[b]
             /\ ~IsTombstoned(db, b) /\ BlockExists(db, b) =>
                  after.blocks[b].markdownAt = Later(db.blocks[b].markdownAt, at)
  <1>1. at \in Nat BY DEF Stamp
  <1>2. CASE IsTombstoned(db, b)
    BY <1>2 DEF BlockSetMarkdown, Elsewhere, BlockStays, RowStays
  <1>3. CASE ~IsTombstoned(db, b)
    <2> DEFINE after == ApplyMarkdown(db, b, at)
    <2>1. /\ after.pages = db.pages /\ after.structure = db.structure
          /\ after.tombstones = db.tombstones
          /\ after.blocks[b].existence = db.blocks[b].existence
          /\ \A c \in Blocks \ {b} : after.blocks[c] = db.blocks[c]
          /\ ~BlockExists(db, b) => after.blocks[b] = db.blocks[b]
          /\ BlockExists(db, b) =>
               after.blocks[b].markdownAt = Later(db.blocks[b].markdownAt, at)
      BY <1>1, MarkdownEffect
    <2>2. BlockSetMarkdown(db, b, at) = after BY <1>3 DEF BlockSetMarkdown
    <2> HIDE DEF after
    <2>3. Elsewhere(after, db, b) BY <2>1 DEF Elsewhere, BlockStays, RowStays, IsTombstoned
    <2> QED BY <1>3, <2>1, <2>2, <2>3
  <1> QED BY <1>2, <1>3

LEMMA BlockMoveRows ==
  ASSUME NEW db \in Databases, NEW b \in Blocks, NEW up \in Blocks \cup {None}, NEW at \in Stamp
  PROVE  LET after == BlockMove(db, b, up, at)
         IN  /\ Elsewhere(after, db, b)
             /\ after.tombstones = db.tombstones /\ after.blocks = db.blocks
             /\ IsTombstoned(db, b) => after.structure[b] = db.structure[b]
             /\ ~IsTombstoned(db, b) =>
                  after.structure[b] = IF db.structure[b].at < at THEN [at |-> at, parent |-> up]
                                                                  ELSE db.structure[b]
  <1>1. at \in Nat BY DEF Stamp
  <1>2. CASE IsTombstoned(db, b)
    BY <1>2 DEF BlockMove, Elsewhere, BlockStays, RowStays
  <1>3. CASE ~IsTombstoned(db, b)
    <2> DEFINE after == WriteStructureIntent(db, b, up, at)
    <2>1. /\ after.pages = db.pages /\ after.tombstones = db.tombstones /\ after.blocks = db.blocks
          /\ \A c \in Blocks \ {b} : after.structure[c] = db.structure[c]
          /\ after.structure[b] = IF db.structure[b].at < at THEN [at |-> at, parent |-> up]
                                                             ELSE db.structure[b]
      BY <1>1, IntentEffect
    <2>2. BlockMove(db, b, up, at) = after BY <1>3 DEF BlockMove
    <2> HIDE DEF after
    <2>3. Elsewhere(after, db, b) BY <2>1 DEF Elsewhere, BlockStays, RowStays, IsTombstoned
    <2> QED BY <1>3, <2>1, <2>2, <2>3
  <1> QED BY <1>2, <1>3

LEMMA BlockDeleteRows ==
  ASSUME NEW db \in Databases, NEW b \in Blocks, NEW at \in Stamp
  PROVE  LET after == BlockDelete(db, b, at)
         IN  /\ Elsewhere(after, db, b)
             /\ \/ after = db /\ db.blocks[b].existence > at
                \/ db.blocks[b].existence <= at /\ Buried(after, b)
                \/ /\ db.tombstones[b] > at
                   /\ after.blocks[b] = db.blocks[b] /\ after.structure[b] = db.structure[b]
                   /\ IsTombstoned(after, b)
  <1> DEFINE marked == WriteTombstones(db, {b}, at)
             empty  == DropBlocks(DropIntents(marked, {b}), {b})
             after  == BlockDelete(db, b, at)
  <1>0. at \in Nat /\ at > 0 /\ db.blocks[b].existence \in Nat /\ db.tombstones[b] \in Nat
    BY DEF Stamp, Databases, Objects
  <1>1. CASE db.blocks[b].existence > at
    BY <1>1 DEF BlockDelete, Elsewhere, BlockStays, RowStays
  <1>2. CASE ~(db.blocks[b].existence > at)
    <2>1. after = IF marked.tombstones[b] = at THEN empty ELSE marked BY <1>2 DEF BlockDelete
    <2>2. /\ Elsewhere(marked, db, b)
          /\ marked.blocks = db.blocks /\ marked.structure = db.structure
          /\ marked.tombstones[b] = Later(db.tombstones[b], at)
          /\ IsTombstoned(marked, b)
      BY <1>0, MarkBlockRows
    <2>3. marked \in Databases BY <1>0, MarkEffect
    <2> HIDE DEF marked, after
    <2>4. /\ empty.pages = marked.pages /\ empty.tombstones = marked.tombstones
          /\ \A c \in {b} : empty.blocks[c] = NoBlock /\ empty.structure[c] = NoIntent
          /\ \A c \in Blocks \ {b} : /\ RowStays(empty.blocks[c], marked.blocks[c])
                                    /\ empty.structure[c] = marked.structure[c]
      BY <2>3, IntentsThenRows
    <2> HIDE DEF empty
    <2>5. CASE marked.tombstones[b] = at
      <3>1. Elsewhere(empty, db, b)
        BY <2>2, <2>4 DEF Elsewhere, BlockStays, RowStays, IsTombstoned
      <3>2. Buried(empty, b) BY <2>2, <2>4 DEF Buried, IsTombstoned
      <3> QED BY <1>0, <1>2, <2>1, <2>5, <3>1, <3>2 DEF after
    <2>6. CASE marked.tombstones[b] # at
      <3>1. db.tombstones[b] > at BY <1>0, <2>2, <2>6 DEF Later
      <3> QED BY <2>1, <2>2, <2>6, <3>1 DEF after
    <2> QED BY <2>5, <2>6
  <1> QED BY <1>1, <1>2

-----------------------------------------------------------------------------
(* What a replica has heard of *)

\* Objects that are there or deleted: what apply looks for before it lets a block in.
HeardPages(db)  == {p \in Pages : PageExists(db, p) \/ IsTombstoned(db, p)}
HeardBlocks(db) == {b \in Blocks : BlockExists(db, b) \/ IsTombstoned(db, b)}
Heard(db)       == HeardPages(db) \cup HeardBlocks(db)

LEMMA HeardMembers ==
  ASSUME NEW db
  PROVE  /\ \A p \in Pages : p \in Heard(db) <=> PageExists(db, p) \/ IsTombstoned(db, p)
         /\ \A b \in Blocks : b \in Heard(db) <=> BlockExists(db, b) \/ IsTombstoned(db, b)
         /\ Heard(db) \subseteq Objects
  BY EngineAssumption DEF Heard, HeardPages, HeardBlocks, Objects

\* What each operation makes and needs.
LEMMA MakesAndNeeds ==
  /\ \A p \in Pages, t \in Titles \cup {None} :
       /\ Makes(PageCreates(p, t)) = {p} /\ Needs(PageCreates(p, t)) = {}
       /\ Makes(PageSetsTitle(p, t)) = {} /\ Needs(PageSetsTitle(p, t)) = {p}
  /\ \A p \in Pages : Makes(PageDeletes(p)) = {} /\ Needs(PageDeletes(p)) = {p}
  /\ \A b \in Blocks, u \in Blocks \cup {None} :
       /\ Makes(BlockCreates(b, u)) = {b} /\ Needs(BlockCreates(b, u)) = {PageOf[b]} \cup ({u} \ {None})
       /\ Makes(BlockMoves(b, u)) = {} /\ Needs(BlockMoves(b, u)) = {b} \cup ({u} \ {None})
  /\ \A b \in Blocks : /\ Makes(BlockSetsMarkdown(b)) = {} /\ Needs(BlockSetsMarkdown(b)) = {b}
                       /\ Makes(BlockDeletes(b)) = {} /\ Needs(BlockDeletes(b)) = {b, PageOf[b]}
  <1>1. ASSUME NEW p \in Pages, NEW t \in Titles \cup {None}
        PROVE  /\ Makes(PageCreates(p, t)) = {p} /\ Needs(PageCreates(p, t)) = {}
               /\ Makes(PageSetsTitle(p, t)) = {} /\ Needs(PageSetsTitle(p, t)) = {p}
    BY DEF Makes, Needs, ObjectOf, PageCreates, PageSetsTitle
  <1>2. ASSUME NEW p \in Pages
        PROVE  Makes(PageDeletes(p)) = {} /\ Needs(PageDeletes(p)) = {p}
    BY DEF Makes, Needs, ObjectOf, PageDeletes
  <1>3. ASSUME NEW b \in Blocks, NEW u \in Blocks \cup {None}
        PROVE  /\ Makes(BlockCreates(b, u)) = {b}
               /\ Needs(BlockCreates(b, u)) = {PageOf[b]} \cup ({u} \ {None})
    BY DEF Makes, Needs, ObjectOf, BlockCreates
  <1>4. ASSUME NEW b \in Blocks, NEW u \in Blocks \cup {None}
        PROVE  /\ Makes(BlockMoves(b, u)) = {}
               /\ Needs(BlockMoves(b, u)) = {b} \cup ({u} \ {None})
    BY DEF Makes, Needs, ObjectOf, BlockMoves
  <1>5. ASSUME NEW b \in Blocks
        PROVE  /\ Makes(BlockSetsMarkdown(b)) = {} /\ Needs(BlockSetsMarkdown(b)) = {b}
               /\ Makes(BlockDeletes(b)) = {} /\ Needs(BlockDeletes(b)) = {b, PageOf[b]}
    BY DEF Makes, Needs, ObjectOf, BlockSetsMarkdown, BlockDeletes
  <1> QED BY <1>1, <1>2, <1>3, <1>4, <1>5

\* Nothing is refused of which a replica has heard what it needs.
LEMMA HeardIsNotRefused ==
  ASSUME NEW db, NEW op, op.kind \in Kinds, Needs(op.kind) \subseteq Heard(db)
  PROVE  ~Refuses(db, op)
  <1> SUFFICES ASSUME op.kind.name = "BlockCreate"
               PROVE  IsTombstoned(db, PageOf[op.kind.block]) \/ PageExists(db, PageOf[op.kind.block])
    BY DEF Refuses
  <1>1. PICK b \in Blocks, u \in Blocks \cup {None} : op.kind = BlockCreates(b, u)
    BY KindCases DEF PageCreates, PageSetsTitle, PageDeletes, BlockSetsMarkdown, BlockMoves, BlockDeletes
  <1>2. PageOf[b] \in Heard(db) /\ op.kind.block = b
    BY <1>1, MakesAndNeeds DEF BlockCreates
  <1>3. PageOf[b] \in Pages BY EngineAssumption
  <1> QED BY <1>2, <1>3, HeardMembers

\* A database hears of what is there or tombstoned after a step, and of that only.
LEMMA NowHeard ==
  ASSUME NEW db, NEW after, NEW M \in SUBSET Objects,
         \A p \in Pages : PageExists(after, p) \/ IsTombstoned(after, p)
                          <=> PageExists(db, p) \/ IsTombstoned(db, p) \/ p \in M,
         \A b \in Blocks : BlockExists(after, b) \/ IsTombstoned(after, b)
                           <=> BlockExists(db, b) \/ IsTombstoned(db, b) \/ b \in M
  PROVE  Heard(after) = Heard(db) \cup M
  BY HeardMembers DEF Objects

LEMMA StaysHeard ==
  ASSUME NEW db, NEW after, NEW p, NEW b, StaysOrGoes(after, db, p, b)
  PROVE  BlockExists(after, b) \/ IsTombstoned(after, b) <=> BlockExists(db, b) \/ IsTombstoned(db, b)
  BY DEF StaysOrGoes, BlockStays, Buried, RowStays, BlockExists

LEMMA ElsewhereHeard ==
  ASSUME NEW db, NEW after, NEW b \in Blocks, NEW M \in SUBSET {b}, Elsewhere(after, db, b),
         BlockExists(after, b) \/ IsTombstoned(after, b)
         <=> BlockExists(db, b) \/ IsTombstoned(db, b) \/ b \in M
  PROVE  Heard(after) = Heard(db) \cup M
  <1>1. \A p \in Pages : p \notin M /\ (PageExists(after, p) \/ IsTombstoned(after, p)
                                        <=> PageExists(db, p) \/ IsTombstoned(db, p))
    BY EngineAssumption DEF Elsewhere, PageExists, IsTombstoned
  <1>2. \A c \in Blocks \ {b} : BlockExists(after, c) \/ IsTombstoned(after, c)
                               <=> BlockExists(db, c) \/ IsTombstoned(db, c)
    BY DEF Elsewhere, BlockStays, RowStays, BlockExists
  <1>3. M \in SUBSET Objects BY DEF Objects
  <1> QED BY <1>1, <1>2, <1>3, NowHeard

\* A replica hears of what an operation makes, of nothing else, and forgets
\* nothing, if it has heard of what the operation needs (apply_one_with_effects).
THEOREM ApplyHears ==
  ASSUME NEW db \in Databases, Consistent(db), NEW op, op.kind \in Kinds, op.at \in Stamp,
         Needs(op.kind) \subseteq Heard(db)
  PROVE  Heard(Apply(db, op)) = Heard(db) \cup Makes(op.kind)
  <1> DEFINE k     == op.kind
             after == Apply(db, op)
             Goal  == Heard(after) = Heard(db) \cup Makes(k)
  <1> SUFFICES Goal OBVIOUS
  <1>0. op.at \in Nat /\ op.at > 0 BY DEF Stamp
  <1>1. ASSUME NEW p \in Pages, NEW t \in Titles \cup {None}, k = PageCreates(p, t) PROVE Goal
    <2>1. after = PageCreate(db, p, t, op.at) BY <1>1 DEF Apply, PageCreates
    <2>2. Makes(k) = {p} /\ p \in Objects BY <1>1, MakesAndNeeds DEF Objects
    <2>3. /\ db.tombstones[p] \in Nat /\ db.pages[p].existence \in Nat BY <2>2 DEF Databases
    <2> HIDE DEF after
    <2>4. /\ Created(after, db, p, t, op.at)
          /\ \A q \in Pages \ {p} : PageStays(after, db, q, t) /\ after.tombstones[q] = db.tombstones[q]
          /\ \A b \in Blocks : StaysOrGoes(after, db, p, b)
      BY <2>1, PageCreateRows
    <2>5. PageExists(after, p) \/ IsTombstoned(after, p)
      <3>1. Later(db.pages[p].existence, op.at) > 0 BY <1>0, <2>3, LaterIsLater
      <3> QED BY <1>0, <2>3, <2>4, <3>1 DEF Created, PageExists, IsTombstoned
    <2>6. \A q \in Pages : PageExists(after, q) \/ IsTombstoned(after, q)
                           <=> PageExists(db, q) \/ IsTombstoned(db, q) \/ q \in {p}
      BY <2>4, <2>5 DEF PageStays, PageExists, IsTombstoned
    <2>7. \A b \in Blocks : b \notin {p} /\ (BlockExists(after, b) \/ IsTombstoned(after, b)
                                             <=> BlockExists(db, b) \/ IsTombstoned(db, b))
      BY <2>4, StaysHeard, EngineAssumption
    <2> QED BY <2>2, <2>6, <2>7, NowHeard
  <1>2. ASSUME NEW p \in Pages, NEW t \in Titles \cup {None}, k = PageSetsTitle(p, t) PROVE Goal
    <2>1. after = PageSetTitle(db, p, t, op.at) BY <1>2 DEF Apply, PageSetsTitle
    <2>2. Makes(k) = {} BY <1>2, MakesAndNeeds
    <2> HIDE DEF after
    <2>3. /\ after.blocks = db.blocks /\ after.tombstones = db.tombstones
          /\ \A q \in Pages \ {p} : PageStays(after, db, q, t)
          /\ after.pages[p].existence = db.pages[p].existence
      BY <2>1, PageSetTitleRows
    <2>4. {} \in SUBSET Objects OBVIOUS
    <2>5. \A q \in Pages : PageExists(after, q) \/ IsTombstoned(after, q)
                           <=> PageExists(db, q) \/ IsTombstoned(db, q) \/ q \in {}
      BY <2>3 DEF PageStays, PageExists, IsTombstoned
    <2>6. \A b \in Blocks : BlockExists(after, b) \/ IsTombstoned(after, b)
                            <=> BlockExists(db, b) \/ IsTombstoned(db, b) \/ b \in {}
      BY <2>3 DEF BlockExists, IsTombstoned
    <2>7. Heard(after) = Heard(db) \cup {}
      BY ONLY <2>4, <2>5, <2>6, NowHeard
    <2> QED BY <2>2, <2>7
  <1>3. ASSUME NEW p \in Pages, k = PageDeletes(p) PROVE Goal
    <2>1. after = PageDelete(db, p, op.at) BY <1>3 DEF Apply, PageDeletes
    <2>2. Makes(k) = {} /\ p \in Heard(db) BY <1>3, MakesAndNeeds
    <2> HIDE DEF after
    <2>3. /\ \A q \in Pages \ {p} : after.pages[q] = db.pages[q] /\ after.tombstones[q] = db.tombstones[q]
          /\ \A b \in Blocks : StaysOrGoes(after, db, p, b)
          /\ after = db \/ IsTombstoned(after, p)
      BY <2>1, PageDeleteRows
    <2>4. PageExists(db, p) \/ IsTombstoned(db, p) BY <2>2, HeardMembers
    <2>5. \A q \in Pages : PageExists(after, q) \/ IsTombstoned(after, q)
                           <=> PageExists(db, q) \/ IsTombstoned(db, q) \/ q \in {}
      BY <2>3, <2>4 DEF PageExists, IsTombstoned
    <2>6. \A b \in Blocks : BlockExists(after, b) \/ IsTombstoned(after, b)
                            <=> BlockExists(db, b) \/ IsTombstoned(db, b) \/ b \in {}
      BY <2>3, StaysHeard
    <2>7. {} \in SUBSET Objects OBVIOUS
    <2> QED BY <2>2, <2>5, <2>6, <2>7, NowHeard
  <1>4. ASSUME NEW b \in Blocks, NEW u \in Blocks \cup {None}, k = BlockCreates(b, u) PROVE Goal
    <2>1. after = BlockCreate(db, b, u, op.at) BY <1>4 DEF Apply, BlockCreates
    <2>2. Makes(k) = {b} BY <1>4, MakesAndNeeds
    <2>3. db.blocks[b].existence \in Nat /\ db.tombstones[b] \in Nat BY DEF Databases, Objects
    <2> HIDE DEF after
    <2>4. Elsewhere(after, db, b) /\ Placed(after, db, b, u, op.at) BY <2>1, BlockCreateRows
    <2>5. BlockExists(after, b) \/ IsTombstoned(after, b)
      <3>1. Later(db.blocks[b].existence, op.at) > 0 BY <1>0, <2>3, LaterIsLater
      <3> QED BY <1>0, <2>3, <2>4, <3>1 DEF Placed, BlockExists, IsTombstoned
    <2>6. Heard(after) = Heard(db) \cup {b} BY <2>4, <2>5, ElsewhereHeard
    <2> QED BY <2>2, <2>6
  <1>5. ASSUME NEW b \in Blocks, k = BlockSetsMarkdown(b) PROVE Goal
    <2>1. after = BlockSetMarkdown(db, b, op.at) BY <1>5 DEF Apply, BlockSetsMarkdown
    <2>2. Makes(k) = {} BY <1>5, MakesAndNeeds
    <2> HIDE DEF after
    <2>3. /\ Elsewhere(after, db, b) /\ after.tombstones = db.tombstones
          /\ after.blocks[b].existence = db.blocks[b].existence
      BY <2>1, BlockSetMarkdownRows
    <2>4. Heard(after) = Heard(db) \cup {}
      BY <2>3, ElsewhereHeard DEF BlockExists, IsTombstoned
    <2> QED BY <2>2, <2>4
  <1>6. ASSUME NEW b \in Blocks, NEW u \in Blocks \cup {None}, k = BlockMoves(b, u) PROVE Goal
    <2>1. after = BlockMove(db, b, u, op.at) BY <1>6 DEF Apply, BlockMoves
    <2>2. Makes(k) = {} BY <1>6, MakesAndNeeds
    <2> HIDE DEF after
    <2>3. Elsewhere(after, db, b) /\ after.tombstones = db.tombstones /\ after.blocks = db.blocks
      BY <2>1, BlockMoveRows
    <2>4. Heard(after) = Heard(db) \cup {}
      BY <2>3, ElsewhereHeard DEF BlockExists, IsTombstoned
    <2> QED BY <2>2, <2>4
  <1>7. ASSUME NEW b \in Blocks, k = BlockDeletes(b) PROVE Goal
    <2>1. after = BlockDelete(db, b, op.at) BY <1>7 DEF Apply, BlockDeletes
    <2>2. Makes(k) = {} /\ b \in Heard(db) BY <1>7, MakesAndNeeds
    <2> HIDE DEF after
    <2>3. Elsewhere(after, db, b) /\ (after = db \/ IsTombstoned(after, b))
      BY <2>1, BlockDeleteRows DEF Buried
    <2>4. BlockExists(db, b) \/ IsTombstoned(db, b) BY <2>2, HeardMembers
    <2>5. Heard(after) = Heard(db) \cup {} BY <2>3, <2>4, ElsewhereHeard
    <2> QED BY <2>2, <2>5
  <1> QED BY <1>1, <1>2, <1>3, <1>4, <1>5, <1>6, <1>7, KindCases

-----------------------------------------------------------------------------
(* What a replica shows of the operations it has applied *)

\* What an operation of this kind says: a page's title, a block's text, where a
\* block is, that an object is deleted.
Naming(k, p)   == k.name \in {"PageCreate", "PageSetTitle"} /\ k.page = p
Texting(k, b)  == k.name \in {"BlockCreate", "BlockSetMarkdown"} /\ k.block = b
Placing(k, b)  == k.name \in {"BlockCreate", "BlockMove"} /\ k.block = b
Deleting(k, o) == k.name \in {"PageDelete", "BlockDelete"} /\ ObjectOf(k) = o

\* The same of the operations A that were applied, in whatever order.
Made(A)       == UNION {Makes(x.kind) : x \in A}
Once(A, o)    == \A x, y \in A : o \in Makes(x.kind) /\ o \in Makes(y.kind) => x = y
Deleted(A, o) == \E x \in A : Deleting(x.kind, o)
Gone(A, b)    == Deleted(A, PageOf[b]) \/ Deleted(A, b)
Names(A, p)   == {x \in A : Naming(x.kind, p)}
Texts(A, b)   == {x \in A : Texting(x.kind, b)}
Places(A, b)  == {x \in A : Placing(x.kind, b)}

TitlesOf(A, p) == {x.kind.title : x \in Names(A, p)} \ {None}
Alone(A, p)    == \A q \in Pages \ {p} : TitlesOf(A, p) \cap TitlesOf(A, q) = {}

Latest(X, x) == x \in X /\ \A y \in X : y.at <= x.at

\* A row that is not there is empty, and a title was given to the page.
PageTidy(db, A, p) ==
  /\ ~PageExists(db, p) => db.pages[p] = NoPage
  /\ db.pages[p].title # None => db.pages[p].title \in TitlesOf(A, p)

\* A page that was created once is as the operations say, whatever their order:
\* not there if it was deleted, with its latest title unless another page claims it.
PageKept(db, A, p) ==
  Once(A, p) =>
    /\ Deleted(A, p) => ~PageExists(db, p)
    /\ ~Deleted(A, p) => \A x \in A : p \in Makes(x.kind) => db.pages[p].existence = x.at
    /\ ~Deleted(A, p) /\ Alone(A, p) /\ p \in Made(A) =>
         \E x \in A : /\ Latest(Names(A, p), x)
                      /\ db.pages[p].titleAt = x.at /\ db.pages[p].title = x.kind.title

\* A journal has the earliest stamp it was ensured with.
JournalKept(db, A, p) ==
  p \in Journals /\ ~Deleted(A, p) /\ p \in Made(A) =>
    /\ \E x \in A : p \in Makes(x.kind) /\ db.pages[p].existence = x.at
    /\ \A x \in A : p \in Makes(x.kind) => db.pages[p].existence <= x.at

PageShown(db, A, p) == PageTidy(db, A, p) /\ PageKept(db, A, p) /\ JournalKept(db, A, p)

\* A block that is there has a place, and one that is not has nothing.
BlockTidy(db, b) ==
  /\ BlockExists(db, b) =>
       /\ db.structure[b].at > 0
       /\ db.structure[b].parent \in PlacesOf(b)
       /\ db.structure[b].parent # None => db.structure[b].parent \in Heard(db)
  /\ ~BlockExists(db, b) => db.blocks[b] = NoBlock /\ db.structure[b] = NoIntent

\* A block that was created once, on a page that was, has its latest text and
\* its latest place, or is gone.
BlockKept(db, A, b) ==
  Once(A, b) /\ Once(A, PageOf[b]) /\ b \in Made(A) =>
    /\ Gone(A, b) => ~BlockExists(db, b)
    /\ ~Gone(A, b) =>
         /\ ~IsTombstoned(db, b)
         /\ \A x \in A : b \in Makes(x.kind) => db.blocks[b].existence = x.at
         /\ \E x \in A : Latest(Texts(A, b), x) /\ db.blocks[b].markdownAt = x.at
         /\ \E x \in A : Latest(Places(A, b), x) /\ db.structure[b] = [at |-> x.at, parent |-> x.kind.parent]

BlockShown(db, A, b) == BlockTidy(db, b) /\ BlockKept(db, A, b)

Shows(db, A) ==
  /\ Consistent(db) /\ Heard(db) = Made(A)
  /\ \A p \in Pages : PageShown(db, A, p)
  /\ \A b \in Blocks : BlockShown(db, A, b)

\* What an operation needs was made before it.
Grounds(A, x) == \A o \in Needs(x.kind) : \E c \in A : o \in Makes(c.kind) /\ c.at < x.at

\* Operations that could have been written, and one that comes to them.
Past(A)     == \A x \in A : x.at \in Stamp /\ x.kind \in Kinds /\ Grounds(A, x)
Joins(A, x) == x \notin A /\ x.at \in Stamp /\ x.kind \in Kinds /\ Grounds(A, x)

LEMMA PastGrows == ASSUME NEW A, NEW x, Past(A), Joins(A, x) PROVE Past(A \cup {x})
  BY DEF Past, Joins, Grounds

\* What each operation says, and nothing else.
LEMMA PageCreatesSays ==
  ASSUME NEW o, NEW p \in Pages, NEW t \in Titles \cup {None}
  PROVE  /\ PageCreates(p, t).title = t
         /\ (Naming(PageCreates(p, t), o) <=> o = p)
         /\ ~Texting(PageCreates(p, t), o)
         /\ ~Placing(PageCreates(p, t), o)
         /\ ~Deleting(PageCreates(p, t), o)
  BY DEF Naming, Texting, Placing, Deleting, ObjectOf, PageCreates

LEMMA PageSetsTitleSays ==
  ASSUME NEW o, NEW p \in Pages, NEW t \in Titles \cup {None}
  PROVE  /\ PageSetsTitle(p, t).title = t
         /\ (Naming(PageSetsTitle(p, t), o) <=> o = p)
         /\ ~Texting(PageSetsTitle(p, t), o)
         /\ ~Placing(PageSetsTitle(p, t), o)
         /\ ~Deleting(PageSetsTitle(p, t), o)
  BY DEF Naming, Texting, Placing, Deleting, ObjectOf, PageSetsTitle

LEMMA PageDeletesSays ==
  ASSUME NEW o, NEW p \in Pages
  PROVE  /\ ~Naming(PageDeletes(p), o)
         /\ ~Texting(PageDeletes(p), o)
         /\ ~Placing(PageDeletes(p), o)
         /\ (Deleting(PageDeletes(p), o) <=> o = p)
  BY DEF Naming, Texting, Placing, Deleting, ObjectOf, PageDeletes

LEMMA BlockCreatesSays ==
  ASSUME NEW o, NEW b \in Blocks, NEW u \in Blocks \cup {None}
  PROVE  /\ BlockCreates(b, u).parent = u
         /\ ~Naming(BlockCreates(b, u), o)
         /\ (Texting(BlockCreates(b, u), o) <=> o = b)
         /\ (Placing(BlockCreates(b, u), o) <=> o = b)
         /\ ~Deleting(BlockCreates(b, u), o)
  BY DEF Naming, Texting, Placing, Deleting, ObjectOf, BlockCreates

LEMMA BlockSetsMarkdownSays ==
  ASSUME NEW o, NEW b \in Blocks
  PROVE  /\ ~Naming(BlockSetsMarkdown(b), o)
         /\ (Texting(BlockSetsMarkdown(b), o) <=> o = b)
         /\ ~Placing(BlockSetsMarkdown(b), o)
         /\ ~Deleting(BlockSetsMarkdown(b), o)
  BY DEF Naming, Texting, Placing, Deleting, ObjectOf, BlockSetsMarkdown

LEMMA BlockMovesSays ==
  ASSUME NEW o, NEW b \in Blocks, NEW u \in Blocks \cup {None}
  PROVE  /\ BlockMoves(b, u).parent = u
         /\ ~Naming(BlockMoves(b, u), o)
         /\ ~Texting(BlockMoves(b, u), o)
         /\ (Placing(BlockMoves(b, u), o) <=> o = b)
         /\ ~Deleting(BlockMoves(b, u), o)
  BY DEF Naming, Texting, Placing, Deleting, ObjectOf, BlockMoves

LEMMA BlockDeletesSays ==
  ASSUME NEW o, NEW b \in Blocks
  PROVE  /\ ~Naming(BlockDeletes(b), o)
         /\ ~Texting(BlockDeletes(b), o)
         /\ ~Placing(BlockDeletes(b), o)
         /\ (Deleting(BlockDeletes(b), o) <=> o = b)
  BY DEF Naming, Texting, Placing, Deleting, ObjectOf, BlockDeletes

\* What is said of an object is said by an operation that makes or needs it.
LEMMA SaidOfMadeOrNeeded ==
  ASSUME NEW k \in Kinds, NEW o, Naming(k, o) \/ Texting(k, o) \/ Placing(k, o) \/ Deleting(k, o)
  PROVE  o \in Makes(k) \cup Needs(k)
  <1> DEFINE Goal == o \in Makes(k) \cup Needs(k)
  <1>1. ASSUME NEW p \in Pages, NEW t \in Titles \cup {None}, k = PageCreates(p, t) \/ k = PageSetsTitle(p, t)
        PROVE Goal
    BY <1>1, MakesAndNeeds, PageCreatesSays, PageSetsTitleSays
  <1>2. ASSUME NEW p \in Pages, k = PageDeletes(p) PROVE Goal
    BY <1>2, MakesAndNeeds, PageDeletesSays
  <1>3. ASSUME NEW b \in Blocks, NEW u \in Blocks \cup {None}, k = BlockCreates(b, u) \/ k = BlockMoves(b, u)
        PROVE Goal
    BY <1>3, MakesAndNeeds, BlockCreatesSays, BlockMovesSays
  <1>4. ASSUME NEW b \in Blocks, k = BlockSetsMarkdown(b) \/ k = BlockDeletes(b) PROVE Goal
    BY <1>4, MakesAndNeeds, BlockSetsMarkdownSays, BlockDeletesSays
  <1> QED BY <1>1, <1>2, <1>3, <1>4, KindCases

\* Nothing was said of an object that was not made.
LEMMA SaidOfMade ==
  ASSUME NEW A, Past(A), NEW o, o \notin Made(A)
  PROVE  /\ ~Deleted(A, o)
         /\ Names(A, o) = {} /\ Texts(A, o) = {} /\ Places(A, o) = {}
         /\ \A y \in A : o \notin Makes(y.kind)
  <1>1. ASSUME NEW y \in A PROVE o \notin Makes(y.kind) BY DEF Made
  <1>2. ASSUME NEW y \in A PROVE o \notin Needs(y.kind)
    BY <1>1 DEF Past, Grounds
  <1>3. ASSUME NEW y \in A
        PROVE  ~Naming(y.kind, o) /\ ~Texting(y.kind, o) /\ ~Placing(y.kind, o) /\ ~Deleting(y.kind, o)
    BY <1>1, <1>2, SaidOfMadeOrNeeded DEF Past
  <1> QED BY <1>1, <1>3 DEF Deleted, Names, Texts, Places

LEMMA NeedsAreMade ==
  ASSUME NEW A, NEW x, Grounds(A, x), NEW o \in Needs(x.kind)
  PROVE  o \in Made(A) /\ \E c \in A : o \in Makes(c.kind) /\ c.at < x.at
  BY DEF Grounds, Made

\* An operation that joins the others adds what it says.
LEMMA Grown ==
  ASSUME NEW A, NEW x, NEW o
  PROVE  LET B == A \cup {x}
         IN  /\ o \in Made(B) <=> o \in Made(A) \/ o \in Makes(x.kind)
             /\ Once(B, o) => Once(A, o)
             /\ Deleted(B, o) <=> Deleted(A, o) \/ Deleting(x.kind, o)
             /\ Naming(x.kind, o)   => Names(B, o) = Names(A, o) \cup {x}
             /\ ~Naming(x.kind, o)  => Names(B, o) = Names(A, o)
             /\ Texting(x.kind, o)  => Texts(B, o) = Texts(A, o) \cup {x}
             /\ ~Texting(x.kind, o) => Texts(B, o) = Texts(A, o)
             /\ Placing(x.kind, o)  => Places(B, o) = Places(A, o) \cup {x}
             /\ ~Placing(x.kind, o) => Places(B, o) = Places(A, o)
  <1> DEFINE B == A \cup {x}
  <1>1. o \in Made(B) <=> o \in Made(A) \/ o \in Makes(x.kind) BY DEF Made
  <1>2. Once(B, o) => Once(A, o) BY DEF Once
  <1>3. Deleted(B, o) <=> Deleted(A, o) \/ Deleting(x.kind, o) BY DEF Deleted
  <1>4. Naming(x.kind, o)  => Names(B, o)  = Names(A, o)  \cup {x} BY DEF Names
  <1>5. ~Naming(x.kind, o)  => Names(B, o)  = Names(A, o) BY DEF Names
  <1>6. Texting(x.kind, o) => Texts(B, o)  = Texts(A, o)  \cup {x} BY DEF Texts
  <1>7. ~Texting(x.kind, o) => Texts(B, o)  = Texts(A, o) BY DEF Texts
  <1>8. Placing(x.kind, o) => Places(B, o) = Places(A, o) \cup {x} BY DEF Places
  <1>9. ~Placing(x.kind, o) => Places(B, o) = Places(A, o) BY DEF Places
  <1> QED BY <1>1, <1>2, <1>3, <1>4, <1>5, <1>6, <1>7, <1>8, <1>9

LEMMA TitlesGrow ==
  ASSUME NEW A, NEW x, NEW p
  PROVE  LET B == A \cup {x}
         IN  /\ TitlesOf(A, p) \subseteq TitlesOf(B, p)
             /\ Naming(x.kind, p) /\ x.kind.title # None => x.kind.title \in TitlesOf(B, p)
             /\ Alone(B, p) => Alone(A, p)
  <1>1. \A q : TitlesOf(A, q) \subseteq TitlesOf(A \cup {x}, q) BY DEF TitlesOf, Names
  <1>2. Naming(x.kind, p) /\ x.kind.title # None => x.kind.title \in TitlesOf(A \cup {x}, p)
    BY DEF TitlesOf, Names
  <1>3. Alone(A \cup {x}, p) => Alone(A, p) BY <1>1 DEF Alone
  <1> QED BY <1>1, <1>2, <1>3

\* Who makes for the second time what was made before is not the first.
LEMMA MadeOnce ==
  ASSUME NEW A, NEW x, x \notin A, NEW o \in Makes(x.kind), Once(A \cup {x}, o)
  PROVE  o \notin Made(A)
  BY DEF Once, Made

\* Of the operations on a register and a newer one the newer is the latest; a
\* latest one stays so when an older one comes.
LEMMA LatestGrows ==
  ASSUME NEW X, NEW y, Latest(X, y), NEW x, x.at \in Nat, y.at \in Nat, \A z \in X : z.at \in Nat
  PROVE  /\ y.at < x.at => Latest(X \cup {x}, x)
         /\ x.at <= y.at => Latest(X \cup {x}, y)
         /\ Latest(X \cup {}, y)
  BY DEF Latest

\* A page of which nothing is said keeps what it shows: it loses its title only
\* to a page that claims it.
LEMMA QuietPage ==
  ASSUME NEW db \in Databases, NEW after \in Databases, NEW A, NEW x, NEW p \in Pages,
         PageShown(db, A, p), NEW t, PageStays(after, db, p, t),
         p \notin Makes(x.kind), ~Naming(x.kind, p), ~Deleting(x.kind, p),
         t = None \/ \E q \in Pages \ {p} : Naming(x.kind, q) /\ x.kind.title = t
  PROVE  PageShown(after, A \cup {x}, p)
  <1> DEFINE B == A \cup {x}
  <1>1. /\ Once(B, p) => Once(A, p)
        /\ Deleted(B, p) <=> Deleted(A, p)
        /\ Names(B, p) = Names(A, p)
        /\ Alone(B, p) => Alone(A, p)
        /\ TitlesOf(A, p) \subseteq TitlesOf(B, p)
        /\ p \in Made(B) <=> p \in Made(A)
    BY Grown, TitlesGrow
  <1>2. A \subseteq B /\ \A y \in B : p \in Makes(y.kind) <=> y \in A /\ p \in Makes(y.kind) OBVIOUS
  <1>3. after.pages[p].title # db.pages[p].title => ~Alone(B, p)
    <2> SUFFICES ASSUME after.pages[p].title # db.pages[p].title PROVE ~Alone(B, p) OBVIOUS
    <2>1. t # None /\ db.pages[p].title = t BY DEF PageStays
    <2>2. PICK q \in Pages \ {p} : Naming(x.kind, q) /\ x.kind.title = t BY <2>1
    <2>3. t \in TitlesOf(B, q) BY <2>1, <2>2, TitlesGrow
    <2>4. t \in TitlesOf(B, p) BY <1>1, <2>1 DEF PageShown, PageTidy
    <2> QED BY <2>2, <2>3, <2>4 DEF Alone
  <1>4. PageTidy(after, B, p)
    <2>1. after.pages[p] \in [existence : Nat, title : Titles \cup {None}, titleAt : Nat] BY DEF Databases
    <2>2. after.pages[p].title # None => after.pages[p].title \in TitlesOf(B, p)
      BY <1>1 DEF PageShown, PageTidy, PageStays
    <2>3. ~PageExists(after, p) => after.pages[p] = NoPage
      BY <2>1 DEF PageShown, PageTidy, PageStays, PageExists, NoPage
    <2> QED BY <2>2, <2>3 DEF PageTidy
  <1> HIDE DEF B
  <1>5. PageKept(after, B, p)
    <2>1. PageKept(db, A, p) BY DEF PageShown
    <2>2. after.pages[p].existence = db.pages[p].existence /\ after.pages[p].titleAt = db.pages[p].titleAt
      BY DEF PageStays
    <2> SUFFICES ASSUME Once(B, p)
                 PROVE  /\ Deleted(A, p) => ~PageExists(after, p)
                        /\ ~Deleted(A, p) => \A y \in B : p \in Makes(y.kind) => after.pages[p].existence = y.at
                        /\ ~Deleted(A, p) /\ Alone(B, p) /\ p \in Made(A) =>
                             \E y \in B : /\ Latest(Names(A, p), y)
                                          /\ after.pages[p].titleAt = y.at /\ after.pages[p].title = y.kind.title
      BY <1>1 DEF PageKept
    <2>3. Once(A, p) BY <1>1
    <2>4. Deleted(A, p) => ~PageExists(after, p) BY <2>1, <2>2, <2>3 DEF PageKept, PageExists
    <2>5. ~Deleted(A, p) => \A y \in B : p \in Makes(y.kind) => after.pages[p].existence = y.at
      BY <1>2, <2>1, <2>2, <2>3 DEF PageKept
    <2>6. ASSUME ~Deleted(A, p), Alone(B, p), p \in Made(A)
          PROVE  \E y \in B : /\ Latest(Names(A, p), y)
                              /\ after.pages[p].titleAt = y.at /\ after.pages[p].title = y.kind.title
      <3>1. PICK y \in A : /\ Latest(Names(A, p), y)
                           /\ db.pages[p].titleAt = y.at /\ db.pages[p].title = y.kind.title
        BY <1>1, <2>1, <2>3, <2>6 DEF PageKept
      <3>2. after.pages[p].title = db.pages[p].title BY <1>3, <2>6
      <3>3. y \in B BY DEF B
      <3> QED BY <2>2, <3>1, <3>2, <3>3
    <2> QED BY <2>4, <2>5, <2>6
  <1>6. JournalKept(after, B, p)
    <2>1. JournalKept(db, A, p) BY DEF PageShown
    <2>2. after.pages[p].existence = db.pages[p].existence BY DEF PageStays
    <2> SUFFICES ASSUME p \in Journals, ~Deleted(A, p), p \in Made(A)
                 PROVE  /\ \E y \in B : p \in Makes(y.kind) /\ after.pages[p].existence = y.at
                        /\ \A y \in B : p \in Makes(y.kind) => after.pages[p].existence <= y.at
      BY <1>1 DEF JournalKept
    <2> QED BY <1>2, <2>1, <2>2 DEF JournalKept
  <1> QED BY <1>4, <1>5, <1>6 DEF PageShown, B

\* So does a block of which nothing is said.
LEMMA TidyBlockStays ==
  ASSUME NEW db \in Databases, NEW after \in Databases, NEW b \in Blocks,
         BlockTidy(db, b), BlockStays(after, db, b), Heard(db) \subseteq Heard(after)
  PROVE  BlockTidy(after, b) /\ (BlockExists(after, b) <=> BlockExists(db, b))
  <1>1. /\ after.blocks[b] \in [existence : Nat, parent : Blocks \cup {None}, markdownAt : Nat]
        /\ db.blocks[b] \in [existence : Nat, parent : Blocks \cup {None}, markdownAt : Nat]
    BY DEF Databases
  <1>2. BlockExists(after, b) <=> BlockExists(db, b) BY DEF BlockStays, RowStays, BlockExists
  <1>3. ~BlockExists(after, b) => after.blocks[b] = NoBlock
    BY <1>1, <1>2 DEF BlockTidy, BlockStays, RowStays, NoBlock
  <1>4. after.structure[b] = db.structure[b] BY DEF BlockStays
  <1> QED BY <1>2, <1>3, <1>4 DEF BlockTidy

LEMMA QuietBlock ==
  ASSUME NEW db \in Databases, NEW after \in Databases, NEW A, NEW x, NEW b \in Blocks,
         BlockShown(db, A, b), BlockStays(after, db, b), Heard(db) \subseteq Heard(after),
         b \notin Makes(x.kind), ~Texting(x.kind, b), ~Placing(x.kind, b),
         ~Deleting(x.kind, b), ~Deleting(x.kind, PageOf[b])
  PROVE  BlockShown(after, A \cup {x}, b)
  <1> DEFINE B == A \cup {x}
  <1>1. /\ Once(B, b) => Once(A, b)
        /\ b \in Made(B) <=> b \in Made(A)
        /\ Texts(B, b) = Texts(A, b) /\ Places(B, b) = Places(A, b)
        /\ Deleted(B, b) <=> Deleted(A, b)
    BY Grown
  <1>2. /\ Once(B, PageOf[b]) => Once(A, PageOf[b])
        /\ Deleted(B, PageOf[b]) <=> Deleted(A, PageOf[b])
    BY Grown
  <1>3. Gone(B, b) <=> Gone(A, b) BY <1>1, <1>2 DEF Gone
  <1>4. A \subseteq B /\ \A y \in B : b \in Makes(y.kind) <=> y \in A /\ b \in Makes(y.kind) OBVIOUS
  <1>5. BlockTidy(after, b) /\ (BlockExists(after, b) <=> BlockExists(db, b))
    BY TidyBlockStays DEF BlockShown
  <1> HIDE DEF B
  <1>6. BlockKept(after, B, b)
    <2> SUFFICES ASSUME Once(B, b), Once(B, PageOf[b]), b \in Made(B)
                 PROVE  /\ Gone(B, b) => ~BlockExists(after, b)
                        /\ ~Gone(B, b) =>
                             /\ ~IsTombstoned(after, b)
                             /\ \A y \in B : b \in Makes(y.kind) => after.blocks[b].existence = y.at
                             /\ \E y \in B : Latest(Texts(B, b), y) /\ after.blocks[b].markdownAt = y.at
                             /\ \E y \in B : /\ Latest(Places(B, b), y)
                                             /\ after.structure[b] = [at |-> y.at, parent |-> y.kind.parent]
      BY DEF BlockKept
    <2>1. Gone(B, b) => ~BlockExists(after, b) BY <1>1, <1>2, <1>3, <1>5 DEF BlockShown, BlockKept
    <2>2. ~Gone(B, b) =>
            /\ ~IsTombstoned(db, b)
            /\ \A y \in A : b \in Makes(y.kind) => db.blocks[b].existence = y.at
            /\ \E y \in A : Latest(Texts(B, b), y) /\ db.blocks[b].markdownAt = y.at
            /\ \E y \in A : /\ Latest(Places(B, b), y)
                            /\ db.structure[b] = [at |-> y.at, parent |-> y.kind.parent]
      BY <1>1, <1>2, <1>3 DEF BlockShown, BlockKept
    <2>3. /\ after.blocks[b].existence = db.blocks[b].existence
          /\ after.blocks[b].markdownAt = db.blocks[b].markdownAt
          /\ after.structure[b] = db.structure[b]
          /\ IsTombstoned(after, b) <=> IsTombstoned(db, b)
      BY DEF BlockStays, RowStays
    <2> QED BY <1>4, <2>1, <2>2, <2>3
  <1> QED BY <1>5, <1>6 DEF BlockShown, B

\* A replica that shows what it has applied, and an operation that comes to it.
Meets(db, A, x) == db \in Databases /\ Shows(db, A) /\ Past(A) /\ Joins(A, x)

LEMMA WhatMeets ==
  ASSUME NEW db, NEW A, NEW x, Meets(db, A, x)
  PROVE  LET after == Apply(db, x)
         IN  /\ after \in Databases /\ Consistent(after)
             /\ Heard(after) = Made(A \cup {x}) /\ Heard(db) \subseteq Heard(after)
             /\ ~Refuses(db, x)
             /\ x.at \in Nat /\ x.at > 0
             /\ Needs(x.kind) \subseteq Made(A)
  <1>1. /\ db \in Databases /\ Consistent(db) /\ Heard(db) = Made(A)
        /\ x.kind \in Kinds /\ x.at \in Stamp /\ Grounds(A, x)
    BY DEF Meets, Shows, Joins
  <1>2. Needs(x.kind) \subseteq Made(A) BY <1>1, NeedsAreMade
  <1>3. ~Refuses(db, x) BY <1>1, <1>2, HeardIsNotRefused
  <1>4. Apply(db, x) \in Databases /\ Consistent(Apply(db, x)) BY <1>1, <1>3, ApplyKeepsConsistency
  <1>5. Heard(Apply(db, x)) = Heard(db) \cup Makes(x.kind) BY <1>1, <1>2, ApplyHears
  <1>6. Made(A \cup {x}) = Made(A) \cup Makes(x.kind) BY DEF Made
  <1> QED BY <1>1, <1>2, <1>3, <1>4, <1>5, <1>6 DEF Stamp

\* Before its first creation a page is not there at all.
LEMMA UnmadePage ==
  ASSUME NEW db, NEW A, NEW x, Meets(db, A, x), NEW p \in Pages, p \notin Made(A)
  PROVE  db.pages[p] = NoPage /\ ~PageExists(db, p) /\ ~IsTombstoned(db, p)
  <1>1. ~PageExists(db, p) /\ ~IsTombstoned(db, p) BY HeardMembers DEF Meets, Shows
  <1>2. PageTidy(db, A, p) BY DEF Meets, Shows, PageShown
  <1> QED BY <1>1, <1>2 DEF PageTidy

LEMMA UnmadeBlock ==
  ASSUME NEW db, NEW A, NEW x, Meets(db, A, x), NEW b \in Blocks, b \notin Made(A)
  PROVE  /\ db.blocks[b] = NoBlock /\ db.structure[b] = NoIntent
         /\ ~BlockExists(db, b) /\ ~IsTombstoned(db, b)
  <1>1. ~BlockExists(db, b) /\ ~IsTombstoned(db, b) BY HeardMembers DEF Meets, Shows
  <1>2. BlockTidy(db, b) BY DEF Meets, Shows, BlockShown
  <1> QED BY <1>1, <1>2 DEF BlockTidy

\* A page that was made, once, and not deleted is there, and no tombstone is.
LEMMA MadePageIsThere ==
  ASSUME NEW db, NEW A, NEW x, Meets(db, A, x), NEW p \in Pages, p \in Made(A), ~Deleted(A, p),
         Once(A, p) \/ p \in Journals
  PROVE  PageExists(db, p) /\ ~IsTombstoned(db, p)
  <1>1. PageShown(db, A, p) /\ PageLiveOrDead(db) BY DEF Meets, Shows, Consistent
  <1>2. \A y \in A : y.at > 0 /\ y.at \in Nat BY DEF Meets, Past, Stamp
  <1>3. \E y \in A : p \in Makes(y.kind) BY DEF Made
  <1>4. \E y \in A : p \in Makes(y.kind) /\ db.pages[p].existence = y.at
    BY <1>1, <1>3 DEF PageShown, PageKept, JournalKept
  <1>5. PageExists(db, p) BY <1>2, <1>4 DEF PageExists
  <1> QED BY <1>1, <1>5 DEF PageLiveOrDead

LEMMA PageCreateShows ==
  ASSUME NEW db, NEW A, NEW x, Meets(db, A, x),
         NEW p \in Pages, NEW t \in Titles \cup {None}, x.kind = PageCreates(p, t)
  PROVE  LET after == Apply(db, x)
             B     == A \cup {x}
         IN  /\ \A q \in Pages : PageShown(after, B, q)
             /\ \A b \in Blocks : BlockShown(after, B, b)
  <1> DEFINE after == Apply(db, x)
             B     == A \cup {x}
             at    == x.at
  <1>1. /\ after \in Databases /\ Consistent(after)
        /\ Heard(after) = Made(B) /\ Heard(db) \subseteq Heard(after)
        /\ at \in Nat /\ at > 0
    BY WhatMeets
  <1>2. /\ db \in Databases /\ Consistent(db) /\ Heard(db) = Made(A) /\ Past(A)
        /\ \A q \in Pages : PageShown(db, A, q)
        /\ \A b \in Blocks : BlockShown(db, A, b)
        /\ x \notin A
    BY DEF Meets, Shows, Joins
  <1>3. /\ Makes(x.kind) = {p} /\ x.kind.title = t
        /\ \A o : /\ Naming(x.kind, o) <=> o = p
                  /\ ~Texting(x.kind, o) /\ ~Placing(x.kind, o) /\ ~Deleting(x.kind, o)
    BY MakesAndNeeds, PageCreatesSays
  <1>4. /\ Created(after, db, p, t, at)
        /\ \A q \in Pages \ {p} : PageStays(after, db, q, t) /\ after.tombstones[q] = db.tombstones[q]
        /\ \A b \in Blocks : StaysOrGoes(after, db, p, b)
    <2>1. after = PageCreate(db, p, t, at) BY DEF Apply, PageCreates
    <2>2. at \in Stamp BY <1>1 DEF Stamp
    <2> HIDE DEF after
    <2> QED BY <1>2, <2>1, <2>2, PageCreateRows
  <1> HIDE DEF after
  <1>5. ASSUME NEW q \in Pages \ {p} PROVE PageShown(after, B, q)
    <2>1. PageShown(db, A, q) /\ PageStays(after, db, q, t) BY <1>2, <1>4
    <2>2. q \notin Makes(x.kind) /\ ~Naming(x.kind, q) /\ ~Deleting(x.kind, q) BY <1>3
    <2>3. p \in Pages \ {q} /\ Naming(x.kind, p) /\ x.kind.title = t BY <1>3
    <2> QED BY <1>1, <1>2, <2>1, <2>2, <2>3, QuietPage
  <1>6. p \in Made(A) => ~Once(B, p) BY <1>2, <1>3, MadeOnce
  <1>7. ASSUME NEW b \in Blocks PROVE BlockShown(after, B, b)
    <2>1. CASE BlockStays(after, db, b)
      <3>1. b \notin Makes(x.kind) BY <1>3, EngineAssumption
      <3> QED BY <1>1, <1>2, <1>3, <2>1, <3>1, QuietBlock
    <2>2. CASE PageOf[b] = p /\ BlockExists(db, b) /\ Buried(after, b)
      <3>1. PageExists(db, p) BY <1>2, <2>2 DEF Consistent, InGeneration
      <3>2. p \in Made(A) BY <1>2, <3>1, HeardMembers
      <3>3. ~Once(B, PageOf[b]) BY <1>6, <2>2, <3>2
      <3>4. BlockTidy(after, b) BY <2>2 DEF BlockTidy, Buried, NoBlock, NoIntent, BlockExists
      <3> QED BY <3>3, <3>4 DEF BlockShown, BlockKept
    <2> QED BY <1>4, <2>1, <2>2 DEF StaysOrGoes
  <1>8. PageShown(after, B, p)
    <2>1. /\ TitlesOf(A, p) \subseteq TitlesOf(B, p)
          /\ t # None => t \in TitlesOf(B, p)
      BY <1>3, TitlesGrow
    <2>2. PageTidy(db, A, p) BY <1>2 DEF PageShown
    <2>3. db.pages[p].existence \in Nat /\ db.pages[p].titleAt \in Nat /\ db.tombstones[p] \in Nat
      BY <1>2 DEF Databases, Objects
    <2>4. p \notin Made(A) => /\ ~Deleted(B, p) /\ Names(B, p) = {x}
                              /\ \A y \in B : p \in Makes(y.kind) => y = x
      <3> SUFFICES ASSUME p \notin Made(A)
                   PROVE  /\ ~Deleted(B, p) /\ Names(B, p) = {x}
                          /\ \A y \in B : p \in Makes(y.kind) => y = x
        OBVIOUS
      <3>1. ~Deleted(A, p) /\ Names(A, p) = {} /\ \A y \in A : p \notin Makes(y.kind)
        BY <1>2, SaidOfMade
      <3>2. Naming(x.kind, p) /\ ~Deleting(x.kind, p) BY <1>3
      <3>3. Names(B, p) = {x} BY <3>1, <3>2, Grown
      <3>4. ~Deleted(B, p) BY <3>1, <3>2, Grown
      <3> QED BY <3>1, <3>3, <3>4
    <2>5. CASE after = db /\ db.tombstones[p] >= at
      <3>1. IsTombstoned(db, p) /\ p \in Made(A)
        BY <1>1, <1>2, <2>3, <2>5, HeardMembers DEF IsTombstoned
      <3>2. PageTidy(after, B, p) BY <2>1, <2>2, <2>5 DEF PageTidy
      <3>3. PageKept(after, B, p) BY <1>6, <3>1 DEF PageKept
      <3>4. ~Deleted(B, p) => ~Deleted(A, p) BY Grown
      <3>5. JournalKept(after, B, p) BY <3>1, <3>4, MadePageIsThere DEF JournalKept
      <3> QED BY <3>2, <3>3, <3>5 DEF PageShown
    <2>6. CASE /\ p \in Journals /\ PageExists(db, p)
               /\ after.pages[p].title = db.pages[p].title
               /\ after.pages[p].existence = IF at < db.pages[p].existence THEN at
                                                                          ELSE db.pages[p].existence
      <3>1. p \in Made(A) BY <1>2, <2>6, HeardMembers
      <3>2. PageExists(after, p) BY <1>1, <2>3, <2>6 DEF PageExists
      <3>3. PageTidy(after, B, p) BY <2>1, <2>2, <2>6, <3>2 DEF PageTidy
      <3>4. PageKept(after, B, p) BY <1>6, <3>1 DEF PageKept
      <3>5. JournalKept(after, B, p)
        <4> SUFFICES ASSUME ~Deleted(A, p)
                     PROVE  /\ \E y \in B : p \in Makes(y.kind) /\ after.pages[p].existence = y.at
                            /\ \A y \in B : p \in Makes(y.kind) => after.pages[p].existence <= y.at
          BY Grown DEF JournalKept
        <4>1. /\ \E y \in A : p \in Makes(y.kind) /\ db.pages[p].existence = y.at
              /\ \A y \in A : p \in Makes(y.kind) => db.pages[p].existence <= y.at
          BY <1>2, <2>6, <3>1 DEF PageShown, JournalKept
        <4>2. \A y \in A : y.at \in Nat BY <1>2 DEF Past, Stamp
        <4> QED BY <1>1, <1>3, <2>3, <2>6, <4>1, <4>2
      <3> QED BY <3>3, <3>4, <3>5 DEF PageShown
    <2>7. CASE /\ ~(p \in Journals /\ PageExists(db, p))
               /\ after.pages[p].existence = Later(db.pages[p].existence, at)
               /\ Titled(after, db, p, t, at)
      <3>1. after.pages[p].existence > 0
        <4>1. Later(db.pages[p].existence, at) > 0 BY <1>1, <2>3, LaterIsLater
        <4> QED BY <2>7, <4>1
      <3>2. PageTidy(after, B, p)
        <4>1. after.pages[p].title \in {t, None, db.pages[p].title} BY <2>7 DEF Titled
        <4> QED BY <2>1, <2>2, <3>1, <4>1 DEF PageTidy, PageExists
      <3>3. p \notin Made(A) => after.pages[p].existence = at /\ after.pages[p].titleAt = at
        <4> SUFFICES ASSUME p \notin Made(A)
                     PROVE  after.pages[p].existence = at /\ after.pages[p].titleAt = at
          OBVIOUS
        <4>1. db.pages[p].existence = 0 /\ db.pages[p].titleAt = 0 BY UnmadePage DEF NoPage
        <4> QED BY <1>1, <2>7, <4>1 DEF Titled, Later
      <3>4. p \notin Made(A) /\ Alone(B, p) => after.pages[p].title = t
        <4> SUFFICES ASSUME p \notin Made(A), after.pages[p].title # t PROVE ~Alone(B, p) OBVIOUS
        <4>1. db.pages[p].titleAt = 0 BY UnmadePage DEF NoPage
        <4>2. t # None /\ \E q \in Pages \ {p} : db.pages[q].title = t BY <1>1, <2>7, <4>1 DEF Titled
        <4>3. PICK q \in Pages \ {p} : db.pages[q].title = t BY <4>2
        <4>4. t \in TitlesOf(A, q) BY <1>2, <4>2, <4>3 DEF PageShown, PageTidy
        <4>5. t \in TitlesOf(B, q) BY <4>4, TitlesGrow
        <4> QED BY <2>1, <4>2, <4>5 DEF Alone
      <3>5. PageKept(after, B, p)
        <4> SUFFICES ASSUME Once(B, p) PROVE PageKept(after, B, p) BY DEF PageKept
        <4>1. p \notin Made(A) BY <1>6
        <4>2. Latest(Names(B, p), x)
          <5>1. Names(B, p) = {x} BY <2>4, <4>1
          <5>2. x.at <= x.at BY <1>1
          <5> QED BY <5>1, <5>2 DEF Latest
        <4>3. \A y \in B : p \in Makes(y.kind) => after.pages[p].existence = y.at
          BY <2>4, <3>3, <4>1
        <4>4. Alone(B, p) => after.pages[p].titleAt = x.at /\ after.pages[p].title = x.kind.title
          BY <1>3, <3>3, <3>4, <4>1
        <4> HIDE DEF at
        <4> QED BY <2>4, <4>1, <4>2, <4>3, <4>4 DEF PageKept
      <3>6. JournalKept(after, B, p)
        <4> SUFFICES ASSUME p \in Journals, ~Deleted(A, p) PROVE JournalKept(after, B, p)
          BY Grown DEF JournalKept
        <4>1. p \notin Made(A) BY <2>7, MadePageIsThere
        <4> QED BY <1>1, <1>3, <2>4, <3>3, <4>1 DEF JournalKept
      <3> QED BY <3>2, <3>5, <3>6 DEF PageShown
    <2> QED BY <1>4, <2>5, <2>6, <2>7 DEF Created
  <1> QED BY <1>5, <1>7, <1>8 DEF after

LEMMA PageSetTitleShows ==
  ASSUME NEW db, NEW A, NEW x, Meets(db, A, x),
         NEW p \in Pages, NEW t \in Titles \cup {None}, x.kind = PageSetsTitle(p, t)
  PROVE  LET after == Apply(db, x)
             B     == A \cup {x}
         IN  /\ \A q \in Pages : PageShown(after, B, q)
             /\ \A b \in Blocks : BlockShown(after, B, b)
  <1> DEFINE after == Apply(db, x)
             B     == A \cup {x}
             at    == x.at
  <1>1. /\ after \in Databases /\ Consistent(after)
        /\ Heard(after) = Made(B) /\ Heard(db) \subseteq Heard(after)
        /\ at \in Nat /\ at > 0
        /\ Needs(x.kind) \subseteq Made(A)
    BY WhatMeets
  <1>2. /\ db \in Databases /\ Consistent(db) /\ Heard(db) = Made(A) /\ Past(A)
        /\ \A q \in Pages : PageShown(db, A, q)
        /\ \A b \in Blocks : BlockShown(db, A, b)
        /\ x \notin A
    BY DEF Meets, Shows, Joins
  <1>3. /\ Makes(x.kind) = {} /\ x.kind.title = t /\ p \in Needs(x.kind)
        /\ \A o : /\ Naming(x.kind, o) <=> o = p
                  /\ ~Texting(x.kind, o) /\ ~Placing(x.kind, o) /\ ~Deleting(x.kind, o)
    BY MakesAndNeeds, PageSetsTitleSays
  <1>4. /\ after.blocks = db.blocks /\ after.structure = db.structure
        /\ after.tombstones = db.tombstones
        /\ \A q \in Pages \ {p} : PageStays(after, db, q, t)
        /\ after.pages[p].existence = db.pages[p].existence
        /\ IsTombstoned(db, p) \/ ~PageExists(db, p) => after = db
        /\ ~IsTombstoned(db, p) /\ PageExists(db, p) => Titled(after, db, p, t, at)
    <2>1. after = PageSetTitle(db, p, t, at) BY DEF Apply, PageSetsTitle
    <2>2. at \in Stamp BY <1>1 DEF Stamp
    <2> HIDE DEF after
    <2> QED BY <1>2, <2>1, <2>2, PageSetTitleRows
  <1> HIDE DEF after
  <1>5. ASSUME NEW q \in Pages \ {p} PROVE PageShown(after, B, q)
    <2>1. PageShown(db, A, q) /\ PageStays(after, db, q, t) BY <1>2, <1>4
    <2>2. q \notin Makes(x.kind) /\ ~Naming(x.kind, q) /\ ~Deleting(x.kind, q) BY <1>3
    <2>3. p \in Pages \ {q} /\ Naming(x.kind, p) /\ x.kind.title = t BY <1>3
    <2> QED BY <1>1, <1>2, <2>1, <2>2, <2>3, QuietPage
  <1>6. ASSUME NEW b \in Blocks PROVE BlockShown(after, B, b)
    <2>1. BlockStays(after, db, b) BY <1>4 DEF BlockStays, RowStays, IsTombstoned
    <2>2. b \notin Makes(x.kind) BY <1>3
    <2> QED BY <1>1, <1>2, <1>3, <2>1, <2>2, QuietBlock
  <1>7. PageShown(after, B, p)
    <2>1. /\ TitlesOf(A, p) \subseteq TitlesOf(B, p)
          /\ t # None => t \in TitlesOf(B, p)
          /\ Alone(B, p) => Alone(A, p)
      BY <1>3, TitlesGrow
    <2>2. PageTidy(db, A, p) BY <1>2 DEF PageShown
    <2>3. db.pages[p].existence \in Nat /\ db.pages[p].titleAt \in Nat /\ db.tombstones[p] \in Nat
      BY <1>2 DEF Databases, Objects
    <2>4. /\ Once(B, p) => Once(A, p)
          /\ Deleted(B, p) <=> Deleted(A, p)
          /\ Names(B, p) = Names(A, p) \cup {x}
          /\ p \in Made(A)
          /\ A \subseteq B /\ \A y \in B : p \in Makes(y.kind) <=> y \in A /\ p \in Makes(y.kind)
      BY <1>1, <1>3, Grown
    <2>5. JournalKept(after, B, p)
      <3>1. JournalKept(db, A, p) BY <1>2 DEF PageShown
      <3>2. \A y \in A : y \in B BY <2>4
      <3> SUFFICES ASSUME p \in Journals, ~Deleted(B, p) PROVE JournalKept(after, B, p) BY DEF JournalKept
      <3> HIDE DEF B
      <3> QED BY <1>4, <2>4, <3>1, <3>2 DEF JournalKept
    <2>6. Once(B, p) => /\ Deleted(B, p) => ~PageExists(after, p)
                        /\ ~Deleted(B, p) => \A y \in B : p \in Makes(y.kind) => after.pages[p].existence = y.at
      <3>1. PageKept(db, A, p) BY <1>2 DEF PageShown
      <3> HIDE DEF B
      <3> QED BY <1>4, <2>4, <3>1 DEF PageKept, PageExists
    <2>7. CASE IsTombstoned(db, p) \/ ~PageExists(db, p)
      <3>1. after = db BY <1>4, <2>7
      <3>2. PageTidy(after, B, p) BY <2>1, <2>2, <3>1 DEF PageTidy
      <3>3. Once(B, p) => Deleted(B, p) BY <2>4, <2>7, MadePageIsThere
      <3>4. PageKept(after, B, p) BY <2>6, <3>3 DEF PageKept
      <3> QED BY <2>5, <3>2, <3>4 DEF PageShown
    <2>8. CASE ~IsTombstoned(db, p) /\ PageExists(db, p)
      <3>1. Titled(after, db, p, t, at) BY <1>4, <2>8
      <3>2. PageTidy(after, B, p)
        <4>1. after.pages[p].title \in {t, None, db.pages[p].title} BY <3>1 DEF Titled
        <4>2. PageExists(after, p) BY <1>4, <2>8 DEF PageExists
        <4> QED BY <2>1, <2>2, <4>1, <4>2 DEF PageTidy
      <3>3. ASSUME Once(B, p), ~Deleted(B, p), Alone(B, p)
            PROVE  \E y \in B : /\ Latest(Names(B, p), y)
                                /\ after.pages[p].titleAt = y.at /\ after.pages[p].title = y.kind.title
        <4>1. PICK y \in A : /\ Latest(Names(A, p), y)
                             /\ db.pages[p].titleAt = y.at /\ db.pages[p].title = y.kind.title
          BY <1>2, <2>1, <2>4, <3>3 DEF PageShown, PageKept
        <4>2. /\ y.at < x.at => Latest(Names(B, p), x)
              /\ x.at <= y.at => Latest(Names(B, p), y)
          <5>1. \A z \in A : z.at \in Nat BY <1>2 DEF Past, Stamp
          <5>2. \A z \in Names(A, p) : z.at \in Nat BY <5>1 DEF Names
          <5>3. x.at \in Nat /\ y.at \in Nat BY <1>1, <5>1
          <5>4. /\ y.at < x.at => Latest(Names(A, p) \cup {x}, x)
                /\ x.at <= y.at => Latest(Names(A, p) \cup {x}, y)
            BY <4>1, <5>2, <5>3, LatestGrows
          <5> QED BY <2>4, <5>4
        <4>3. CASE y.at < x.at
          <5>1. after.pages[p].titleAt = at BY <3>1, <4>1, <4>3 DEF Titled
          <5>2. ASSUME after.pages[p].title # t PROVE FALSE
            <6>1. t # None /\ \E q \in Pages \ {p} : db.pages[q].title = t
              BY <3>1, <4>1, <4>3, <5>2 DEF Titled
            <6>2. PICK q \in Pages \ {p} : db.pages[q].title = t BY <6>1
            <6>3. t \in TitlesOf(A, q) BY <1>2, <6>1, <6>2 DEF PageShown, PageTidy
            <6>4. t \in TitlesOf(B, q) BY <6>3, TitlesGrow
            <6> QED BY <2>1, <3>3, <6>1, <6>4 DEF Alone
          <5>3. x \in B OBVIOUS
          <5> QED BY <1>3, <4>2, <4>3, <5>1, <5>2, <5>3
        <4>4. CASE x.at <= y.at
          <5>1. y.at \in Nat BY <1>2, <4>1 DEF Past, Stamp
          <5>2. after.pages[p].titleAt = y.at /\ after.pages[p].title = y.kind.title
            BY <1>1, <3>1, <4>1, <4>4, <5>1 DEF Titled
          <5>3. y \in B BY <4>1
          <5>4. Latest(Names(B, p), y) BY <4>2, <4>4
          <5> HIDE DEF B
          <5> QED BY <5>2, <5>3, <5>4
        <4>5. y.at < x.at \/ x.at <= y.at
          <5>1. y.at \in Nat BY <1>2, <4>1 DEF Past, Stamp
          <5> QED BY <1>1, <5>1
        <4> QED BY <4>3, <4>4, <4>5
      <3>4. PageKept(after, B, p) BY <2>6, <3>3 DEF PageKept
      <3> QED BY <2>5, <3>2, <3>4 DEF PageShown
    <2> QED BY <2>7, <2>8
  <1> QED BY <1>5, <1>6, <1>7 DEF after

LEMMA PageDeleteShows ==
  ASSUME NEW db, NEW A, NEW x, Meets(db, A, x), NEW p \in Pages, x.kind = PageDeletes(p)
  PROVE  LET after == Apply(db, x)
             B     == A \cup {x}
         IN  /\ \A q \in Pages : PageShown(after, B, q)
             /\ \A b \in Blocks : BlockShown(after, B, b)
  <1> DEFINE after == Apply(db, x)
             B     == A \cup {x}
             at    == x.at
  <1>1. /\ after \in Databases /\ Consistent(after)
        /\ Heard(after) = Made(B) /\ Heard(db) \subseteq Heard(after)
        /\ at \in Nat /\ at > 0
        /\ Needs(x.kind) \subseteq Made(A)
    BY WhatMeets
  <1>2. /\ db \in Databases /\ Consistent(db) /\ Heard(db) = Made(A) /\ Past(A)
        /\ \A q \in Pages : PageShown(db, A, q)
        /\ \A b \in Blocks : BlockShown(db, A, b)
        /\ x \notin A /\ Grounds(A, x)
    BY DEF Meets, Shows, Joins
  <1>3. /\ Makes(x.kind) = {} /\ p \in Needs(x.kind)
        /\ \A o : /\ ~Naming(x.kind, o) /\ ~Texting(x.kind, o) /\ ~Placing(x.kind, o)
                  /\ Deleting(x.kind, o) <=> o = p
    BY MakesAndNeeds, PageDeletesSays
  <1>4. /\ \A q \in Pages \ {p} : /\ after.pages[q] = db.pages[q]
                                  /\ after.tombstones[q] = db.tombstones[q]
        /\ \A b \in Blocks : StaysOrGoes(after, db, p, b)
        /\ \/ after = db /\ db.pages[p].existence > at
           \/ /\ db.pages[p].existence <= at
              /\ IsTombstoned(after, p)
              /\ \/ after.pages[p] = NoPage
                 \/ after.pages[p] = db.pages[p] /\ ~PageExists(db, p)
    <2>1. after = PageDelete(db, p, at) BY DEF Apply, PageDeletes
    <2>2. at \in Stamp BY <1>1 DEF Stamp
    <2> HIDE DEF after
    <2> QED BY <1>2, <2>1, <2>2, PageDeleteRows
  <1> HIDE DEF after
  <1>5. ASSUME NEW q \in Pages \ {p} PROVE PageShown(after, B, q)
    <2>1. PageShown(db, A, q) /\ PageStays(after, db, q, None) BY <1>2, <1>4 DEF PageStays
    <2>2. q \notin Makes(x.kind) /\ ~Naming(x.kind, q) /\ ~Deleting(x.kind, q) BY <1>3
    <2> QED BY <1>1, <1>2, <2>1, <2>2, QuietPage
  <1>6. Deleted(B, p) /\ (Once(B, p) => Once(A, p)) /\ p \in Made(A) BY <1>1, <1>3, Grown
  <1>7. PageShown(after, B, p) /\ (Once(B, p) => ~PageExists(after, p))
    <2>1. TitlesOf(A, p) \subseteq TitlesOf(B, p) BY TitlesGrow
    <2>2. PageTidy(db, A, p) BY <1>2 DEF PageShown
    <2>3. ASSUME Once(B, p) PROVE ~PageExists(after, p)
      <3>1. CASE after = db /\ db.pages[p].existence > at
        <4>1. PICK c \in A : p \in Makes(c.kind) /\ c.at < at BY <1>2, <1>3 DEF Grounds
        <4>2. c.at \in Nat BY <1>2 DEF Past, Stamp
        <4>3. PageKept(db, A, p) /\ Once(A, p) BY <1>2, <1>6, <2>3 DEF PageShown
        <4>4. ~Deleted(A, p) => db.pages[p].existence = c.at BY <4>1, <4>3 DEF PageKept
        <4> QED BY <1>1, <3>1, <4>1, <4>2, <4>3, <4>4 DEF PageKept
      <3>2. CASE after.pages[p] = NoPage BY <3>2 DEF NoPage, PageExists
      <3>3. CASE after.pages[p] = db.pages[p] /\ ~PageExists(db, p) BY <3>3 DEF PageExists
      <3> QED BY <1>4, <3>1, <3>2, <3>3
    <2>4. PageTidy(after, B, p)
      <3>1. after.pages[p] = db.pages[p] \/ after.pages[p] = NoPage BY <1>4
      <3> QED BY <2>1, <2>2, <3>1 DEF PageTidy, NoPage, PageExists
    <2>5. PageKept(after, B, p) BY <1>6, <2>3 DEF PageKept
    <2>6. JournalKept(after, B, p) BY <1>6 DEF JournalKept
    <2> QED BY <2>3, <2>4, <2>5, <2>6 DEF PageShown
  <1>8. ASSUME NEW b \in Blocks PROVE BlockShown(after, B, b)
    <2>1. b \notin Makes(x.kind) /\ ~Deleting(x.kind, b) BY <1>3, EngineAssumption
    <2>2. CASE PageOf[b] # p
      <3>1. BlockStays(after, db, b) BY <1>4, <2>2 DEF StaysOrGoes
      <3>2. ~Deleting(x.kind, PageOf[b]) BY <1>3, <2>2
      <3> QED BY <1>1, <1>2, <1>3, <2>1, <3>1, <3>2, QuietBlock
    <2>3. CASE PageOf[b] = p
      <3>1. BlockTidy(after, b)
        <4>1. CASE BlockStays(after, db, b) BY <1>1, <1>2, <4>1, TidyBlockStays DEF BlockShown
        <4>2. CASE Buried(after, b) BY <4>2 DEF BlockTidy, Buried, NoBlock, NoIntent, BlockExists
        <4> QED BY <1>4, <4>1, <4>2 DEF StaysOrGoes
      <3>2. Once(B, p) => ~BlockExists(after, b)
        BY <1>1, <1>7, <2>3 DEF Consistent, InGeneration
      <3>3. Gone(B, b) BY <1>6, <2>3 DEF Gone
      <3> QED BY <2>3, <3>1, <3>2, <3>3 DEF BlockShown, BlockKept
    <2> QED BY <2>2, <2>3
  <1> QED BY <1>5, <1>7, <1>8 DEF after

\* An operation on a block leaves what the pages and the other blocks show.
LEMMA ElsewhereShows ==
  ASSUME NEW db, NEW A, NEW x, Meets(db, A, x), NEW b \in Blocks, Elsewhere(Apply(db, x), db, b),
         Makes(x.kind) \subseteq {b},
         \A o \in Objects \ {b} : /\ ~Naming(x.kind, o) /\ ~Texting(x.kind, o)
                                  /\ ~Placing(x.kind, o) /\ ~Deleting(x.kind, o)
  PROVE  LET after == Apply(db, x)
             B     == A \cup {x}
         IN  /\ \A q \in Pages : PageShown(after, B, q)
             /\ \A c \in Blocks \ {b} : BlockShown(after, B, c)
  <1> DEFINE after == Apply(db, x)
             B     == A \cup {x}
  <1>1. after \in Databases /\ Heard(db) \subseteq Heard(after) BY WhatMeets
  <1>2. /\ db \in Databases
        /\ \A q \in Pages : PageShown(db, A, q)
        /\ \A c \in Blocks : BlockShown(db, A, c)
    BY DEF Meets, Shows
  <1> HIDE DEF after
  <1>3. ASSUME NEW q \in Pages PROVE PageShown(after, B, q)
    <2>1. q \in Objects \ {b} BY EngineAssumption DEF Objects
    <2>2. PageStays(after, db, q, None) BY DEF Elsewhere, PageStays, after
    <2> QED BY <1>1, <1>2, <2>1, <2>2, QuietPage
  <1>4. ASSUME NEW c \in Blocks \ {b} PROVE BlockShown(after, B, c)
    <2>1. c \in Objects \ {b} /\ PageOf[c] \in Objects \ {b} BY EngineAssumption DEF Objects
    <2>2. BlockStays(after, db, c) BY DEF Elsewhere, after
    <2> QED BY <1>1, <1>2, <2>1, <2>2, QuietBlock
  <1> QED BY <1>3, <1>4 DEF after

\* A block that was made, once, is there while neither it nor its page was deleted.
LEMMA MadeBlockIsThere ==
  ASSUME NEW db, NEW A, NEW x, Meets(db, A, x), NEW b \in Blocks, b \in Made(A), ~Gone(A, b),
         Once(A, b), Once(A, PageOf[b])
  PROVE  BlockExists(db, b) /\ ~IsTombstoned(db, b)
  <1>1. BlockKept(db, A, b) BY DEF Meets, Shows, BlockShown
  <1>2. PICK y \in A : b \in Makes(y.kind) BY DEF Made
  <1>3. db.blocks[b].existence = y.at /\ ~IsTombstoned(db, b) BY <1>1, <1>2 DEF BlockKept
  <1>4. y.at > 0 BY DEF Meets, Past, Stamp
  <1> QED BY <1>3, <1>4 DEF BlockExists

LEMMA BlockCreateShows ==
  ASSUME NEW db, NEW A, NEW x, Meets(db, A, x),
         NEW b \in Blocks, NEW u \in Blocks \cup {None}, u \in PlacesOf(b), x.kind = BlockCreates(b, u)
  PROVE  LET after == Apply(db, x)
             B     == A \cup {x}
         IN  /\ \A q \in Pages : PageShown(after, B, q)
             /\ \A c \in Blocks : BlockShown(after, B, c)
  <1> DEFINE after == Apply(db, x)
             B     == A \cup {x}
             at    == x.at
             p     == PageOf[b]
  <1>1. /\ after \in Databases /\ Consistent(after)
        /\ Heard(after) = Made(B) /\ Heard(db) \subseteq Heard(after)
        /\ at \in Nat /\ at > 0
        /\ Needs(x.kind) \subseteq Made(A)
    BY WhatMeets
  <1>2. /\ db \in Databases /\ Consistent(db) /\ Heard(db) = Made(A) /\ Past(A)
        /\ \A q \in Pages : PageShown(db, A, q)
        /\ \A c \in Blocks : BlockShown(db, A, c)
        /\ x \notin A /\ Grounds(A, x)
    BY DEF Meets, Shows, Joins
  <1>3. /\ Makes(x.kind) = {b} /\ x.kind.parent = u
        /\ p \in Needs(x.kind) /\ (u # None => u \in Needs(x.kind))
        /\ \A o : /\ ~Naming(x.kind, o) /\ ~Deleting(x.kind, o)
                  /\ Texting(x.kind, o) <=> o = b
                  /\ Placing(x.kind, o) <=> o = b
    BY MakesAndNeeds, BlockCreatesSays
  <1>4. Elsewhere(after, db, b) /\ Placed(after, db, b, u, at)
    <2>1. after = BlockCreate(db, b, u, at) BY DEF Apply, BlockCreates
    <2>2. at \in Stamp BY <1>1 DEF Stamp
    <2> HIDE DEF after
    <2> QED BY <1>2, <2>1, <2>2, BlockCreateRows
  <1>5. /\ \A q \in Pages : PageShown(after, B, q)
        /\ \A c \in Blocks \ {b} : BlockShown(after, B, c)
    BY <1>3, <1>4, ElsewhereShows
  <1> HIDE DEF after
  <1>6. Once(B, b) => b \notin Made(A) BY <1>2, <1>3, MadeOnce
  <1>7. p \in Made(A) /\ (Once(B, p) => Once(A, p)) /\ (Deleted(B, p) <=> Deleted(A, p))
    BY <1>1, <1>3, Grown
  <1>8. p \in Pages /\ BlockTidy(db, b) BY <1>2, EngineAssumption DEF BlockShown
  <1>9. db.tombstones[b] \in Nat /\ db.structure[b].at \in Nat /\ db.pages[p].existence \in Nat
    BY <1>2, <1>8 DEF Databases, Objects
  <1>10. b \notin Made(A) => /\ ~Deleted(B, b) /\ Texts(B, b) = {x} /\ Places(B, b) = {x}
                             /\ \A y \in B : b \in Makes(y.kind) => y = x
    <2> SUFFICES ASSUME b \notin Made(A)
                 PROVE  /\ ~Deleted(B, b) /\ Texts(B, b) = {x} /\ Places(B, b) = {x}
                        /\ \A y \in B : b \in Makes(y.kind) => y = x
      OBVIOUS
    <2>1. /\ ~Deleted(A, b) /\ Texts(A, b) = {} /\ Places(A, b) = {}
          /\ \A y \in A : b \notin Makes(y.kind)
      BY <1>2, SaidOfMade
    <2>2. Texting(x.kind, b) /\ Placing(x.kind, b) /\ ~Deleting(x.kind, b) BY <1>3
    <2>3. Texts(B, b) = {x} /\ Places(B, b) = {x} BY <2>1, <2>2, Grown
    <2>4. ~Deleted(B, b) BY <2>1, <2>2, Grown
    <2> QED BY <2>1, <2>3, <2>4
  <1>11. CASE after = db /\ db.tombstones[b] >= at
    <2>1. b \in Made(A) BY <1>1, <1>2, <1>9, <1>11, HeardMembers DEF IsTombstoned
    <2>2. BlockKept(after, B, b) BY <1>6, <2>1 DEF BlockKept
    <2> QED BY <1>5, <1>8, <1>11, <2>2 DEF BlockShown, after
  <1>12. CASE /\ IsTombstoned(db, p) \/ db.pages[p].existence > at
              /\ after.blocks[b] = db.blocks[b] /\ after.structure[b] = db.structure[b]
              /\ IsTombstoned(after, b)
    <2>1. BlockTidy(after, b) BY <1>1, <1>8, <1>12 DEF BlockTidy, BlockExists
    <2>2. ASSUME Once(B, b), Once(B, p) PROVE ~BlockExists(after, b) /\ Gone(B, b)
      <3>1. b \notin Made(A) BY <1>6, <2>2
      <3>2. ~BlockExists(db, b) BY <3>1, UnmadeBlock
      <3>3. ASSUME ~Deleted(A, p) PROVE FALSE
        <4>1. PageExists(db, p) /\ ~IsTombstoned(db, p) BY <1>7, <1>8, <2>2, <3>3, MadePageIsThere
        <4>2. PICK c \in A : p \in Makes(c.kind) /\ c.at < at BY <1>2, <1>3 DEF Grounds
        <4>3. c.at \in Nat BY <1>2 DEF Past, Stamp
        <4>4. PageKept(db, A, p) BY <1>2, <1>8 DEF PageShown
        <4>5. db.pages[p].existence = c.at BY <1>7, <2>2, <3>3, <4>2, <4>4 DEF PageKept
        <4> QED BY <1>1, <1>12, <4>1, <4>2, <4>3, <4>5
      <3> QED BY <1>7, <1>12, <3>2, <3>3 DEF Gone, BlockExists
    <2>3. BlockKept(after, B, b) BY <2>2 DEF BlockKept
    <2> QED BY <1>5, <2>1, <2>3 DEF BlockShown, after
  <1>13. CASE /\ ~IsTombstoned(db, p) /\ db.pages[p].existence <= at
              /\ after.tombstones[b] = 0
              /\ after.blocks[b].existence = Later(db.blocks[b].existence, at)
              /\ after.blocks[b].markdownAt = Later(db.blocks[b].markdownAt, at)
              /\ after.structure[b] = IF db.structure[b].at < at THEN [at |-> at, parent |-> u]
                                                                 ELSE db.structure[b]
    <2>1. BlockExists(after, b)
      <3>1. db.blocks[b].existence \in Nat BY <1>2 DEF Databases
      <3>2. Later(db.blocks[b].existence, at) > 0 BY <1>1, <3>1, LaterIsLater
      <3> QED BY <1>13, <3>2 DEF BlockExists
    <2>2. /\ after.structure[b].at > 0 /\ after.structure[b].parent \in PlacesOf(b)
          /\ after.structure[b].parent # None => after.structure[b].parent \in Heard(after)
      <3>1. CASE db.structure[b].at < at
        <4>1. after.structure[b].at = at /\ after.structure[b].parent = u BY <1>13, <3>1
        <4>2. u # None => u \in Heard(after) BY <1>1, <1>2, <1>3
        <4> QED BY <1>1, <4>1, <4>2
      <3>2. CASE ~(db.structure[b].at < at)
        <4>1. after.structure[b] = db.structure[b] BY <1>13, <3>2
        <4>2. db.structure[b].at # 0 BY <1>1, <1>9, <3>2
        <4>3. BlockExists(db, b) BY <1>8, <4>2 DEF BlockTidy, NoIntent
        <4> QED BY <1>1, <1>8, <4>1, <4>3 DEF BlockTidy
      <3> QED BY <3>1, <3>2
    <2>3. BlockTidy(after, b) BY <2>1, <2>2 DEF BlockTidy
    <2>4. ASSUME Once(B, b), Once(B, p)
          PROVE  /\ ~Gone(B, b) /\ ~IsTombstoned(after, b)
                 /\ \A y \in B : b \in Makes(y.kind) => after.blocks[b].existence = y.at
                 /\ \E y \in B : Latest(Texts(B, b), y) /\ after.blocks[b].markdownAt = y.at
                 /\ \E y \in B : /\ Latest(Places(B, b), y)
                                 /\ after.structure[b] = [at |-> y.at, parent |-> y.kind.parent]
      <3>1. b \notin Made(A) BY <1>6, <2>4
      <3>2. db.blocks[b].existence = 0 /\ db.blocks[b].markdownAt = 0 /\ db.structure[b].at = 0
        BY <3>1, UnmadeBlock DEF NoBlock, NoIntent
      <3>3. ~Deleted(A, p)
        <4> SUFFICES ASSUME Deleted(A, p) PROVE FALSE OBVIOUS
        <4>1. ~PageExists(db, p) BY <1>2, <1>7, <1>8, <2>4 DEF PageShown, PageKept
        <4> QED BY <1>2, <1>7, <1>8, <1>13, <4>1, HeardMembers
      <3>4. ~Gone(B, b) BY <1>7, <1>10, <3>1, <3>3 DEF Gone
      <3>5. /\ after.blocks[b].existence = at /\ after.blocks[b].markdownAt = at
            /\ after.structure[b] = [at |-> at, parent |-> u]
            /\ ~IsTombstoned(after, b)
        BY <1>1, <1>13, <3>2 DEF Later, IsTombstoned
      <3>6. Latest(Texts(B, b), x) /\ Latest(Places(B, b), x)
        <4>1. Texts(B, b) = {x} /\ Places(B, b) = {x} BY <1>10, <3>1
        <4>2. x.at <= x.at BY <1>1
        <4> QED BY <4>1, <4>2 DEF Latest
      <3>7. \A y \in B : b \in Makes(y.kind) => y = x BY <1>10, <3>1
      <3>8. x \in B OBVIOUS
      <3> HIDE DEF B
      <3> QED BY <1>3, <3>4, <3>5, <3>6, <3>7, <3>8
    <2>5. BlockKept(after, B, b) BY <2>4 DEF BlockKept
    <2> QED BY <1>5, <2>3, <2>5 DEF BlockShown, after
  <1> QED BY <1>4, <1>11, <1>12, <1>13 DEF Placed, after

LEMMA BlockSetMarkdownShows ==
  ASSUME NEW db, NEW A, NEW x, Meets(db, A, x), NEW b \in Blocks, x.kind = BlockSetsMarkdown(b)
  PROVE  LET after == Apply(db, x)
             B     == A \cup {x}
         IN  /\ \A q \in Pages : PageShown(after, B, q)
             /\ \A c \in Blocks : BlockShown(after, B, c)
  <1> DEFINE after == Apply(db, x)
             B     == A \cup {x}
             at    == x.at
  <1>1. /\ after \in Databases /\ Heard(after) = Made(B) /\ Heard(db) \subseteq Heard(after)
        /\ at \in Nat /\ at > 0
        /\ Needs(x.kind) \subseteq Made(A)
    BY WhatMeets
  <1>2. /\ db \in Databases /\ Heard(db) = Made(A) /\ Past(A) /\ BlockShown(db, A, b)
    BY DEF Meets, Shows
  <1>3. /\ Makes(x.kind) = {} /\ b \in Needs(x.kind)
        /\ \A o : /\ ~Naming(x.kind, o) /\ ~Placing(x.kind, o) /\ ~Deleting(x.kind, o)
                  /\ Texting(x.kind, o) <=> o = b
    BY MakesAndNeeds, BlockSetsMarkdownSays
  <1>4. /\ Elsewhere(after, db, b)
        /\ after.tombstones = db.tombstones /\ after.structure = db.structure
        /\ after.blocks[b].existence = db.blocks[b].existence
        /\ IsTombstoned(db, b) \/ ~BlockExists(db, b) => after.blocks[b] = db.blocks[b]
        /\ ~IsTombstoned(db, b) /\ BlockExists(db, b) =>
             after.blocks[b].markdownAt = Later(db.blocks[b].markdownAt, at)
    <2>1. after = BlockSetMarkdown(db, b, at) BY DEF Apply, BlockSetsMarkdown
    <2>2. at \in Stamp BY <1>1 DEF Stamp
    <2> HIDE DEF after
    <2> QED BY <1>2, <2>1, <2>2, BlockSetMarkdownRows
  <1>5. /\ \A q \in Pages : PageShown(after, B, q)
        /\ \A c \in Blocks \ {b} : BlockShown(after, B, c)
    BY <1>3, <1>4, ElsewhereShows
  <1> HIDE DEF after
  <1>6. /\ b \in Made(A) /\ (Once(B, b) => Once(A, b))
        /\ Texts(B, b) = Texts(A, b) \cup {x} /\ Places(B, b) = Places(A, b)
        /\ Deleted(B, b) <=> Deleted(A, b)
    BY <1>1, <1>3, Grown
  <1>7. (Once(B, PageOf[b]) => Once(A, PageOf[b])) /\ (Deleted(B, PageOf[b]) <=> Deleted(A, PageOf[b]))
    BY <1>3, Grown
  <1>8. BlockExists(after, b) <=> BlockExists(db, b) BY <1>4 DEF BlockExists
  <1>9. BlockTidy(after, b) BY <1>1, <1>2, <1>4, <1>8 DEF BlockShown, BlockTidy
  <1>10. ASSUME Once(B, b), Once(B, PageOf[b])
         PROVE  /\ Gone(B, b) => ~BlockExists(after, b)
                /\ ~Gone(B, b) =>
                     /\ ~IsTombstoned(after, b)
                     /\ \A y \in B : b \in Makes(y.kind) => after.blocks[b].existence = y.at
                     /\ \E y \in B : Latest(Texts(B, b), y) /\ after.blocks[b].markdownAt = y.at
                     /\ \E y \in B : /\ Latest(Places(B, b), y)
                                     /\ after.structure[b] = [at |-> y.at, parent |-> y.kind.parent]
    <2>1. Gone(B, b) <=> Gone(A, b) BY <1>6, <1>7 DEF Gone
    <2>2. BlockKept(db, A, b) BY <1>2 DEF BlockShown
    <2>3. Gone(B, b) => ~BlockExists(after, b) BY <1>6, <1>7, <1>8, <1>10, <2>1, <2>2 DEF BlockKept
    <2> SUFFICES ASSUME ~Gone(A, b)
                 PROVE  /\ ~IsTombstoned(after, b)
                        /\ \A y \in B : b \in Makes(y.kind) => after.blocks[b].existence = y.at
                        /\ \E y \in B : Latest(Texts(B, b), y) /\ after.blocks[b].markdownAt = y.at
                        /\ \E y \in B : /\ Latest(Places(B, b), y)
                                        /\ after.structure[b] = [at |-> y.at, parent |-> y.kind.parent]
      BY <2>1, <2>3
    <2>4. /\ \A y \in A : b \in Makes(y.kind) => db.blocks[b].existence = y.at
          /\ \E y \in A : Latest(Texts(A, b), y) /\ db.blocks[b].markdownAt = y.at
          /\ \E y \in A : /\ Latest(Places(A, b), y)
                          /\ db.structure[b] = [at |-> y.at, parent |-> y.kind.parent]
      BY <1>6, <1>7, <1>10, <2>2 DEF BlockKept
    <2>5. BlockExists(db, b) /\ ~IsTombstoned(db, b) BY <1>6, <1>7, <1>10, MadeBlockIsThere
    <2>6. after.blocks[b].markdownAt = Later(db.blocks[b].markdownAt, at) /\ ~IsTombstoned(after, b)
      BY <1>4, <2>5 DEF IsTombstoned
    <2>7. \A y \in B : b \in Makes(y.kind) => after.blocks[b].existence = y.at BY <1>3, <1>4, <2>4
    <2>8. \E y \in B : /\ Latest(Places(B, b), y)
                       /\ after.structure[b] = [at |-> y.at, parent |-> y.kind.parent]
      BY <1>4, <1>6, <2>4
    <2>9. \E y \in B : Latest(Texts(B, b), y) /\ after.blocks[b].markdownAt = y.at
      <3>1. PICK y \in A : Latest(Texts(A, b), y) /\ db.blocks[b].markdownAt = y.at BY <2>4
      <3>2. \A z \in A : z.at \in Nat BY <1>2 DEF Past, Stamp
      <3>3. \A z \in Texts(A, b) : z.at \in Nat BY <3>2 DEF Texts
      <3>4. x.at \in Nat /\ y.at \in Nat BY <1>1, <3>2
      <3>5. /\ y.at < x.at => Latest(Texts(A, b) \cup {x}, x)
            /\ x.at <= y.at => Latest(Texts(A, b) \cup {x}, y)
        BY <3>1, <3>3, <3>4, LatestGrows
      <3>6. y.at < x.at => after.blocks[b].markdownAt = x.at BY <2>6, <3>1 DEF Later
      <3>7. x.at <= y.at => after.blocks[b].markdownAt = y.at BY <2>6, <3>1, <3>4 DEF Later
      <3>8. x \in B /\ y \in B OBVIOUS
      <3>9. y.at < x.at \/ x.at <= y.at BY <3>4
      <3> HIDE DEF B
      <3> QED BY <1>6, <3>5, <3>6, <3>7, <3>8, <3>9
    <2> QED BY <2>6, <2>7, <2>8, <2>9
  <1>11. BlockShown(after, B, b) BY <1>9, <1>10 DEF BlockShown, BlockKept
  <1> QED BY <1>5, <1>11 DEF after

LEMMA BlockMoveShows ==
  ASSUME NEW db, NEW A, NEW x, Meets(db, A, x),
         NEW b \in Blocks, NEW u \in Blocks \cup {None}, u \in PlacesOf(b), x.kind = BlockMoves(b, u)
  PROVE  LET after == Apply(db, x)
             B     == A \cup {x}
         IN  /\ \A q \in Pages : PageShown(after, B, q)
             /\ \A c \in Blocks : BlockShown(after, B, c)
  <1> DEFINE after == Apply(db, x)
             B     == A \cup {x}
             at    == x.at
  <1>1. /\ after \in Databases /\ Heard(after) = Made(B) /\ Heard(db) \subseteq Heard(after)
        /\ at \in Nat /\ at > 0
        /\ Needs(x.kind) \subseteq Made(A)
    BY WhatMeets
  <1>2. /\ db \in Databases /\ Heard(db) = Made(A) /\ Past(A) /\ BlockShown(db, A, b)
    BY DEF Meets, Shows
  <1>3. /\ Makes(x.kind) = {} /\ b \in Needs(x.kind) /\ (u # None => u \in Needs(x.kind))
        /\ x.kind.parent = u
        /\ \A o : /\ ~Naming(x.kind, o) /\ ~Texting(x.kind, o) /\ ~Deleting(x.kind, o)
                  /\ Placing(x.kind, o) <=> o = b
    BY MakesAndNeeds, BlockMovesSays
  <1>4. /\ Elsewhere(after, db, b)
        /\ after.tombstones = db.tombstones /\ after.blocks = db.blocks
        /\ IsTombstoned(db, b) => after.structure[b] = db.structure[b]
        /\ ~IsTombstoned(db, b) =>
             after.structure[b] = IF db.structure[b].at < at THEN [at |-> at, parent |-> u]
                                                             ELSE db.structure[b]
    <2>1. after = BlockMove(db, b, u, at) BY DEF Apply, BlockMoves
    <2>2. at \in Stamp BY <1>1 DEF Stamp
    <2> HIDE DEF after
    <2> QED BY <1>2, <2>1, <2>2, BlockMoveRows
  <1>5. /\ \A q \in Pages : PageShown(after, B, q)
        /\ \A c \in Blocks \ {b} : BlockShown(after, B, c)
    BY <1>3, <1>4, ElsewhereShows
  <1> HIDE DEF after
  <1>6. /\ b \in Made(A) /\ (Once(B, b) => Once(A, b))
        /\ Texts(B, b) = Texts(A, b) /\ Places(B, b) = Places(A, b) \cup {x}
        /\ Deleted(B, b) <=> Deleted(A, b)
    BY <1>1, <1>3, Grown
  <1>7. (Once(B, PageOf[b]) => Once(A, PageOf[b])) /\ (Deleted(B, PageOf[b]) <=> Deleted(A, PageOf[b]))
    BY <1>3, Grown
  <1>8. BlockExists(after, b) <=> BlockExists(db, b) BY <1>4 DEF BlockExists
  <1>9. BlockTidy(after, b)
    <2>1. BlockTidy(db, b) BY <1>2 DEF BlockShown
    <2>2. CASE after.structure[b] = db.structure[b]
      BY <1>1, <1>4, <1>8, <2>1, <2>2 DEF BlockTidy
    <2>3. CASE after.structure[b] = [at |-> at, parent |-> u] /\ ~IsTombstoned(db, b)
      <3>1. BlockExists(db, b) BY <1>2, <1>6, <2>3, HeardMembers
      <3>2. u # None => u \in Heard(after) BY <1>1, <1>2, <1>3
      <3>3. after.structure[b].at = at /\ after.structure[b].parent = u BY <2>3
      <3> QED BY <1>1, <1>8, <3>1, <3>2, <3>3 DEF BlockTidy
    <2> QED BY <1>4, <2>2, <2>3
  <1>10. ASSUME Once(B, b), Once(B, PageOf[b])
         PROVE  /\ Gone(B, b) => ~BlockExists(after, b)
                /\ ~Gone(B, b) =>
                     /\ ~IsTombstoned(after, b)
                     /\ \A y \in B : b \in Makes(y.kind) => after.blocks[b].existence = y.at
                     /\ \E y \in B : Latest(Texts(B, b), y) /\ after.blocks[b].markdownAt = y.at
                     /\ \E y \in B : /\ Latest(Places(B, b), y)
                                     /\ after.structure[b] = [at |-> y.at, parent |-> y.kind.parent]
    <2>1. Gone(B, b) <=> Gone(A, b) BY <1>6, <1>7 DEF Gone
    <2>2. BlockKept(db, A, b) BY <1>2 DEF BlockShown
    <2>3. Gone(B, b) => ~BlockExists(after, b) BY <1>6, <1>7, <1>8, <1>10, <2>1, <2>2 DEF BlockKept
    <2> SUFFICES ASSUME ~Gone(A, b)
                 PROVE  /\ ~IsTombstoned(after, b)
                        /\ \A y \in B : b \in Makes(y.kind) => after.blocks[b].existence = y.at
                        /\ \E y \in B : Latest(Texts(B, b), y) /\ after.blocks[b].markdownAt = y.at
                        /\ \E y \in B : /\ Latest(Places(B, b), y)
                                        /\ after.structure[b] = [at |-> y.at, parent |-> y.kind.parent]
      BY <2>1, <2>3
    <2>4. /\ \A y \in A : b \in Makes(y.kind) => db.blocks[b].existence = y.at
          /\ \E y \in A : Latest(Texts(A, b), y) /\ db.blocks[b].markdownAt = y.at
          /\ \E y \in A : /\ Latest(Places(A, b), y)
                          /\ db.structure[b] = [at |-> y.at, parent |-> y.kind.parent]
      BY <1>6, <1>7, <1>10, <2>2 DEF BlockKept
    <2>5. BlockExists(db, b) /\ ~IsTombstoned(db, b) BY <1>6, <1>7, <1>10, MadeBlockIsThere
    <2>6. /\ ~IsTombstoned(after, b)
          /\ after.structure[b] = IF db.structure[b].at < at THEN [at |-> at, parent |-> u]
                                                             ELSE db.structure[b]
      BY <1>4, <2>5 DEF IsTombstoned
    <2>7. \A y \in B : b \in Makes(y.kind) => after.blocks[b].existence = y.at BY <1>3, <1>4, <2>4
    <2>8. \E y \in B : Latest(Texts(B, b), y) /\ after.blocks[b].markdownAt = y.at
      BY <1>4, <1>6, <2>4
    <2>9. \E y \in B : /\ Latest(Places(B, b), y)
                       /\ after.structure[b] = [at |-> y.at, parent |-> y.kind.parent]
      <3>1. PICK y \in A : /\ Latest(Places(A, b), y)
                           /\ db.structure[b] = [at |-> y.at, parent |-> y.kind.parent]
        BY <2>4
      <3>2. \A z \in A : z.at \in Nat BY <1>2 DEF Past, Stamp
      <3>3. \A z \in Places(A, b) : z.at \in Nat BY <3>2 DEF Places
      <3>4. x.at \in Nat /\ y.at \in Nat BY <1>1, <3>2
      <3>5. /\ y.at < x.at => Latest(Places(A, b) \cup {x}, x)
            /\ x.at <= y.at => Latest(Places(A, b) \cup {x}, y)
        BY <3>1, <3>3, <3>4, LatestGrows
      <3>6. db.structure[b].at = y.at BY <3>1
      <3>7. y.at < x.at => after.structure[b] = [at |-> x.at, parent |-> x.kind.parent]
        BY <1>3, <2>6, <3>6
      <3>8. x.at <= y.at => after.structure[b] = [at |-> y.at, parent |-> y.kind.parent]
        <4>1. x.at <= y.at => ~(db.structure[b].at < at) BY <3>4, <3>6
        <4> QED BY <2>6, <3>1, <4>1
      <3>9. x \in B /\ y \in B OBVIOUS
      <3>10. y.at < x.at \/ x.at <= y.at BY <3>4
      <3> HIDE DEF B
      <3> QED BY <1>6, <3>5, <3>7, <3>8, <3>9, <3>10
    <2> QED BY <2>6, <2>7, <2>8, <2>9
  <1>11. BlockShown(after, B, b) BY <1>9, <1>10 DEF BlockShown, BlockKept
  <1> QED BY <1>5, <1>11 DEF after

LEMMA BlockDeleteShows ==
  ASSUME NEW db, NEW A, NEW x, Meets(db, A, x), NEW b \in Blocks, x.kind = BlockDeletes(b)
  PROVE  LET after == Apply(db, x)
             B     == A \cup {x}
         IN  /\ \A q \in Pages : PageShown(after, B, q)
             /\ \A c \in Blocks : BlockShown(after, B, c)
  <1> DEFINE after == Apply(db, x)
             B     == A \cup {x}
             at    == x.at
  <1>1. /\ after \in Databases /\ Heard(after) = Made(B) /\ Heard(db) \subseteq Heard(after)
        /\ at \in Nat /\ at > 0
        /\ Needs(x.kind) \subseteq Made(A)
    BY WhatMeets
  <1>2. /\ db \in Databases /\ Heard(db) = Made(A) /\ Past(A) /\ BlockShown(db, A, b)
        /\ Grounds(A, x)
    BY DEF Meets, Shows, Joins
  <1>3. /\ Makes(x.kind) = {} /\ b \in Needs(x.kind)
        /\ \A o : /\ ~Naming(x.kind, o) /\ ~Texting(x.kind, o) /\ ~Placing(x.kind, o)
                  /\ Deleting(x.kind, o) <=> o = b
    BY MakesAndNeeds, BlockDeletesSays
  <1>4. /\ Elsewhere(after, db, b)
        /\ \/ after = db /\ db.blocks[b].existence > at
           \/ db.blocks[b].existence <= at /\ Buried(after, b)
           \/ /\ db.tombstones[b] > at
              /\ after.blocks[b] = db.blocks[b] /\ after.structure[b] = db.structure[b]
              /\ IsTombstoned(after, b)
    <2>1. after = BlockDelete(db, b, at) BY DEF Apply, BlockDeletes
    <2>2. at \in Stamp BY <1>1 DEF Stamp
    <2> HIDE DEF after
    <2> QED BY <1>2, <2>1, <2>2, BlockDeleteRows
  <1>5. /\ \A q \in Pages : PageShown(after, B, q)
        /\ \A c \in Blocks \ {b} : BlockShown(after, B, c)
    BY <1>3, <1>4, ElsewhereShows
  <1> HIDE DEF after
  <1>6. b \in Made(A) /\ (Once(B, b) => Once(A, b)) /\ Deleted(B, b)
    BY <1>1, <1>3, Grown
  <1>7. Once(B, PageOf[b]) => Once(A, PageOf[b]) BY Grown
  <1>8. Gone(B, b) BY <1>6 DEF Gone
  <1>9. BlockTidy(after, b)
    <2>1. BlockTidy(db, b) BY <1>2 DEF BlockShown
    <2>2. CASE after.blocks[b] = db.blocks[b] /\ after.structure[b] = db.structure[b]
      BY <1>1, <2>1, <2>2 DEF BlockTidy, BlockExists
    <2>3. CASE Buried(after, b) BY <2>3 DEF BlockTidy, Buried, NoBlock, NoIntent, BlockExists
    <2> QED BY <1>4, <2>2, <2>3
  <1>10. ASSUME Once(B, b), Once(B, PageOf[b]) PROVE ~BlockExists(after, b)
    <2>1. BlockKept(db, A, b) /\ Once(A, b) /\ Once(A, PageOf[b])
      BY <1>2, <1>6, <1>7, <1>10 DEF BlockShown
    <2>2. Gone(A, b) => ~BlockExists(db, b) BY <1>6, <2>1 DEF BlockKept
    <2>3. CASE after = db /\ db.blocks[b].existence > at
      <3>1. PICK c \in A : b \in Makes(c.kind) /\ c.at < at BY <1>2, <1>3 DEF Grounds
      <3>2. c.at \in Nat BY <1>2 DEF Past, Stamp
      <3>3. ~Gone(A, b) => db.blocks[b].existence = c.at BY <1>6, <2>1, <3>1 DEF BlockKept
      <3> QED BY <1>1, <2>2, <2>3, <3>1, <3>2, <3>3
    <2>4. CASE Buried(after, b) BY <2>4 DEF Buried, NoBlock, BlockExists
    <2>5. CASE db.tombstones[b] > at /\ after.blocks[b] = db.blocks[b]
      <3>1. db.tombstones[b] \in Nat BY <1>2 DEF Databases, Objects
      <3>2. IsTombstoned(db, b) BY <1>1, <2>5, <3>1 DEF IsTombstoned
      <3>3. Gone(A, b) BY <1>6, <2>1, <3>2 DEF BlockKept
      <3> QED BY <2>2, <2>5, <3>3 DEF BlockExists
    <2> QED BY <1>4, <2>3, <2>4, <2>5
  <1>11. BlockShown(after, B, b) BY <1>8, <1>9, <1>10 DEF BlockShown, BlockKept
  <1> QED BY <1>5, <1>11 DEF after

\* A replica that shows what it has applied still does after one more operation,
\* by whomever and however late it comes (apply_one_with_effects).
THEOREM ApplyShows ==
  ASSUME NEW db \in Databases, NEW A, NEW x, Shows(db, A), Past(A), Joins(A, x)
  PROVE  /\ ~Refuses(db, x)
         /\ Apply(db, x) \in Databases
         /\ Shows(Apply(db, x), A \cup {x})
         /\ Past(A \cup {x})
  <1> DEFINE after == Apply(db, x)
             B     == A \cup {x}
             Goal  == /\ \A q \in Pages : PageShown(after, B, q)
                      /\ \A c \in Blocks : BlockShown(after, B, c)
  <1>1. Meets(db, A, x) BY DEF Meets
  <1>2. x.kind \in Kinds BY DEF Joins
  <1> HIDE DEF after
  <1>3. ASSUME NEW p \in Pages, NEW t \in Titles \cup {None}, x.kind = PageCreates(p, t) PROVE Goal
    BY <1>1, <1>3, PageCreateShows DEF after
  <1>4. ASSUME NEW p \in Pages, NEW t \in Titles \cup {None}, x.kind = PageSetsTitle(p, t) PROVE Goal
    BY <1>1, <1>4, PageSetTitleShows DEF after
  <1>5. ASSUME NEW p \in Pages, x.kind = PageDeletes(p) PROVE Goal
    BY <1>1, <1>5, PageDeleteShows DEF after
  <1>6. ASSUME NEW b \in Blocks, NEW u \in Blocks \cup {None}, u \in PlacesOf(b), x.kind = BlockCreates(b, u)
        PROVE Goal
    BY <1>1, <1>6, BlockCreateShows DEF after
  <1>7. ASSUME NEW b \in Blocks, x.kind = BlockSetsMarkdown(b) PROVE Goal
    BY <1>1, <1>7, BlockSetMarkdownShows DEF after
  <1>8. ASSUME NEW b \in Blocks, NEW u \in Blocks \cup {None}, u \in PlacesOf(b), x.kind = BlockMoves(b, u)
        PROVE Goal
    BY <1>1, <1>8, BlockMoveShows DEF after
  <1>9. ASSUME NEW b \in Blocks, x.kind = BlockDeletes(b) PROVE Goal
    BY <1>1, <1>9, BlockDeleteShows DEF after
  <1>10. Goal BY <1>2, <1>3, <1>4, <1>5, <1>6, <1>7, <1>8, <1>9, KindCases
  <1>11. /\ after \in Databases /\ Consistent(after) /\ Heard(after) = Made(B) /\ ~Refuses(db, x)
    BY <1>1, WhatMeets DEF after
  <1>12. Past(B) BY PastGrows
  <1> QED BY <1>10, <1>11, <1>12 DEF Shows, after

\* The repair of the tree changes parents only (reconcile_structure).
THEOREM ReconcileShows ==
  ASSUME NEW db \in Databases, NEW A, Shows(db, A)
  PROVE  ReconcileStructure(db) \in Databases /\ Shows(ReconcileStructure(db), A)
  <1> DEFINE Row     == [existence : Nat, parent : Blocks \cup {None}, markdownAt : Nat]
             bound   == [b \in Blocks |-> IF Structured(db, b) THEN BoundParent(db, b) ELSE None]
             parents == BreakCycles(db, bound)
             rows    == [b \in Blocks |-> [db.blocks[b] EXCEPT !.parent = parents[b]]]
             after   == ReconcileStructure(db)
  <1>1. after = [db EXCEPT !.blocks = rows] BY DEF ReconcileStructure
  <1>2. after \in Databases /\ Consistent(after) BY ReconcileKeepsConsistency DEF Shows
  <1>3. ASSUME NEW b \in Blocks
        PROVE  /\ rows[b].existence = db.blocks[b].existence
               /\ rows[b].markdownAt = db.blocks[b].markdownAt
               /\ rows[b].parent = parents[b]
    <2>1. db.blocks[b] \in Row BY DEF Databases
    <2>2. rows[b] = [db.blocks[b] EXCEPT !.parent = parents[b]] OBVIOUS
    <2> HIDE DEF rows, parents
    <2> QED BY <2>1, <2>2
  <1>4. ASSUME NEW b \in Blocks, ~BlockExists(db, b) PROVE parents[b] = None
    <2>1. bound[b] = None BY <1>4 DEF Structured
    <2> HIDE DEF bound
    <2> QED BY <2>1 DEF BreakCycles
  <1> HIDE DEF rows, parents, after
  <1>5. /\ after.pages = db.pages /\ after.tombstones = db.tombstones
        /\ after.structure = db.structure /\ after.blocks = rows
    BY <1>1 DEF Databases
  <1>6. Heard(after) = Heard(db)
    <2>1. \A b \in Blocks : BlockExists(after, b) <=> BlockExists(db, b) BY <1>3, <1>5 DEF BlockExists
    <2> QED BY <1>5, <2>1 DEF Heard, HeardPages, HeardBlocks, PageExists, IsTombstoned
  <1>7. ASSUME NEW p \in Pages PROVE PageShown(after, A, p)
    BY <1>5 DEF Shows, PageShown, PageTidy, PageKept, JournalKept, PageExists
  <1>8. ASSUME NEW b \in Blocks PROVE BlockShown(after, A, b)
    <2>1. /\ after.blocks[b].existence = db.blocks[b].existence
          /\ after.blocks[b].markdownAt = db.blocks[b].markdownAt
          /\ after.blocks[b].parent = parents[b]
      BY <1>3, <1>5
    <2>2. BlockTidy(db, b) /\ BlockKept(db, A, b) BY DEF Shows, BlockShown
    <2>3. ~BlockExists(after, b) => after.blocks[b] = NoBlock
      <3>1. db.blocks[b] \in Row /\ after.blocks[b] \in Row BY <1>2 DEF Databases
      <3> HIDE DEF parents
      <3> QED BY <1>4, <2>1, <2>2, <3>1 DEF BlockTidy, BlockExists, NoBlock
    <2>4. BlockTidy(after, b) BY <1>5, <1>6, <2>1, <2>2, <2>3 DEF BlockTidy, BlockExists
    <2>5. BlockKept(after, A, b) BY <1>5, <2>1, <2>2 DEF BlockKept, BlockExists, IsTombstoned
    <2> QED BY <2>4, <2>5 DEF BlockShown
  <1>9. Heard(after) = Made(A) BY <1>6 DEF Shows
  <1> QED BY <1>2, <1>7, <1>8, <1>9 DEF Shows, after

\* An empty database shows that nothing has been applied.
LEMMA EmptyShows == EmptyDatabase \in Databases /\ Shows(EmptyDatabase, {}) /\ Past({})
  <1> DEFINE db == EmptyDatabase
  <1>1. db \in Databases
    BY DEF EmptyDatabase, Databases, NoPage, NoBlock, NoIntent
  <1>2. /\ \A p \in Pages : db.pages[p] = NoPage /\ ~PageExists(db, p) /\ ~IsTombstoned(db, p)
        /\ \A b \in Blocks : /\ db.blocks[b] = NoBlock /\ db.structure[b] = NoIntent
                             /\ ~BlockExists(db, b) /\ ~IsTombstoned(db, b)
    BY DEF EmptyDatabase, NoPage, NoBlock, NoIntent, PageExists, BlockExists, IsTombstoned, Objects
  <1> HIDE DEF db
  <1>3. Consistent(db)
    BY <1>2 DEF Consistent, InGeneration, PageLiveOrDead, OneTitleOnePage, NoPage
  <1>4. Made({}) = {} BY DEF Made
  <1>5. Heard(db) = {} BY <1>2 DEF Heard, HeardPages, HeardBlocks
  <1>6. ASSUME NEW p \in Pages PROVE PageShown(db, {}, p)
    <2>1. \A o : ~Deleted({}, o) BY DEF Deleted
    <2> QED BY <1>2, <1>4, <2>1 DEF PageShown, PageTidy, PageKept, JournalKept, NoPage
  <1>7. ASSUME NEW b \in Blocks PROVE BlockShown(db, {}, b)
    BY <1>2, <1>4 DEF BlockShown, BlockTidy, BlockKept
  <1>8. Past({}) BY DEF Past
  <1> QED BY <1>1, <1>3, <1>4, <1>5, <1>6, <1>7, <1>8 DEF Shows, db

-----------------------------------------------------------------------------
(* The way up from a block, and the repair of the tree *)

\* path starts at b and goes on from a block to its parent; a root leads to None.
Climbs(path, parent, b, last) ==
  /\ path[0] = b
  /\ \A i \in 1..last : path[i] = IF path[i-1] = None THEN None ELSE parent[path[i-1]]

Parentage == [Blocks -> Blocks \cup {None}]
Height    == Cardinality(Blocks)

LEMMA HeightType == Height \in Nat
  BY EngineAssumption, FS_CardinalityType DEF Height

LEMMA PathExists ==
  ASSUME NEW parent \in Parentage, NEW b \in Blocks, NEW last \in Nat
  PROVE  \E path \in [0..last -> Blocks \cup {None}] : Climbs(path, parent, b, last)
  <1> DEFINE X    == Blocks \cup {None}
             up(x) == IF x = None THEN None ELSE parent[x]
             G    == [i \in 1..last |-> [x \in X |-> up(x)]]
  <1>1. ASSUME NEW x \in X PROVE up(x) \in X BY DEF Parentage
  <1>2. G \in [1..last -> [X -> X]]
    <2> HIDE DEF up, X
    <2> QED BY <1>1
  <1>3. b \in X OBVIOUS
  <1>4. PICK path \in [0..last -> X] : Follows(path, last, b, G)
    <2> HIDE DEF G, X
    <2> QED BY <1>2, <1>3, RecursionExists
  <1>5. ASSUME NEW i \in 1..last
        PROVE  path[i] = IF path[i-1] = None THEN None ELSE parent[path[i-1]]
    <2>1. i - 1 \in 0..last OBVIOUS
    <2>2. path[i-1] \in X BY <1>4, <2>1
    <2>3. path[i] = up(path[i-1])
      <3> HIDE DEF up, X
      <3> QED BY <1>4, <2>2 DEF Follows
    <2> QED BY <2>3
  <1>6. path[0] = b BY <1>4 DEF Follows
  <1> QED BY <1>4, <1>5, <1>6 DEF Climbs

LEMMA AboveIs ==
  ASSUME NEW parent \in Parentage, NEW b \in Blocks, NEW last \in Nat, Height <= last,
         NEW path \in [0..last -> Blocks \cup {None}], Climbs(path, parent, b, last)
  PROVE  Above(parent, b) = {path[i] : i \in 1..Height} \ {None}
  <1> DEFINE N      == Height
             row(f) == [n \in 1..N |->
                          LET below == IF n = 1 THEN b ELSE f[n-1]
                          IN  IF below = None THEN None ELSE parent[below]]
             up     == CHOOSE f : f = row(f)
             way    == [n \in 1..N |-> path[n]]
  <1>1. N \in Nat BY HeightType
  <1>2. b # None BY EngineAssumption
  <1>3. ASSUME NEW n \in 1..N PROVE way[n] = row(way)[n]
    <2>1. n \in 1..last /\ path[n] = IF path[n-1] = None THEN None ELSE parent[path[n-1]]
      BY <1>1 DEF Climbs
    <2>2. CASE n = 1 BY <2>1, <2>2 DEF Climbs
    <2>3. CASE n # 1
      <3>1. n - 1 \in 1..N BY <1>1, <2>3
      <3> QED BY <2>1, <2>3, <3>1
    <2> QED BY <2>2, <2>3
  <1>4. way = row(way)
    <2> DEFINE g == row(way)
    <2>1. g = [n \in 1..N |-> g[n]] OBVIOUS
    <2>2. \A n \in 1..N : way[n] = g[n] BY <1>3
    <2> HIDE DEF g
    <2>3. way = g BY <2>1, <2>2
    <2> QED BY <2>3 DEF g
  <1>5. up = row(up) BY <1>4
  <1> HIDE DEF up
  <1> DEFINE same == {n \in 0..N : n = 0 \/ up[n] = path[n]}
  <1>6. \A n \in 1..N : n - 1 \in same => n \in same
    <2> SUFFICES ASSUME NEW n \in 1..N, n - 1 \in same PROVE up[n] = path[n]
      BY <1>1
    <2>1. up[n] = LET below == IF n = 1 THEN b ELSE up[n-1]
                  IN  IF below = None THEN None ELSE parent[below]
      BY <1>5
    <2>2. n \in 1..last /\ path[n] = IF path[n-1] = None THEN None ELSE parent[path[n-1]]
      BY <1>1 DEF Climbs
    <2>3. CASE n = 1 BY <2>1, <2>2, <2>3 DEF Climbs
    <2>4. CASE n # 1
      <3>1. up[n-1] = path[n-1] BY <1>1, <2>4
      <3> QED BY <2>1, <2>2, <2>4, <3>1
    <2> QED BY <2>3, <2>4
  <1>7. 0..N \subseteq same
    <2>1. 0 \in same BY <1>1
    <2> HIDE DEF same, N
    <2> QED BY <1>1, <1>6, <2>1, PlacesAreInductive
  <1>8. \A n \in 1..N : up[n] = path[n] BY <1>1, <1>7
  <1>9. Above(parent, b) = {up[n] : n \in 1..N} \ {None} BY DEF Above, up, Height
  <1> QED BY <1>8, <1>9

\* A row of numbers has a greatest one.
LEMMA GreatestPlace ==
  ASSUME NEW n \in Nat \ {0}, NEW g \in [1..n -> Nat]
  PROVE  \E j \in 1..n : \A i \in 1..n : g[i] <= g[j]
  <1> DEFINE S == {k \in 0..n : k = 0 \/ \E j \in 1..k : \A i \in 1..k : g[i] <= g[j]}
  <1>1. ASSUME NEW k \in 1..n, k - 1 \in S
        PROVE  k \in 0..n /\ \E j \in 1..k : \A i \in 1..k : g[i] <= g[j]
    <2>0. k \in 0..n /\ k \in Nat /\ k >= 1 OBVIOUS
    <2>1. CASE k = 1
      <3>1. 1 \in 1..k /\ g[1] \in Nat /\ \A i \in 1..k : i = 1 BY <2>1
      <3>2. \A i \in 1..k : g[i] <= g[1] BY <3>1
      <3> QED BY <2>0, <3>1, <3>2
    <2>2. CASE k # 1
      <3>1. PICK j \in 1..(k-1) : \A i \in 1..(k-1) : g[i] <= g[j] BY <1>1, <2>2
      <3>2. j \in 1..n /\ g[j] \in Nat /\ g[k] \in Nat OBVIOUS
      <3>3. CASE g[k] <= g[j]
        <4>1. j \in 1..k /\ \A i \in 1..k : i \in 1..(k-1) \/ i = k OBVIOUS
        <4> QED BY <2>0, <3>1, <3>3, <4>1
      <3>4. CASE g[j] < g[k]
        <4>1. ASSUME NEW i \in 1..k PROVE g[i] <= g[k]
          <5>1. i \in 1..n /\ g[i] \in Nat OBVIOUS
          <5>2. CASE i = k BY <5>1, <5>2
          <5>3. CASE i # k
            <6>1. i \in 1..(k-1) BY <5>3
            <6> QED BY <3>1, <3>2, <3>4, <5>1, <6>1
          <5> QED BY <5>2, <5>3
        <4>2. k \in 1..k BY <2>0
        <4> QED BY <2>0, <4>1, <4>2
      <3> QED BY <3>2, <3>3, <3>4
    <2> QED BY <2>1, <2>2
  <1>2. 0 \in S OBVIOUS
  <1>3. \A k \in 1..n : k - 1 \in S => k \in S BY <1>1
  <1>4. n \in S
    <2> HIDE DEF S
    <2>1. 0..n \subseteq S BY <1>2, <1>3, PlacesAreInductive
    <2>2. n \in 0..n OBVIOUS
    <2> QED BY <2>1, <2>2
  <1>5. n # 0 OBVIOUS
  <1> QED BY <1>4, <1>5

\* Of every cycle the block with the latest intent loses its parent, so that no
\* block is above itself afterwards (break_structure_cycles).
LEMMA BreakCyclesIsForest ==
  ASSUME NEW db \in Databases, NEW bound \in Parentage
  PROVE  /\ BreakCycles(db, bound) \in Parentage
         /\ \A b \in Blocks : b \notin Above(BreakCycles(db, bound), b)
  <1> DEFINE N == Height
             latest(b) == LET cycle == Above(bound, b)
                          IN  b \in cycle /\ \A c \in cycle : db.structure[c].at <= db.structure[b].at
             stamp(x) == db.structure[x].at
  <1>1. PICK parents : parents = BreakCycles(db, bound) OBVIOUS
  <1>2. \A b \in Blocks :
          /\ parents[b] = IF bound[b] # None /\ latest(b) THEN None ELSE bound[b]
    BY <1>1 DEF BreakCycles
  <1>3. parents \in Parentage
    <2>1. \A b \in Blocks : parents[b] \in Blocks \cup {None}
      <3> HIDE DEF latest
      <3> QED BY <1>2 DEF Parentage
    <2>2. parents = [b \in Blocks |-> parents[b]] BY <1>1 DEF BreakCycles
    <2> QED BY <2>1, <2>2 DEF Parentage
  <1>4. N \in Nat /\ N <= 2 * N /\ 2 * N \in Nat BY HeightType
  <1>5. ASSUME NEW b \in Blocks, b \in Above(parents, b) PROVE FALSE
    <2> HIDE DEF latest, N
    <2>1. PICK Q \in [0..N -> Blocks \cup {None}] : Climbs(Q, parents, b, N)
      BY <1>3, <1>4, PathExists
    <2>2. Above(parents, b) = {Q[i] : i \in 1..N} \ {None}
      <3>1. Height = N /\ Height <= N BY <1>4 DEF N
      <3> QED BY <1>3, <1>4, <2>1, <3>1, AboveIs
    <2>3. PICK n \in 1..N : Q[n] = b BY <1>5, <2>2
    <2>4. PICK P \in [0..(2*N) -> Blocks \cup {None}] : Climbs(P, bound, b, 2 * N)
      BY <1>4, PathExists
    <2>5. n \in Nat /\ n >= 1 /\ n <= N /\ b # None BY <1>4, <2>3, EngineAssumption
    \* Up to its return the way in the repaired tree meets no root.
    <2>6. \A k \in 0..n : Q[k] # None
      <3> SUFFICES ASSUME NEW k \in 0..n, Q[k] = None PROVE FALSE OBVIOUS
      <3> DEFINE S == {i \in 0..(n - k) : Q[k + i] = None}
      <3>1. n - k \in Nat /\ 0 \in S BY <2>5
      <3>2. \A i \in 1..(n - k) : i - 1 \in S => i \in S
        <4> SUFFICES ASSUME NEW i \in 1..(n - k), Q[k + (i - 1)] = None PROVE Q[k + i] = None
          <5>1. \A i \in 1..(n - k) : i \in 0..(n - k) BY <2>5
          <5> QED BY <5>1
        <4>1. k + i \in 1..N /\ (k + i) - 1 = k + (i - 1) BY <1>4, <2>5
        <4> QED BY <2>1, <4>1 DEF Climbs
      <3>3. n - k \in S
        <4> HIDE DEF S
        <4>1. 0..(n - k) \subseteq S BY <3>1, <3>2, PlacesAreInductive
        <4> QED BY <3>1, <4>1
      <3>4. k + (n - k) = n BY <2>5
      <3> QED BY <2>3, <2>5, <3>3, <3>4
    \* So it is the way before the repair.
    <2>7. \A k \in 0..n : P[k] = Q[k]
      <3> DEFINE S == {k \in 0..n : P[k] = Q[k]}
      <3>1. 0 \in S BY <2>1, <2>4, <2>5 DEF Climbs
      <3>2. \A k \in 1..n : k - 1 \in S => k \in S
        <4> SUFFICES ASSUME NEW k \in 1..n, P[k-1] = Q[k-1] PROVE P[k] = Q[k] BY <2>5
        <4>1. k \in 1..N /\ k \in 1..(2*N) /\ k \in 0..n /\ k - 1 \in 0..n BY <1>4, <2>5
        <4>2. Q[k-1] # None /\ Q[k] # None /\ Q[k-1] \in Blocks BY <1>4, <2>1, <2>5, <2>6, <4>1
        <4>3. Q[k] = parents[Q[k-1]] /\ P[k] = bound[Q[k-1]]
          BY <2>1, <2>4, <4>1, <4>2 DEF Climbs
        <4> QED BY <1>2, <4>2, <4>3
      <3>3. 0..n \subseteq S
        <4> HIDE DEF S
        <4> QED BY <2>5, <3>1, <3>2, PlacesAreInductive
      <3> QED BY <3>3
    <2>8. P[0] = b /\ P[n] = b
      BY <2>3, <2>4, <2>5, <2>7 DEF Climbs
    <2>9. \A k \in 0..n : P[k] \in Blocks
      BY <1>4, <2>1, <2>5, <2>6, <2>7
    \* Whoever follows it stays on the cycle.
    <2>10. \A k \in 1..(2*N) : \E i \in 1..n : P[k] = P[i]
      <3> DEFINE S == {k \in 0..(2*N) : k = 0 \/ \E i \in 1..n : P[k] = P[i]}
      <3>1. 0 \in S BY <1>4
      <3>2. \A k \in 1..(2*N) : k - 1 \in S => k \in S
        <4> SUFFICES ASSUME NEW k \in 1..(2*N), k - 1 \in S
                     PROVE  \E i \in 1..n : P[k] = P[i]
          BY <1>4
        <4>1. P[k] = IF P[k-1] = None THEN None ELSE bound[P[k-1]] BY <2>4 DEF Climbs
        <4>2. CASE k = 1 BY <2>5, <4>2
        <4>3. CASE k # 1
          <5>1. PICK i \in 1..n : P[k-1] = P[i] BY <1>4, <4>3
          <5>2. CASE i < n
            <6>1. i + 1 \in 1..n /\ i + 1 \in 1..(2*N) /\ (i + 1) - 1 = i BY <1>4, <2>5, <5>2
            <6>2. P[i+1] = IF P[i] = None THEN None ELSE bound[P[i]]
              BY <2>4, <6>1 DEF Climbs
            <6> QED BY <4>1, <5>1, <6>1, <6>2
          <5>3. CASE i = n
            <6>1. 1 \in 1..n /\ 1 \in 1..(2*N) /\ 1 - 1 = 0 BY <1>4, <2>5
            <6>2. P[1] = IF P[0] = None THEN None ELSE bound[P[0]]
              BY <2>4, <6>1 DEF Climbs
            <6> QED BY <2>8, <4>1, <5>1, <5>3, <6>1, <6>2
          <5> QED BY <2>5, <5>2, <5>3
        <4> QED BY <4>2, <4>3
      <3>3. 0..(2*N) \subseteq S
        <4> HIDE DEF S
        <4> QED BY <1>4, <3>1, <3>2, PlacesAreInductive
      <3> QED BY <1>4, <3>3
    <2>11. PICK j \in 1..n : \A i \in 1..n : stamp(P[i]) <= stamp(P[j])
      <3> DEFINE g == [i \in 1..n |-> stamp(P[i])]
      <3>1. \A i \in 1..n : stamp(P[i]) \in Nat BY <2>5, <2>9 DEF Databases
      <3>2. g \in [1..n -> Nat] BY <3>1
      <3> HIDE DEF g
      <3>3. PICK j \in 1..n : \A i \in 1..n : g[i] <= g[j]
        <4>1. n \in Nat \ {0} BY <2>5
        <4> QED BY <3>2, <4>1, GreatestPlace
      <3>4. \A i \in 1..n : g[i] = stamp(P[i]) BY DEF g
      <3> QED BY <3>3, <3>4
    <2>12. PICK m : m = P[j] OBVIOUS
    <2>13. m \in Blocks /\ m = Q[j] /\ j \in 0..n /\ m # None BY <2>5, <2>6, <2>7, <2>9, <2>12
    <2>14. PICK R \in [0..N -> Blocks \cup {None}] : Climbs(R, bound, m, N)
      BY <1>4, <2>13, PathExists
    <2>15. Above(bound, m) = {R[i] : i \in 1..N} \ {None}
      <3>1. Height = N /\ Height <= N /\ N \in Nat /\ m \in Blocks BY <1>4, <2>13 DEF N
      <3> QED BY <2>14, <3>1, AboveIs
    <2>16. \A i \in 0..N : R[i] = P[j + i]
      <3> DEFINE S == {i \in 0..N : R[i] = P[j + i]}
      <3>1. 0 \in S BY <1>4, <2>5, <2>12, <2>14 DEF Climbs
      <3>2. \A i \in 1..N : i - 1 \in S => i \in S
        <4> SUFFICES ASSUME NEW i \in 1..N, R[i-1] = P[j + (i - 1)] PROVE R[i] = P[j + i]
          BY <1>4
        <4>1. j + i \in 1..(2*N) /\ (j + i) - 1 = j + (i - 1) BY <1>4, <2>5
        <4>2. P[j+i] = IF P[j + (i - 1)] = None THEN None ELSE bound[P[j + (i - 1)]]
          BY <2>4, <4>1 DEF Climbs
        <4> QED BY <2>14, <4>2 DEF Climbs
      <3>3. 0..N \subseteq S
        <4> HIDE DEF S
        <4> QED BY <1>4, <3>1, <3>2, PlacesAreInductive
      <3> QED BY <3>3
    <2>17. ASSUME NEW c \in Above(bound, m) PROVE stamp(c) <= stamp(m)
      <3>1. PICK i \in 1..N : R[i] = c BY <2>15
      <3>2. i \in 0..N /\ j + i \in 1..(2*N) BY <1>4, <2>5
      <3>3. PICK k \in 1..n : P[j + i] = P[k] BY <2>10, <3>2
      <3> QED BY <2>11, <2>12, <2>16, <3>1, <3>2, <3>3
    <2>18. m \in Above(bound, m)
      <3> DEFINE S == {i \in 0..j : R[(n - j) + i] = P[i]}
      <3>1. j \in Nat /\ n - j \in 0..N /\ j + (n - j) = n BY <1>4, <2>5
      <3>2. 0 \in S BY <2>8, <2>16, <3>1
      <3>3. \A i \in 1..j : i - 1 \in S => i \in S
        <4> SUFFICES ASSUME NEW i \in 1..j, R[(n - j) + (i - 1)] = P[i-1]
                     PROVE  R[(n - j) + i] = P[i]
          BY <3>1
        <4>1. /\ (n - j) + i \in 1..N /\ ((n - j) + i) - 1 = (n - j) + (i - 1)
              /\ i \in 1..(2*N)
          BY <1>4, <2>5, <3>1
        <4>2. R[(n - j) + i] = IF R[(n - j) + (i - 1)] = None THEN None
                               ELSE bound[R[(n - j) + (i - 1)]]
          BY <2>14, <4>1 DEF Climbs
        <4>3. P[i] = IF P[i-1] = None THEN None ELSE bound[P[i-1]] BY <2>4, <4>1 DEF Climbs
        <4> QED BY <4>2, <4>3
      <3>4. j \in S
        <4> HIDE DEF S
        <4>1. 0..j \subseteq S BY <3>1, <3>2, <3>3, PlacesAreInductive
        <4> QED BY <3>1, <4>1
      <3>5. R[n] = m
        <4>1. (n - j) + j = n BY <2>5, <3>1
        <4> QED BY <2>12, <3>4, <4>1
      <3>6. n \in 1..N BY <1>4, <2>5
      <3> QED BY <2>13, <2>15, <3>5, <3>6
    <2>19. parents[m] = None
      <3>1. latest(m) BY <2>17, <2>18 DEF latest
      <3> QED BY <1>2, <2>13, <3>1
    <2>20. CASE j < n
      <3>1. j + 1 \in 1..N /\ j + 1 \in 0..n /\ (j + 1) - 1 = j BY <1>4, <2>5, <2>20
      <3>2. Q[j+1] = None BY <2>1, <2>13, <2>19, <3>1 DEF Climbs
      <3> QED BY <2>6, <3>1, <3>2
    <2>21. CASE j = n
      <3>1. 1 \in 1..N /\ 1 \in 0..n /\ 1 - 1 = 0 BY <1>4, <2>5
      <3>2. Q[0] = m BY <2>1, <2>3, <2>13, <2>21 DEF Climbs
      <3>3. Q[1] = None BY <2>1, <2>13, <2>19, <3>1, <3>2 DEF Climbs
      <3> QED BY <2>6, <3>1, <3>3
    <2> QED BY <2>5, <2>20, <2>21
  <1> QED BY <1>1, <1>3, <1>5

\* After the repair of the tree at the end of a transaction no block is above
\* itself, whatever intents the database holds (reconcile_structure).
THEOREM ReconcileMakesAForest ==
  ASSUME NEW db \in Databases
  PROVE  \A b \in Blocks : b \notin Above(ParentOf(ReconcileStructure(db)), b)
  <1> DEFINE bound == [b \in Blocks |-> IF Structured(db, b) THEN BoundParent(db, b) ELSE None]
             rows  == [b \in Blocks |-> [db.blocks[b] EXCEPT !.parent = BreakCycles(db, bound)[b]]]
  <1>1. bound \in Parentage
    <2>1. ASSUME NEW b \in Blocks PROVE BoundParent(db, b) \in Blocks \cup {None}
      <3>1. db.structure[b].parent \in Blocks \cup {None} BY DEF Databases
      <3> QED BY <3>1 DEF BoundParent
    <2> QED BY <2>1 DEF Parentage
  <1>2. ReconcileStructure(db) = [db EXCEPT !.blocks = rows] BY DEF ReconcileStructure
  <1> HIDE DEF bound
  <1>3. PICK parents \in Parentage : parents = BreakCycles(db, bound)
    BY <1>1, BreakCyclesIsForest
  <1>4. \A b \in Blocks : rows[b].parent = parents[b]
    <2> SUFFICES ASSUME NEW b \in Blocks PROVE rows[b].parent = parents[b] OBVIOUS
    <2>1. rows[b] = [db.blocks[b] EXCEPT !.parent = parents[b]] BY <1>3
    <2>2. db.blocks[b] \in [existence : Nat, parent : Blocks \cup {None}, markdownAt : Nat]
      BY DEF Databases
    <2> HIDE DEF rows
    <2> QED BY <2>1, <2>2
  <1> HIDE DEF rows
  <1>5. ReconcileStructure(db).blocks = rows BY <1>2 DEF Databases
  <1>6. ParentOf(ReconcileStructure(db)) = parents
    BY <1>3, <1>4, <1>5 DEF ParentOf, Parentage
  <1> QED BY <1>1, <1>3, <1>6, BreakCyclesIsForest

-----------------------------------------------------------------------------
(* The tree of a repaired database *)

BoundOf(db) == [b \in Blocks |-> IF Structured(db, b) THEN BoundParent(db, b) ELSE None]
TreeOf(db)  == BreakCycles(db, BoundOf(db))

LEMMA TreeIs ==
  ASSUME NEW db, NEW b \in Blocks
  PROVE  TreeOf(db)[b] \in {None, BoundOf(db)[b]}
  BY DEF TreeOf, BreakCycles

LEMMA RepairIs ==
  ASSUME NEW db \in Databases
  PROVE  LET after == ReconcileStructure(db)
         IN  /\ after \in Databases
             /\ after.pages = db.pages /\ after.tombstones = db.tombstones
             /\ after.structure = db.structure
             /\ \A b \in Blocks : /\ after.blocks[b].existence = db.blocks[b].existence
                                  /\ after.blocks[b].markdownAt = db.blocks[b].markdownAt
                                  /\ after.blocks[b].parent = TreeOf(db)[b]
  <1> DEFINE Row     == [existence : Nat, parent : Blocks \cup {None}, markdownAt : Nat]
             parents == TreeOf(db)
             rows    == [b \in Blocks |-> [db.blocks[b] EXCEPT !.parent = parents[b]]]
             after   == ReconcileStructure(db)
  <1>1. after = [db EXCEPT !.blocks = rows] BY DEF ReconcileStructure, TreeOf, BoundOf
  <1>2. ASSUME NEW b \in Blocks PROVE parents[b] \in Blocks \cup {None}
    <2>1. db.structure[b].parent \in Blocks \cup {None} BY DEF Databases
    <2>2. BoundOf(db)[b] \in Blocks \cup {None} BY <2>1 DEF BoundOf, BoundParent
    <2> QED BY <2>2, TreeIs
  <1> HIDE DEF parents, after
  <1>3. ASSUME NEW b \in Blocks
        PROVE  /\ rows[b] \in Row
               /\ rows[b].existence = db.blocks[b].existence
               /\ rows[b].markdownAt = db.blocks[b].markdownAt
               /\ rows[b].parent = parents[b]
    <2>1. db.blocks[b] \in Row BY DEF Databases
    <2>2. rows[b] = [db.blocks[b] EXCEPT !.parent = parents[b]] OBVIOUS
    <2> HIDE DEF rows
    <2> QED BY <1>2, <2>1, <2>2
  <1>4. rows \in [Blocks -> Row] BY <1>3
  <1> HIDE DEF rows
  <1>5. /\ after \in Databases /\ after.pages = db.pages /\ after.tombstones = db.tombstones
        /\ after.structure = db.structure /\ after.blocks = rows
    BY <1>1, <1>4 DEF Databases
  <1> QED BY <1>3, <1>5 DEF after, parents

\* The tree depends on which pages and blocks are there, on when the blocks were
\* created and on their intents, and on nothing else.
LEMMA SameTree ==
  ASSUME NEW db, NEW other, db.structure = other.structure,
         \A p \in Pages : PageExists(db, p) <=> PageExists(other, p),
         \A b \in Blocks : db.blocks[b].existence = other.blocks[b].existence,
         \A b \in Blocks : other.structure[b].parent \in Blocks \cup {None}
  PROVE  TreeOf(db) = TreeOf(other)
  <1>1. \A b \in Blocks : Structured(db, b) <=> Structured(other, b)
    BY EngineAssumption DEF Structured, BlockExists
  <1>2. ASSUME NEW b \in Blocks PROVE BoundParent(db, b) = BoundParent(other, b)
    <2> DEFINE up == other.structure[b].parent
    <2>1. CASE up = None BY <2>1 DEF BoundParent
    <2>2. CASE up \in Blocks BY <1>1, <2>2 DEF BoundParent
    <2> QED BY <2>1, <2>2
  <1>3. BoundOf(db) = BoundOf(other) BY <1>1, <1>2 DEF BoundOf
  <1> QED BY <1>3 DEF TreeOf, BreakCycles

\* What is repaired stays as it is when it is repaired again.
LEMMA RepairOnce ==
  ASSUME NEW db \in Databases
  PROVE  ReconcileStructure(ReconcileStructure(db)) = ReconcileStructure(db)
  <1> DEFINE Row   == [existence : Nat, parent : Blocks \cup {None}, markdownAt : Nat]
             first == ReconcileStructure(db)
             again == ReconcileStructure(first)
  <1>1. /\ first \in Databases
        /\ first.pages = db.pages /\ first.structure = db.structure
        /\ \A b \in Blocks : /\ first.blocks[b].existence = db.blocks[b].existence
                             /\ first.blocks[b].parent = TreeOf(db)[b]
    BY RepairIs
  <1> HIDE DEF first
  <1>2. /\ again \in Databases
        /\ again.pages = first.pages /\ again.tombstones = first.tombstones
        /\ again.structure = first.structure
        /\ \A b \in Blocks : /\ again.blocks[b].existence = first.blocks[b].existence
                             /\ again.blocks[b].markdownAt = first.blocks[b].markdownAt
                             /\ again.blocks[b].parent = TreeOf(first)[b]
    BY <1>1, RepairIs
  <1> HIDE DEF again
  <1>3. TreeOf(first) = TreeOf(db)
    <2>1. \A b \in Blocks : db.structure[b].parent \in Blocks \cup {None} BY DEF Databases
    <2>2. \A p \in Pages : PageExists(first, p) <=> PageExists(db, p) BY <1>1 DEF PageExists
    <2> QED BY <1>1, <2>1, <2>2, SameTree
  <1>4. again.blocks = first.blocks
    <2>1. again.blocks \in [Blocks -> Row] /\ first.blocks \in [Blocks -> Row] BY <1>1, <1>2 DEF Databases
    <2>2. ASSUME NEW b \in Blocks PROVE again.blocks[b] = first.blocks[b]
      <3>1. again.blocks[b] \in Row /\ first.blocks[b] \in Row BY <2>1
      <3>2. /\ again.blocks[b].existence = first.blocks[b].existence
            /\ again.blocks[b].markdownAt = first.blocks[b].markdownAt
            /\ again.blocks[b].parent = first.blocks[b].parent
        BY <1>1, <1>2, <1>3
      <3> QED BY <3>1, <3>2
    <2> QED BY <2>1, <2>2
  <1> QED BY <1>1, <1>2, <1>4 DEF Databases, first, again

\* The parent of a block is another block of its page, and is there.
LEMMA ParentIsThere ==
  ASSUME NEW db \in Databases, ReconcileStructure(db) = db,
         NEW b \in Blocks, BlockTidy(db, b), db.blocks[b].parent # None
  PROVE  /\ db.blocks[b].parent \in PlacesOf(b)
         /\ db.blocks[b].parent \in Blocks
         /\ BlockExists(db, db.blocks[b].parent) /\ BlockExists(db, b)
         /\ PageOf[db.blocks[b].parent] = PageOf[b]
         /\ db.blocks[b].parent \in Heard(db)
  <1> DEFINE up == db.blocks[b].parent
  <1>1. up = BoundOf(db)[b]
    <2>1. up = TreeOf(db)[b] BY RepairIs
    <2> QED BY <2>1, TreeIs
  <1>2. Structured(db, b) /\ up = BoundParent(db, b) BY <1>1 DEF BoundOf
  <1>3. /\ up = db.structure[b].parent /\ Structured(db, up) /\ PageOf[up] = PageOf[b]
    BY <1>2 DEF BoundParent
  <1>4. BlockExists(db, b) /\ BlockExists(db, up) BY <1>2, <1>3 DEF Structured
  <1>5. up \in PlacesOf(b) BY <1>3, <1>4 DEF BlockTidy
  <1>6. up \in Blocks BY <1>5 DEF PlacesOf
  <1> QED BY <1>3, <1>4, <1>5, <1>6, HeardMembers

-----------------------------------------------------------------------------
(* Replicas that show the same operations *)

StampsDiffer(A) == \A x, y \in A : x.at = y.at => x = y

LEMMA LatestIsOne ==
  ASSUME NEW A, StampsDiffer(A), \A x \in A : x.at \in Nat, NEW X \in SUBSET A,
         NEW x, NEW y, Latest(X, x), Latest(X, y)
  PROVE  x = y
  <1>1. x \in A /\ y \in A /\ x.at <= y.at /\ y.at <= x.at BY DEF Latest
  <1>2. x.at = y.at BY <1>1
  <1> QED BY <1>1, <1>2 DEF StampsDiffer

\* A page that was created once is the same, a title that only it claims included.
LEMMA SamePage ==
  ASSUME NEW A, Past(A), StampsDiffer(A), NEW p \in Pages, Once(A, p),
         NEW db \in Databases, NEW other \in Databases, Shows(db, A), Shows(other, A)
  PROVE  /\ db.pages[p].existence = other.pages[p].existence
         /\ Alone(A, p) => db.pages[p] = other.pages[p]
  <1>1. /\ PageTidy(db, A, p) /\ PageTidy(other, A, p)
        /\ PageKept(db, A, p) /\ PageKept(other, A, p)
        /\ Heard(db) = Made(A) /\ Heard(other) = Made(A)
    BY DEF Shows, PageShown
  <1>2. db.pages[p] \in [existence : Nat, title : Titles \cup {None}, titleAt : Nat]
        /\ other.pages[p] \in [existence : Nat, title : Titles \cup {None}, titleAt : Nat]
    BY DEF Databases
  <1>3. CASE p \notin Made(A) \/ Deleted(A, p)
    <2>1. ~PageExists(db, p) /\ ~PageExists(other, p) BY <1>1, <1>3, HeardMembers DEF PageKept
    <2>2. db.pages[p] = NoPage /\ other.pages[p] = NoPage BY <1>1, <2>1 DEF PageTidy
    <2> QED BY <2>2
  <1>4. CASE p \in Made(A) /\ ~Deleted(A, p)
    <2>1. PICK c \in A : p \in Makes(c.kind) BY <1>4 DEF Made
    <2>2. db.pages[p].existence = c.at /\ other.pages[p].existence = c.at
      BY <1>1, <1>4, <2>1 DEF PageKept
    <2>3. ASSUME Alone(A, p) PROVE db.pages[p] = other.pages[p]
      <3>1. PICK x \in A : /\ Latest(Names(A, p), x)
                           /\ db.pages[p].titleAt = x.at /\ db.pages[p].title = x.kind.title
        BY <1>1, <1>4, <2>3 DEF PageKept
      <3>2. PICK y \in A : /\ Latest(Names(A, p), y)
                           /\ other.pages[p].titleAt = y.at /\ other.pages[p].title = y.kind.title
        BY <1>1, <1>4, <2>3 DEF PageKept
      <3>3. Names(A, p) \in SUBSET A /\ \A z \in A : z.at \in Nat BY DEF Names, Past, Stamp
      <3>4. x = y BY <3>1, <3>2, <3>3, LatestIsOne
      <3> QED BY <1>2, <2>2, <3>1, <3>2, <3>4
    <2> QED BY <2>2, <2>3
  <1> QED BY <1>3, <1>4

\* A block that was created once, on a page that was, has the same text and place.
LEMMA SameBlock ==
  ASSUME NEW A, Past(A), StampsDiffer(A), NEW b \in Blocks, Once(A, b), Once(A, PageOf[b]),
         NEW db \in Databases, NEW other \in Databases, Shows(db, A), Shows(other, A)
  PROVE  /\ db.structure[b] = other.structure[b]
         /\ db.blocks[b].existence = other.blocks[b].existence
         /\ db.blocks[b].markdownAt = other.blocks[b].markdownAt
  <1>1. /\ BlockTidy(db, b) /\ BlockTidy(other, b)
        /\ BlockKept(db, A, b) /\ BlockKept(other, A, b)
        /\ Heard(db) = Made(A) /\ Heard(other) = Made(A)
    BY DEF Shows, BlockShown
  <1>2. CASE b \notin Made(A) \/ Gone(A, b)
    <2>1. ~BlockExists(db, b) /\ ~BlockExists(other, b) BY <1>1, <1>2, HeardMembers DEF BlockKept
    <2>2. /\ db.blocks[b] = NoBlock /\ other.blocks[b] = NoBlock
          /\ db.structure[b] = NoIntent /\ other.structure[b] = NoIntent
      BY <1>1, <2>1 DEF BlockTidy
    <2> QED BY <2>2
  <1>3. CASE b \in Made(A) /\ ~Gone(A, b)
    <2>0. /\ Texts(A, b) \in SUBSET A /\ Places(A, b) \in SUBSET A
          /\ \A z \in A : z.at \in Nat
      BY DEF Texts, Places, Past, Stamp
    <2>1. PICK c \in A : b \in Makes(c.kind) BY <1>3 DEF Made
    <2>2. db.blocks[b].existence = c.at /\ other.blocks[b].existence = c.at
      BY <1>1, <1>3, <2>1 DEF BlockKept
    <2>3. db.blocks[b].markdownAt = other.blocks[b].markdownAt
      <3>1. PICK x \in A : Latest(Texts(A, b), x) /\ db.blocks[b].markdownAt = x.at
        BY <1>1, <1>3 DEF BlockKept
      <3>2. PICK y \in A : Latest(Texts(A, b), y) /\ other.blocks[b].markdownAt = y.at
        BY <1>1, <1>3 DEF BlockKept
      <3>3. x = y BY <2>0, <3>1, <3>2, LatestIsOne
      <3> QED BY <3>1, <3>2, <3>3
    <2>4. db.structure[b] = other.structure[b]
      <3>1. PICK x \in A : /\ Latest(Places(A, b), x)
                           /\ db.structure[b] = [at |-> x.at, parent |-> x.kind.parent]
        BY <1>1, <1>3 DEF BlockKept
      <3>2. PICK y \in A : /\ Latest(Places(A, b), y)
                           /\ other.structure[b] = [at |-> y.at, parent |-> y.kind.parent]
        BY <1>1, <1>3 DEF BlockKept
      <3>3. x = y BY <2>0, <3>1, <3>2, LatestIsOne
      <3> QED BY <3>1, <3>2, <3>3
    <2> QED BY <2>2, <2>3, <2>4
  <1> QED BY <1>2, <1>3

\* And the tree of blocks is the same if that is so of all of them.
LEMMA SameBlocks ==
  ASSUME NEW A, Past(A), StampsDiffer(A), \A o \in Objects : Once(A, o),
         NEW db \in Databases, NEW other \in Databases, Shows(db, A), Shows(other, A),
         ReconcileStructure(db) = db, ReconcileStructure(other) = other
  PROVE  db.blocks = other.blocks
  <1> DEFINE Row == [existence : Nat, parent : Blocks \cup {None}, markdownAt : Nat]
  <1>1. \A b \in Blocks : /\ db.structure[b] = other.structure[b]
                          /\ db.blocks[b].existence = other.blocks[b].existence
                          /\ db.blocks[b].markdownAt = other.blocks[b].markdownAt
    BY SameBlock, EngineAssumption DEF Objects
  <1>2. \A p \in Pages : PageExists(db, p) <=> PageExists(other, p)
    BY SamePage DEF Objects, PageExists
  <1>3. /\ db.structure \in [Blocks -> [at : Nat, parent : Blocks \cup {None}]]
        /\ other.structure \in [Blocks -> [at : Nat, parent : Blocks \cup {None}]]
        /\ db.blocks \in [Blocks -> Row] /\ other.blocks \in [Blocks -> Row]
    BY DEF Databases
  <1>4. db.structure = other.structure BY <1>1, <1>3
  <1>5. TreeOf(db) = TreeOf(other) BY <1>1, <1>2, <1>3, <1>4, SameTree
  <1>6. ASSUME NEW b \in Blocks PROVE db.blocks[b] = other.blocks[b]
    <2>1. db.blocks[b].parent = TreeOf(db)[b] /\ other.blocks[b].parent = TreeOf(other)[b]
      BY RepairIs
    <2>2. db.blocks[b] \in Row /\ other.blocks[b] \in Row BY <1>3
    <2> QED BY <1>1, <1>5, <2>1, <2>2
  <1> QED BY <1>3, <1>6

-----------------------------------------------------------------------------
(* What a replica keeps of its texts and files *)

Registers == [at : Nat, present : BOOLEAN]
Links     == UNION {[T -> Pages \cup {None}] : T \in SUBSET Titles}

Stores == [db         : Databases,
           identities : SUBSET Pages,
           aliases    : [Pages -> [Titles -> Registers]],
           files      : [Objects -> [Hashes -> Registers]],
           links      : [Blocks -> Links],
           refs       : [Blocks -> SUBSET Blocks],
           attached   : SUBSET (Objects \X Hashes)]

\* Rows that are not there are empty.
Bare(db) == /\ \A p \in Pages : ~PageExists(db, p) => db.pages[p] = NoPage
            /\ \A b \in Blocks : ~BlockExists(db, b) => db.blocks[b] = NoBlock

\* The rows of a block are those of its text, but for where some titles lead.
Reads(s, b, titles) ==
  /\ DOMAIN s.links[b] = TitlesIn(s.db, b)
  /\ \A t \in TitlesIn(s.db, b) \ titles : s.links[b][t] = ResolvePageAlias(s, t)
  /\ s.refs[b] = BlocksIn(s.db, b)

Unread(s, b) == s.links[b] = NoLinks /\ s.refs[b] = {}

FilesShown(s) == {k \in Objects \X Hashes : s.files[k[1]][k[2]].present /\ Exists(s.db, k[1])}

\* Every row is what a newcomer would write, but for the titles and the texts that
\* the effects of the open batch still name.
Reflects(s, titles, texts) ==
  /\ \A b \in Blocks : IF BlockExists(s.db, b) THEN b \in texts \/ Reads(s, b, titles)
                       ELSE b \notin texts /\ Unread(s, b)
  /\ s.attached = FilesShown(s)

Keeps(s, titles, texts) ==
  /\ s \in Stores /\ Consistent(s.db) /\ Bare(s.db)
  /\ texts \subseteq Blocks
  /\ Reflects(s, titles, texts)

Effects == [open : BOOLEAN, deferred : BOOLEAN, titles : SUBSET Titles, texts : SUBSET Blocks,
            before : Stores \cup {<<>>}]

\* The inductive invariant.
RefInv ==
  /\ scenario \in Scenarios
  /\ effects \in Effects
  /\ Keeps(store, effects.titles, effects.texts)
  /\ (effects.open /\ effects.deferred) \/ (effects.titles = {} /\ effects.texts = {})
  /\ effects.open => Keeps(effects.before, {}, {})

\* What Links says of one of them.
LEMMA LinksAre ==
  ASSUME NEW l
  PROVE  l \in Links <=> \E T \in SUBSET Titles : l \in [T -> Pages \cup {None}]
  BY DEF Links

LEMMA NoLinksType == NoLinks \in Links /\ DOMAIN NoLinks = {}
  <1>1. NoLinks \in [{} -> Pages \cup {None}] /\ DOMAIN NoLinks = {} BY DEF NoLinks
  <1>2. {} \in SUBSET Titles OBVIOUS
  <1> QED BY <1>1, <1>2, LinksAre

\* Links whose titles lead elsewhere.
LEMMA LinksMap ==
  ASSUME NEW l \in Links, NEW f, \A t \in DOMAIN l : f[t] \in Pages \cup {None}
  PROVE  /\ DOMAIN l \in SUBSET Titles
         /\ [t \in DOMAIN l |-> f[t]] \in Links
  <1>1. PICK T \in SUBSET Titles : l \in [T -> Pages \cup {None}] BY LinksAre
  <1>2. DOMAIN l = T BY <1>1
  <1>3. [t \in DOMAIN l |-> f[t]] \in [T -> Pages \cup {None}] BY <1>2
  <1> QED BY <1>2, <1>3, LinksAre

LEMMA LinksLead ==
  ASSUME NEW l \in Links, NEW t \in DOMAIN l
  PROVE  t \in Titles /\ l[t] \in Pages \cup {None}
  <1>1. PICK T \in SUBSET Titles : l \in [T -> Pages \cup {None}] BY LinksAre
  <1> QED BY <1>1

\* Where a title leads is a page that has it.
LEMMA ResolvedIs ==
  ASSUME NEW s, NEW t
  PROVE  ResolvePageAlias(s, t) \in Candidates(s, t) \cup {None}
  <1>1. CASE Candidates(s, t) = {}
    <2>1. Cardinality(Candidates(s, t)) = 0 BY <1>1, FS_EmptySet
    <2> QED BY <2>1 DEF ResolvePageAlias
  <1>2. CASE Candidates(s, t) # {} BY <1>2 DEF ResolvePageAlias
  <1> QED BY <1>1, <1>2

LEMMA ResolvedType ==
  ASSUME NEW s, NEW t PROVE ResolvePageAlias(s, t) \in Pages \cup {None}
  BY ResolvedIs DEF Candidates

\* The foreign keys (ON DELETE CASCADE, ON DELETE SET NULL).
LEMMA CascadeFields ==
  ASSUME NEW s \in Stores, NEW after \in Databases
  PROVE  LET c    == Cascade(s, after)
             gone == Vanished(s.db, after)
         IN  /\ c \in Stores
             /\ c.db = after /\ c.identities = s.identities
             /\ c.aliases = s.aliases /\ c.files = s.files
             /\ \A b \in Blocks :
                  /\ b \in gone => c.links[b] = NoLinks /\ c.refs[b] = {}
                  /\ b \notin gone =>
                       /\ c.links[b] = [t \in DOMAIN s.links[b] |->
                                          IF s.links[b][t] \in gone THEN None ELSE s.links[b][t]]
                       /\ c.refs[b] = s.refs[b]
             /\ c.attached = {a \in s.attached : a[1] \notin gone}
  <1> DEFINE gone  == Vanished(s.db, after)
             lead(b) == [t \in DOMAIN s.links[b] |-> IF s.links[b][t] \in gone THEN None ELSE s.links[b][t]]
             links == [b \in Blocks |-> IF b \in gone THEN NoLinks ELSE lead(b)]
             refs  == [b \in Blocks |-> IF b \in gone THEN {} ELSE s.refs[b]]
             files == {a \in s.attached : a[1] \notin gone}
             c     == Cascade(s, after)
  <1>1. /\ s.links \in [Blocks -> Links] /\ s.refs \in [Blocks -> SUBSET Blocks]
        /\ s.attached \in SUBSET (Objects \X Hashes)
    BY DEF Stores
  <1>2. c = [s EXCEPT !.db = after, !.links = links, !.refs = refs, !.attached = files]
    BY <1>1 DEF Cascade, Stores
  <1>3. ASSUME NEW b \in Blocks PROVE lead(b) \in Links
    <2> DEFINE f == [t \in DOMAIN s.links[b] |-> IF s.links[b][t] \in gone THEN None ELSE s.links[b][t]]
    <2>1. s.links[b] \in Links BY <1>1
    <2>2. \A t \in DOMAIN s.links[b] : f[t] \in Pages \cup {None} BY <2>1, LinksLead
    <2>3. [t \in DOMAIN s.links[b] |-> f[t]] \in Links BY <2>1, <2>2, LinksMap
    <2>4. [t \in DOMAIN s.links[b] |-> f[t]] = f OBVIOUS
    <2> QED BY <2>3, <2>4
  <1> HIDE DEF lead, gone
  <1>4. links \in [Blocks -> Links] BY <1>3, NoLinksType
  <1>5. refs \in [Blocks -> SUBSET Blocks] /\ files \in SUBSET (Objects \X Hashes) BY <1>1
  <1>6. \A b \in Blocks : /\ b \in gone => links[b] = NoLinks /\ refs[b] = {}
                          /\ b \notin gone => links[b] = lead(b) /\ refs[b] = s.refs[b]
    OBVIOUS
  <1> HIDE DEF links, refs, files, c
  <1>7. /\ c \in Stores /\ c.db = after /\ c.identities = s.identities
        /\ c.aliases = s.aliases /\ c.files = s.files
        /\ c.links = links /\ c.refs = refs /\ c.attached = files
    BY <1>2, <1>4, <1>5 DEF Stores
  <1>8. \A b \in Blocks : /\ b \in gone => c.links[b] = NoLinks /\ c.refs[b] = {}
                          /\ b \notin gone => c.links[b] = lead(b) /\ c.refs[b] = s.refs[b]
    BY <1>6, <1>7
  <1>9. c.attached = {a \in s.attached : a[1] \notin gone} BY <1>7 DEF files
  <1> QED BY <1>7, <1>8, <1>9 DEF c, lead, gone

LEMMA FilesFields ==
  ASSUME NEW s \in Stores, NEW K \in SUBSET (Objects \X Hashes)
  PROVE  LET r == ReconcileFiles(s, K)
         IN  /\ r \in Stores
             /\ r.db = s.db /\ r.identities = s.identities /\ r.aliases = s.aliases
             /\ r.files = s.files /\ r.links = s.links /\ r.refs = s.refs
             /\ \A k \in Objects \X Hashes :
                  k \in r.attached <=> IF k \in K THEN k \in FilesShown(s) ELSE k \in s.attached
  <1> DEFINE shown == (s.attached \ K)
                      \cup {k \in K : s.files[k[1]][k[2]].present /\ Exists(s.db, k[1])}
             r     == ReconcileFiles(s, K)
  <1>1. s.attached \in SUBSET (Objects \X Hashes) BY DEF Stores
  <1>2. r = [s EXCEPT !.attached = shown] BY DEF ReconcileFiles, Stores
  <1>3. shown \in SUBSET (Objects \X Hashes) BY <1>1
  <1>4. \A k \in Objects \X Hashes :
          k \in shown <=> IF k \in K THEN k \in FilesShown(s) ELSE k \in s.attached
    BY DEF FilesShown
  <1> HIDE DEF shown, r
  <1>5. /\ r \in Stores
        /\ r.db = s.db /\ r.identities = s.identities /\ r.aliases = s.aliases
        /\ r.files = s.files /\ r.links = s.links /\ r.refs = s.refs
        /\ r.attached = shown
    BY <1>2, <1>3 DEF Stores
  <1> QED BY <1>4, <1>5 DEF r

LEMMA LinksFields ==
  ASSUME NEW s \in Stores, NEW T
  PROVE  LET r == ReconcileLinks(s, T)
         IN  /\ r \in Stores
             /\ r.db = s.db /\ r.identities = s.identities /\ r.aliases = s.aliases
             /\ r.files = s.files /\ r.refs = s.refs /\ r.attached = s.attached
             /\ \A b \in Blocks :
                  r.links[b] = [t \in DOMAIN s.links[b] |->
                                  IF t \in T THEN ResolvePageAlias(s, t) ELSE s.links[b][t]]
  <1> DEFINE lead(b) == [t \in DOMAIN s.links[b] |->
                           IF t \in T THEN ResolvePageAlias(s, t) ELSE s.links[b][t]]
             links   == [b \in Blocks |-> lead(b)]
             r       == ReconcileLinks(s, T)
  <1>1. s.links \in [Blocks -> Links] BY DEF Stores
  <1>2. r = [s EXCEPT !.links = links] BY <1>1 DEF ReconcileLinks, Stores
  <1>3. ASSUME NEW b \in Blocks PROVE lead(b) \in Links
    <2> DEFINE f == [t \in DOMAIN s.links[b] |->
                       IF t \in T THEN ResolvePageAlias(s, t) ELSE s.links[b][t]]
    <2>1. s.links[b] \in Links BY <1>1
    <2>2. \A t \in DOMAIN s.links[b] : f[t] \in Pages \cup {None}
      BY <2>1, LinksLead, ResolvedType
    <2>3. [t \in DOMAIN s.links[b] |-> f[t]] \in Links BY <2>1, <2>2, LinksMap
    <2>4. [t \in DOMAIN s.links[b] |-> f[t]] = f OBVIOUS
    <2> QED BY <2>3, <2>4
  <1> HIDE DEF lead
  <1>4. links \in [Blocks -> Links] /\ \A b \in Blocks : links[b] = lead(b) BY <1>3
  <1> HIDE DEF links, r
  <1>5. /\ r \in Stores
        /\ r.db = s.db /\ r.identities = s.identities /\ r.aliases = s.aliases
        /\ r.files = s.files /\ r.refs = s.refs /\ r.attached = s.attached
        /\ r.links = links
    BY <1>2, <1>4 DEF Stores
  <1>6. \A b \in Blocks : r.links[b] = lead(b) BY <1>4, <1>5
  <1> QED BY <1>5, <1>6 DEF r, lead

LEMMA RefsFields ==
  ASSUME NEW s \in Stores, NEW B \in SUBSET Blocks
  PROVE  LET r == ReplaceRefs(s, B)
         IN  /\ r \in Stores
             /\ r.db = s.db /\ r.identities = s.identities /\ r.aliases = s.aliases
             /\ r.files = s.files /\ r.attached = s.attached
             /\ \A b \in Blocks :
                  /\ b \in B => /\ r.links[b] = [t \in TitlesIn(s.db, b) |-> ResolvePageAlias(s, t)]
                                /\ r.refs[b] = BlocksIn(s.db, b)
                  /\ b \notin B => r.links[b] = s.links[b] /\ r.refs[b] = s.refs[b]
  <1> DEFINE lead(b) == [t \in TitlesIn(s.db, b) |-> ResolvePageAlias(s, t)]
             links == [b \in Blocks |-> IF b \in B THEN lead(b) ELSE s.links[b]]
             refs  == [b \in Blocks |-> IF b \in B THEN BlocksIn(s.db, b) ELSE s.refs[b]]
             r     == ReplaceRefs(s, B)
  <1>1. s.links \in [Blocks -> Links] /\ s.refs \in [Blocks -> SUBSET Blocks] BY DEF Stores
  <1>2. r = [s EXCEPT !.links = links, !.refs = refs] BY <1>1 DEF ReplaceRefs, Stores
  <1>3. ASSUME NEW b \in Blocks PROVE lead(b) \in Links /\ BlocksIn(s.db, b) \in SUBSET Blocks
    <2>1. TitlesIn(s.db, b) \in SUBSET Titles BY DEF TitlesIn
    <2>2. lead(b) \in [TitlesIn(s.db, b) -> Pages \cup {None}] BY ResolvedType
    <2>3. lead(b) \in Links BY <2>1, <2>2, LinksAre
    <2> QED BY <2>3 DEF BlocksIn
  <1> HIDE DEF lead
  <1>4. links \in [Blocks -> Links] /\ refs \in [Blocks -> SUBSET Blocks] BY <1>1, <1>3
  <1>5. \A b \in Blocks :
          /\ b \in B => links[b] = lead(b) /\ refs[b] = BlocksIn(s.db, b)
          /\ b \notin B => links[b] = s.links[b] /\ refs[b] = s.refs[b]
    OBVIOUS
  <1> HIDE DEF links, refs, r
  <1>6. /\ r \in Stores
        /\ r.db = s.db /\ r.identities = s.identities /\ r.aliases = s.aliases
        /\ r.files = s.files /\ r.attached = s.attached
        /\ r.links = links /\ r.refs = refs
    BY <1>2, <1>4 DEF Stores
  <1>7. \A b \in Blocks :
          /\ b \in B => r.links[b] = lead(b) /\ r.refs[b] = BlocksIn(s.db, b)
          /\ b \notin B => r.links[b] = s.links[b] /\ r.refs[b] = s.refs[b]
    BY <1>5, <1>6
  <1> QED BY <1>6, <1>7 DEF r, lead

LEMMA RepairFields ==
  ASSUME NEW s \in Stores
  PROVE  LET r == RepairTree(s)
         IN  /\ r \in Stores
             /\ r.db = ReconcileStructure(s.db) /\ r.identities = s.identities
             /\ r.aliases = s.aliases /\ r.files = s.files
             /\ r.links = s.links /\ r.refs = s.refs /\ r.attached = s.attached
  <1> DEFINE d == ReconcileStructure(s.db)
             r == RepairTree(s)
  <1>1. s.db \in Databases BY DEF Stores
  <1>2. d \in Databases BY <1>1, RepairIs
  <1>3. r = [s EXCEPT !.db = d] BY DEF RepairTree, Stores
  <1> HIDE DEF d, r
  <1>4. /\ r \in Stores /\ r.db = d /\ r.identities = s.identities
        /\ r.aliases = s.aliases /\ r.files = s.files
        /\ r.links = s.links /\ r.refs = s.refs /\ r.attached = s.attached
    BY <1>2, <1>3 DEF Stores
  <1> QED BY <1>4 DEF r, d

-----------------------------------------------------------------------------
(* The end of a batch *)

\* A title leads where the names of the pages say, and nothing else is asked.
LEMMA SameNames ==
  ASSUME NEW s, NEW r, NEW t,
         \A p \in Pages : p \in Candidates(r, t) <=> p \in Candidates(s, t)
  PROVE  ResolvePageAlias(r, t) = ResolvePageAlias(s, t)
  <1>1. Candidates(r, t) = Candidates(s, t) BY DEF Candidates
  <1> QED BY <1>1 DEF ResolvePageAlias

LEMMA SamePages ==
  ASSUME NEW s, NEW r, r.db.pages = s.db.pages, r.aliases = s.aliases, NEW t
  PROVE  ResolvePageAlias(r, t) = ResolvePageAlias(s, t)
  <1>1. Candidates(r, t) = Candidates(s, t)
    BY DEF Candidates, ReferenceAliases, ExplicitAliases, PageExists
  <1> QED BY <1>1 DEF ResolvePageAlias

\* The repair of the tree moves blocks, and nothing else.
LEMMA RepairKeeps ==
  ASSUME NEW s, NEW T, NEW B, Keeps(s, T, B)
  PROVE  Keeps(RepairTree(s), T, B)
  <1> DEFINE r == RepairTree(s)
             d == ReconcileStructure(s.db)
  <1>1. s \in Stores /\ s.db \in Databases /\ Consistent(s.db) /\ Bare(s.db) BY DEF Keeps, Stores
  <1>2. /\ r \in Stores /\ r.db = d /\ r.aliases = s.aliases /\ r.files = s.files
        /\ r.links = s.links /\ r.refs = s.refs /\ r.attached = s.attached
    BY <1>1, RepairFields
  <1>3. /\ d \in Databases /\ d.pages = s.db.pages
        /\ \A b \in Blocks : /\ d.blocks[b].existence = s.db.blocks[b].existence
                             /\ d.blocks[b].markdownAt = s.db.blocks[b].markdownAt
                             /\ d.blocks[b].parent = TreeOf(s.db)[b]
    BY <1>1, RepairIs
  <1>4. Consistent(d) BY <1>1, ReconcileKeepsConsistency
  <1> HIDE DEF r, d
  <1>5. \A b \in Blocks : BlockExists(d, b) <=> BlockExists(s.db, b) BY <1>3 DEF BlockExists
  <1>6. \A p \in Pages : PageExists(d, p) <=> PageExists(s.db, p) BY <1>3 DEF PageExists
  <1>7. ASSUME NEW b \in Blocks, ~BlockExists(d, b) PROVE d.blocks[b] = NoBlock
    <2>1. s.db.blocks[b] = NoBlock /\ ~BlockExists(s.db, b) BY <1>1, <1>5, <1>7 DEF Bare
    <2>2. BoundOf(s.db)[b] = None BY <2>1 DEF BoundOf, Structured
    <2>3. d.blocks[b].parent = None BY <1>3, <2>2, TreeIs
    <2>4. d.blocks[b].existence = 0 /\ d.blocks[b].markdownAt = 0 BY <1>3, <2>1 DEF NoBlock
    <2>5. d.blocks[b] \in [existence : Nat, parent : Blocks \cup {None}, markdownAt : Nat]
      BY <1>3 DEF Databases
    <2> QED BY <2>3, <2>4, <2>5 DEF NoBlock
  <1>8. Bare(d) BY <1>1, <1>3, <1>6, <1>7 DEF Bare
  <1>9. \A b \in Blocks : TitlesIn(d, b) = TitlesIn(s.db, b) /\ BlocksIn(d, b) = BlocksIn(s.db, b)
    BY <1>3 DEF TitlesIn, BlocksIn
  <1>10. \A t : ResolvePageAlias(r, t) = ResolvePageAlias(s, t) BY <1>2, <1>3, SamePages
  <1>11. \A x \in Objects : Exists(d, x) <=> Exists(s.db, x) BY <1>5, <1>6 DEF Exists, Objects
  <1>12. FilesShown(r) = FilesShown(s) BY <1>2, <1>11 DEF FilesShown
  <1>13. Reflects(r, T, B)
    BY <1>2, <1>5, <1>9, <1>10, <1>12 DEF Keeps, Reflects, Reads, Unread
  <1> QED BY <1>2, <1>4, <1>8, <1>13 DEF Keeps, r

\* Every title that may lead elsewhere is looked up (reconcile_page_links_for_alias).
LEMMA LinksReconciled ==
  ASSUME NEW s, NEW T, NEW B, Keeps(s, T, B)
  PROVE  Keeps(ReconcileLinks(s, T), {}, B)
  <1> DEFINE r == ReconcileLinks(s, T)
  <1>1. s \in Stores BY DEF Keeps
  <1>2. /\ r \in Stores
        /\ r.db = s.db /\ r.aliases = s.aliases /\ r.files = s.files
        /\ r.refs = s.refs /\ r.attached = s.attached
        /\ \A b \in Blocks :
             r.links[b] = [t \in DOMAIN s.links[b] |->
                             IF t \in T THEN ResolvePageAlias(s, t) ELSE s.links[b][t]]
    BY <1>1, LinksFields
  <1> HIDE DEF r
  <1>3. \A t : ResolvePageAlias(r, t) = ResolvePageAlias(s, t) BY <1>2, SamePages
  <1>4. ASSUME NEW b \in Blocks, Reads(s, b, T) PROVE Reads(r, b, {})
    BY <1>2, <1>3, <1>4 DEF Reads
  <1>5. ASSUME NEW b \in Blocks, Unread(s, b) PROVE Unread(r, b)
    <2>1. s.links[b] = NoLinks /\ DOMAIN s.links[b] = {} BY <1>5, NoLinksType DEF Unread
    <2>2. r.links[b] = NoLinks BY <1>2, <2>1 DEF NoLinks
    <2> QED BY <1>2, <1>5, <2>2 DEF Unread
  <1>6. FilesShown(r) = FilesShown(s) BY <1>2 DEF FilesShown
  <1>7. Reflects(r, {}, B) BY <1>2, <1>4, <1>5, <1>6 DEF Keeps, Reflects
  <1> QED BY <1>2, <1>7 DEF Keeps, r

\* Every text that changed is read again (replace_block_refs).
LEMMA RefsReplaced ==
  ASSUME NEW s, NEW B, Keeps(s, {}, B)
  PROVE  Keeps(ReplaceRefs(s, B), {}, {})
  <1> DEFINE r == ReplaceRefs(s, B)
  <1>1. s \in Stores /\ B \in SUBSET Blocks BY DEF Keeps
  <1>2. /\ r \in Stores
        /\ r.db = s.db /\ r.aliases = s.aliases /\ r.files = s.files /\ r.attached = s.attached
        /\ \A b \in Blocks :
             /\ b \in B => /\ r.links[b] = [t \in TitlesIn(s.db, b) |-> ResolvePageAlias(s, t)]
                           /\ r.refs[b] = BlocksIn(s.db, b)
             /\ b \notin B => r.links[b] = s.links[b] /\ r.refs[b] = s.refs[b]
    BY <1>1, RefsFields
  <1> HIDE DEF r
  <1>3. \A t : ResolvePageAlias(r, t) = ResolvePageAlias(s, t) BY <1>2, SamePages
  <1>4. ASSUME NEW b \in Blocks, BlockExists(s.db, b) PROVE Reads(r, b, {})
    <2>1. CASE b \in B BY <1>2, <1>3, <2>1 DEF Reads
    <2>2. CASE b \notin B
      <3>1. Reads(s, b, {}) BY <1>4, <2>2 DEF Keeps, Reflects
      <3> QED BY <1>2, <1>3, <2>2, <3>1 DEF Reads
    <2> QED BY <2>1, <2>2
  <1>5. ASSUME NEW b \in Blocks, ~BlockExists(s.db, b) PROVE Unread(r, b)
    BY <1>2, <1>5 DEF Keeps, Reflects, Unread
  <1>6. FilesShown(r) = FilesShown(s) BY <1>2 DEF FilesShown
  <1>7. r.attached = FilesShown(r) BY <1>2, <1>6 DEF Keeps, Reflects
  <1>8. Reflects(r, {}, {}) BY <1>2, <1>4, <1>5, <1>7 DEF Reflects
  <1> QED BY <1>2, <1>8 DEF Keeps, r

-----------------------------------------------------------------------------
(* One operation *)

\* Of an operation on the notes, which rows it may bring in, which texts and which
\* titles it changes: PageNews and TextNews, the first for what is there.
PageNews(db, after, op, p) ==
  /\ PageExists(after, p) /\ ~PageExists(db, p) => Materializes(db, op) /\ op.kind.page = p
  /\ ~PageExists(after, p) => after.pages[p] = NoPage

BlockNews(db, after, op, b) ==
  /\ BlockExists(after, b) /\ ~BlockExists(db, b) => op.kind.name = "BlockCreate" /\ op.kind.block = b
  /\ BlockExists(after, b) =>
       \/ BlockExists(db, b) /\ after.blocks[b].markdownAt = db.blocks[b].markdownAt
       \/ /\ op.kind.name \in {"BlockCreate", "BlockSetMarkdown"} /\ op.kind.block = b
          /\ after.blocks[b].markdownAt # db.blocks[b].markdownAt
  /\ ~BlockExists(after, b) => after.blocks[b] = NoBlock

\* A row without content is the empty row.
LEMMA EmptyPage ==
  ASSUME NEW db \in Databases, NEW p \in Pages,
         ~PageExists(db, p), db.pages[p].title = None, db.pages[p].titleAt = 0
  PROVE  db.pages[p] = NoPage
  <1>1. db.pages[p] \in [existence : Nat, title : Titles \cup {None}, titleAt : Nat] BY DEF Databases
  <1>2. db.pages[p].existence = 0 BY <1>1 DEF PageExists
  <1> QED BY <1>1, <1>2 DEF NoPage

LEMMA EmptyBlock ==
  ASSUME NEW db \in Databases, NEW b \in Blocks,
         ~BlockExists(db, b), db.blocks[b].parent = None, db.blocks[b].markdownAt = 0
  PROVE  db.blocks[b] = NoBlock
  <1>1. db.blocks[b] \in [existence : Nat, parent : Blocks \cup {None}, markdownAt : Nat]
    BY DEF Databases
  <1>2. db.blocks[b].existence = 0 BY <1>1 DEF BlockExists
  <1> QED BY <1>1, <1>2 DEF NoBlock

\* What a row was that stays, but for its place.
LEMMA StayingRow ==
  ASSUME NEW db \in Databases, Bare(db), NEW after \in Databases, NEW b \in Blocks,
         RowStays(after.blocks[b], db.blocks[b]), NEW op
  PROVE  BlockNews(db, after, op, b)
  <1>1. BlockExists(after, b) <=> BlockExists(db, b) BY DEF RowStays, BlockExists
  <1>2. after.blocks[b].markdownAt = db.blocks[b].markdownAt BY DEF RowStays
  <1>3. ASSUME ~BlockExists(after, b) PROVE after.blocks[b] = NoBlock
    <2>1. db.blocks[b] = NoBlock BY <1>1, <1>3 DEF Bare
    <2>2. after.blocks[b].parent = None /\ after.blocks[b].markdownAt = 0
      BY <2>1 DEF RowStays, NoBlock
    <2> QED BY <1>3, <2>2, EmptyBlock
  <1> QED BY <1>1, <1>2, <1>3 DEF BlockNews

LEMMA BuriedRow ==
  ASSUME NEW db, NEW after, NEW b \in Blocks, after.blocks[b] = NoBlock, NEW op
  PROVE  BlockNews(db, after, op, b)
  BY DEF BlockNews, BlockExists, NoBlock

LEMMA StaysOrGoesNews ==
  ASSUME NEW db \in Databases, Bare(db), NEW after \in Databases, NEW p, NEW op,
         \A b \in Blocks : StaysOrGoes(after, db, p, b)
  PROVE  \A b \in Blocks : BlockNews(db, after, op, b)
  <1> TAKE b \in Blocks
  <1>1. CASE BlockStays(after, db, b) BY <1>1, StayingRow DEF BlockStays
  <1>2. CASE Buried(after, b) BY <1>2, BuriedRow DEF Buried
  <1> QED BY <1>1, <1>2 DEF StaysOrGoes

\* A page that keeps its existence and was empty stays empty.
LEMMA StayingPage ==
  ASSUME NEW db \in Databases, Bare(db), NEW after \in Databases, NEW q \in Pages,
         NEW title, PageStays(after, db, q, title), NEW op
  PROVE  PageNews(db, after, op, q)
  <1>1. PageExists(after, q) <=> PageExists(db, q) BY DEF PageStays, PageExists
  <1>2. ASSUME ~PageExists(after, q) PROVE after.pages[q] = NoPage
    <2>1. db.pages[q] = NoPage BY <1>1, <1>2 DEF Bare
    <2>2. after.pages[q].title = None /\ after.pages[q].titleAt = 0
      BY <2>1 DEF PageStays, NoPage
    <2> QED BY <1>2, <2>2, EmptyPage
  <1> QED BY <1>1, <1>2 DEF PageNews

LEMMA SamePagesNews ==
  ASSUME NEW db \in Databases, Bare(db), NEW after, after.pages = db.pages, NEW op
  PROVE  \A p \in Pages : PageNews(db, after, op, p)
  BY DEF PageNews, PageExists, Bare

\* What the names of a page are.
LEMMA NamesAre ==
  ASSUME NEW s, NEW p \in Pages, NEW t \in Titles
  PROVE  t \in ReferenceAliases(s, p) <=> s.aliases[p][t].present \/ s.db.pages[p].title = t
  BY EngineAssumption DEF ReferenceAliases, ExplicitAliases

\* A title that is not dirty is a name of the same pages.
NamesStay(s, after, T) ==
  \A p \in Pages, t \in Titles \ T :
    (PageExists(after, p) /\ (s.aliases[p][t].present \/ after.pages[p].title = t))
    <=> (PageExists(s.db, p) /\ (s.aliases[p][t].present \/ s.db.pages[p].title = t))

\* What an operation on the notes changes of what is shown (apply_one_with_effects).
News(s, after, op) ==
  /\ \A p \in Pages : PageNews(s.db, after.db, op, p)
  /\ \A b \in Blocks : BlockNews(s.db, after.db, op, b)
  /\ NamesStay(s, after.db, DirtyTitles(s, after, op))

LEMMA NothingNew ==
  ASSUME NEW s, s.db \in Databases, Bare(s.db), NEW r, r.db = s.db, NEW op
  PROVE  News(s, r, op)
  <1>1. \A p \in Pages : PageNews(s.db, r.db, op, p) BY SamePagesNews
  <1>2. \A b \in Blocks : BlockNews(s.db, r.db, op, b) BY DEF BlockNews, Bare
  <1>3. NamesStay(s, r.db, DirtyTitles(s, r, op)) BY DEF NamesStay
  <1> QED BY <1>1, <1>2, <1>3 DEF News

LEMMA PageCreateNews ==
  ASSUME NEW s, s.db \in Databases, Bare(s.db), NEW p \in Pages, NEW title \in Titles \cup {None},
         NEW op, op.kind = PageCreates(p, title), op.at \in Stamp,
         NEW r, r.db = Apply(s.db, op), r.db \in Databases
  PROVE  News(s, r, op)
  <1> DEFINE db == s.db
             after == r.db
             at == op.at
             T == DirtyTitles(s, r, op)
  <1>0. /\ op.kind.name = "PageCreate" /\ op.kind.page = p /\ op.kind.title = title
        /\ r.db = PageCreate(s.db, p, title, op.at)
    BY DEF PageCreates, Apply
  <1>a. /\ at \in Nat /\ at > 0 /\ s.db.pages[p].existence \in Nat /\ s.db.pages[p].titleAt \in Nat
        /\ s.db.tombstones[p] \in Nat
    BY DEF Stamp, Databases, Objects
  <1>1. CASE TombstoneDominates(s.db, p, op.at)
    <2>1. r.db = s.db BY <1>0, <1>1 DEF PageCreate
    <2> QED BY <2>1, NothingNew
  <1>2. CASE ~TombstoneDominates(s.db, p, op.at) /\ p \in Journals /\ PageExists(s.db, p)
    <2>1. r.db = EnsureJournalAgain(s.db, p, op.at) BY <1>0, <1>2 DEF PageCreate
    <2>2. /\ after.blocks = db.blocks
          /\ \A q \in Pages \ {p} : after.pages[q] = db.pages[q]
          /\ after.pages[p].title = db.pages[p].title
          /\ after.pages[p].existence = IF at < db.pages[p].existence THEN at
                                                                     ELSE db.pages[p].existence
      BY <2>1, JournalAgainRows
    <2>3. PageExists(after, p) /\ PageExists(db, p) BY <2>2, <1>a, <1>2 DEF PageExists
    <2>4. \A q \in Pages : PageNews(s.db, r.db, op, q)
      BY <2>2, <2>3 DEF PageNews, PageExists, Bare
    <2>5. \A b \in Blocks : BlockNews(s.db, r.db, op, b) BY <2>2 DEF BlockNews, BlockExists, Bare
    <2>6. NamesStay(s, r.db, T) BY <2>2, <2>3 DEF NamesStay, PageExists
    <2> QED BY <2>4, <2>5, <2>6 DEF News
  <1>3. CASE ~TombstoneDominates(s.db, p, op.at) /\ ~(p \in Journals /\ PageExists(s.db, p))
    <2>1. /\ Created(after, db, p, title, at)
          /\ \A q \in Pages \ {p} : PageStays(after, db, q, title)
          /\ db.pages[p].titleAt >= at => \A q \in Pages \ {p} : after.pages[q] = db.pages[q]
          /\ \A b \in Blocks : StaysOrGoes(after, db, p, b)
      BY <1>0, PageCreateRows
    <2>2. after.pages[p].existence = Later(db.pages[p].existence, at) /\ Titled(after, db, p, title, at)
      BY <2>1, <1>3, <1>a DEF Created, TombstoneDominates
    <2>3. PageExists(after, p) BY <2>2, <1>a, LaterIsLater DEF PageExists
    <2>4. Materializes(s.db, op) BY <1>0, <1>3 DEF Materializes
    <2>5. \A q \in Pages : PageNews(s.db, r.db, op, q)
      BY <2>1, <2>3, <2>4, <1>0, StayingPage DEF PageNews
    <2>6. \A b \in Blocks : BlockNews(s.db, r.db, op, b) BY <2>1, StaysOrGoesNews
    <2>7. T = Claimed(s, r, p, title) \cup ExplicitAliases(s, p) BY <1>0, <2>4 DEF DirtyTitles
    <2>8. CASE db.pages[p].titleAt >= at
      <3>1. PageExists(db, p) BY <2>8, <1>a DEF Bare, NoPage
      <3>2. after.pages[p].title = db.pages[p].title BY <2>2, <2>8, <1>a DEF Titled
      <3>3. NamesStay(s, r.db, T) BY <2>1, <2>8, <2>3, <3>1, <3>2 DEF NamesStay, PageExists
      <3> QED BY <2>5, <2>6, <3>3 DEF News
    <2>9. CASE db.pages[p].titleAt < at
      <3>1. after.pages[p].titleAt = at /\ after.pages[p].title \in {title, None}
        BY <2>2, <2>9 DEF Titled
      <3>2. T = ({db.pages[p].title, title} \ {None}) \cup ExplicitAliases(s, p)
        BY <2>7, <2>9, <3>1, <1>a DEF Claimed
      <3>3. \A t \in Titles \ T : t # title /\ t # db.pages[p].title /\ ~s.aliases[p][t].present
        BY <3>2, EngineAssumption DEF ExplicitAliases
      <3>4. ASSUME NEW q \in Pages, NEW t \in Titles \ T
            PROVE  (PageExists(after, q) /\ (s.aliases[q][t].present \/ after.pages[q].title = t))
                   <=> (PageExists(s.db, q) /\ (s.aliases[q][t].present \/ s.db.pages[q].title = t))
        <4>1. CASE q = p BY <4>1, <3>1, <3>3, EngineAssumption
        <4>2. CASE q # p
          <5>1. PageStays(r.db, s.db, q, title) /\ t \in Titles /\ t # title BY <4>2, <2>1, <3>3
          <5> HIDE DEF T, after, db
          <5> QED BY <5>1, EngineAssumption DEF after, PageStays, PageExists
        <4> QED BY <4>1, <4>2
      <3>5. NamesStay(s, r.db, T) BY <3>4 DEF NamesStay
      <3> QED BY <2>5, <2>6, <3>5 DEF News
    <2> QED BY <2>8, <2>9, <1>a
  <1> QED BY <1>1, <1>2, <1>3

LEMMA PageSetTitleNews ==
  ASSUME NEW s, s.db \in Databases, Bare(s.db), NEW p \in Pages, NEW title \in Titles \cup {None},
         NEW op, op.kind = PageSetsTitle(p, title), op.at \in Stamp,
         NEW r, r.db = Apply(s.db, op), r.db \in Databases
  PROVE  News(s, r, op)
  <1> DEFINE db == s.db
             after == r.db
             at == op.at
             T == DirtyTitles(s, r, op)
  <1>0. /\ op.kind.name = "PageSetTitle" /\ op.kind.page = p /\ op.kind.title = title
        /\ r.db = PageSetTitle(s.db, p, title, op.at)
    BY DEF PageSetsTitle, Apply
  <1>a. at \in Nat /\ at > 0 /\ s.db.pages[p].titleAt \in Nat BY DEF Stamp, Databases
  <1>1. /\ after.blocks = db.blocks
        /\ \A q \in Pages \ {p} : PageStays(after, db, q, title)
        /\ after.pages[p].existence = db.pages[p].existence
        /\ IsTombstoned(db, p) \/ ~PageExists(db, p) \/ db.pages[p].titleAt >= at => after = db
        /\ ~IsTombstoned(db, p) /\ PageExists(db, p) => Titled(after, db, p, title, at)
    BY <1>0, PageSetTitleRows
  <1>2. CASE IsTombstoned(db, p) \/ ~PageExists(db, p) \/ db.pages[p].titleAt >= at
    BY <1>1, <1>2, NothingNew
  <1>3. CASE ~IsTombstoned(db, p) /\ PageExists(db, p) /\ db.pages[p].titleAt < at
    <2>1. after.pages[p].titleAt = at /\ after.pages[p].title \in {title, None}
      BY <1>1, <1>3 DEF Titled
    <2>2. PageExists(after, p) BY <1>1, <1>3 DEF PageExists
    <2>3. \A q \in Pages : PageNews(s.db, r.db, op, q) BY <1>1, <1>3, <2>2, StayingPage DEF PageNews
    <2>4. \A b \in Blocks : BlockNews(s.db, r.db, op, b) BY <1>1 DEF BlockNews, BlockExists, Bare
    <2>5. T = {db.pages[p].title, title} \ {None}
      BY <1>0, <2>1, <1>3, <1>a DEF DirtyTitles, Claimed
    <2>6. \A t \in Titles \ T : t # title /\ t # db.pages[p].title BY <2>5, EngineAssumption
    <2>7. ASSUME NEW q \in Pages, NEW t \in Titles \ T
          PROVE  (PageExists(after, q) /\ (s.aliases[q][t].present \/ after.pages[q].title = t))
                 <=> (PageExists(s.db, q) /\ (s.aliases[q][t].present \/ s.db.pages[q].title = t))
      <3>1. CASE q = p BY <3>1, <2>1, <2>2, <1>3, <2>6, EngineAssumption
      <3>2. CASE q # p
        <4>1. PageStays(r.db, s.db, q, title) /\ t \in Titles /\ t # title BY <3>2, <1>1, <2>6
        <4> HIDE DEF T, after, db
        <4> QED BY <4>1, EngineAssumption DEF after, PageStays, PageExists
      <3> QED BY <3>1, <3>2
    <2>8. NamesStay(s, r.db, T) BY <2>7 DEF NamesStay
    <2> QED BY <2>3, <2>4, <2>8 DEF News
  <1> QED BY <1>2, <1>3, <1>a

LEMMA PageDeleteNews ==
  ASSUME NEW s, s.db \in Databases, Bare(s.db), Consistent(s.db), NEW p \in Pages,
         NEW op, op.kind = PageDeletes(p), op.at \in Stamp,
         NEW r, r.db = Apply(s.db, op), r.db \in Databases
  PROVE  News(s, r, op)
  <1> DEFINE db == s.db
             after == r.db
             at == op.at
             T == DirtyTitles(s, r, op)
  <1>0. /\ op.kind.name = "PageDelete" /\ op.kind.page = p
        /\ r.db = PageDelete(s.db, p, op.at)
    BY DEF PageDeletes, Apply
  <1>1. /\ \A q \in Pages \ {p} : after.pages[q] = db.pages[q]
        /\ \A b \in Blocks : StaysOrGoes(after, db, p, b)
        /\ \/ after = db
           \/ after.pages[p] = NoPage /\ after.tombstones[p] = at /\ db.pages[p].existence <= at
           \/ after.pages[p] = db.pages[p] /\ ~PageExists(db, p)
    BY <1>0, PageDeleteRows
  <1>2. \A b \in Blocks : BlockNews(s.db, r.db, op, b) BY <1>1, StaysOrGoesNews
  <1>3. CASE after = db BY <1>3, NothingNew
  <1>4. CASE after.pages[p] = NoPage /\ after.tombstones[p] = at /\ db.pages[p].existence <= at
    <2>1. ~PageExists(after, p) BY <1>4 DEF PageExists, NoPage
    <2>2. \A q \in Pages : PageNews(s.db, r.db, op, q)
      BY <1>1, <1>4, <2>1 DEF PageNews, PageExists, Bare
    <2>3. T = ReferenceAliases(s, p) BY <1>0, <1>4 DEF DirtyTitles, Deletes
    <2>4. \A t \in Titles \ T : ~s.aliases[p][t].present /\ s.db.pages[p].title # t BY <2>3, NamesAre
    <2>5. NamesStay(s, r.db, T) BY <1>1, <2>1, <2>4 DEF NamesStay, PageExists
    <2> QED BY <2>2, <1>2, <2>5 DEF News
  <1>5. CASE after.pages[p] = db.pages[p] /\ ~PageExists(db, p)
    <2>1. \A q \in Pages : after.pages[q] = db.pages[q] BY <1>1, <1>5
    <2>2. \A q \in Pages : PageNews(s.db, r.db, op, q) BY <2>1 DEF PageNews, PageExists, Bare
    <2>3. NamesStay(s, r.db, T) BY <2>1 DEF NamesStay, PageExists
    <2> QED BY <2>2, <1>2, <2>3 DEF News
  <1> QED BY <1>1, <1>3, <1>4, <1>5

\* An operation on a block changes no page and no other block.
LEMMA ElsewhereNews ==
  ASSUME NEW s, s.db \in Databases, Bare(s.db), NEW b \in Blocks, NEW op,
         NEW r, r.db \in Databases, Elsewhere(r.db, s.db, b), BlockNews(s.db, r.db, op, b)
  PROVE  News(s, r, op)
  <1>1. \A p \in Pages : PageNews(s.db, r.db, op, p) BY SamePagesNews DEF Elsewhere
  <1>2. \A c \in Blocks : BlockNews(s.db, r.db, op, c)
    BY StayingRow DEF Elsewhere, BlockStays
  <1>3. NamesStay(s, r.db, DirtyTitles(s, r, op)) BY DEF NamesStay, Elsewhere, PageExists
  <1> QED BY <1>1, <1>2, <1>3 DEF News

LEMMA BlockNewsOf ==
  ASSUME NEW s, s.db \in Databases, Bare(s.db), NEW op, op.kind \in Kinds, op.at \in Stamp,
         op.kind.name \in {"BlockCreate", "BlockSetMarkdown", "BlockMove", "BlockDelete"},
         NEW r, r.db = Apply(s.db, op), r.db \in Databases
  PROVE  News(s, r, op)
  <1>0. op.at \in Nat /\ op.at > 0 BY DEF Stamp
  <1>1. ASSUME NEW b \in Blocks, NEW u \in Blocks \cup {None}, op.kind = BlockCreates(b, u)
        PROVE  News(s, r, op)
    <2>1. /\ r.db = BlockCreate(s.db, b, u, op.at)
          /\ op.kind.name = "BlockCreate" /\ op.kind.block = b
      BY <1>1 DEF BlockCreates, Apply
    <2>2. Elsewhere(r.db, s.db, b) /\ Placed(r.db, s.db, b, u, op.at) BY <2>1, BlockCreateRows
    <2>3. s.db.blocks[b].existence \in Nat /\ s.db.blocks[b].markdownAt \in Nat BY DEF Databases
    <2>4. BlockNews(s.db, r.db, op, b)
      <3>1. CASE r.db.blocks[b] = s.db.blocks[b] BY <3>1 DEF BlockNews, BlockExists, Bare
      <3>2. CASE /\ r.db.blocks[b].existence = Later(s.db.blocks[b].existence, op.at)
                 /\ r.db.blocks[b].markdownAt = Later(s.db.blocks[b].markdownAt, op.at)
        <4>1. BlockExists(r.db, b) BY <3>2, <1>0, <2>3, LaterIsLater DEF BlockExists
        <4>2. ~BlockExists(s.db, b) => s.db.blocks[b].markdownAt = 0 BY DEF Bare, NoBlock
        <4>3. \/ r.db.blocks[b].markdownAt = s.db.blocks[b].markdownAt
              \/ r.db.blocks[b].markdownAt = op.at
          BY <3>2, <1>0, <2>3, LaterIsLater
        <4>4. s.db.blocks[b].markdownAt = 0 => r.db.blocks[b].markdownAt # 0
          BY <3>2, <1>0, <2>3, LaterIsLater
        <4> QED BY <4>1, <4>2, <4>3, <4>4, <2>1 DEF BlockNews
      <3> QED BY <2>2, <3>1, <3>2 DEF Placed
    <2> QED BY <2>2, <2>4, ElsewhereNews
  <1>2. ASSUME NEW b \in Blocks, op.kind = BlockSetsMarkdown(b)
        PROVE  News(s, r, op)
    <2>1. /\ r.db = BlockSetMarkdown(s.db, b, op.at)
          /\ op.kind.name = "BlockSetMarkdown" /\ op.kind.block = b
      BY <1>2 DEF BlockSetsMarkdown, Apply
    <2>2. /\ Elsewhere(r.db, s.db, b)
          /\ r.db.blocks[b].existence = s.db.blocks[b].existence
          /\ ~BlockExists(s.db, b) => r.db.blocks[b] = s.db.blocks[b]
      BY <2>1, BlockSetMarkdownRows
    <2>3. BlockNews(s.db, r.db, op, b) BY <2>1, <2>2 DEF BlockNews, BlockExists, Bare
    <2> QED BY <2>2, <2>3, ElsewhereNews
  <1>3. ASSUME NEW b \in Blocks, NEW u \in Blocks \cup {None}, op.kind = BlockMoves(b, u)
        PROVE  News(s, r, op)
    <2>1. r.db = BlockMove(s.db, b, u, op.at) BY <1>3 DEF BlockMoves, Apply
    <2>a. /\ Elsewhere(BlockMove(s.db, b, u, op.at), s.db, b)
          /\ BlockMove(s.db, b, u, op.at).blocks = s.db.blocks
      BY BlockMoveRows
    <2>2. Elsewhere(r.db, s.db, b) /\ r.db.blocks = s.db.blocks BY <2>1, <2>a
    <2>3. BlockNews(s.db, r.db, op, b) BY <2>2 DEF BlockNews, BlockExists, Bare
    <2> QED BY <2>2, <2>3, ElsewhereNews
  <1>4. ASSUME NEW b \in Blocks, op.kind = BlockDeletes(b)
        PROVE  News(s, r, op)
    <2>1. r.db = BlockDelete(s.db, b, op.at) BY <1>4 DEF BlockDeletes, Apply
    <2>2. /\ Elsewhere(r.db, s.db, b)
          /\ r.db.blocks[b] = s.db.blocks[b] \/ r.db.blocks[b] = NoBlock
      BY <2>1, BlockDeleteRows DEF Buried
    <2>3. BlockNews(s.db, r.db, op, b) BY <2>2, BuriedRow DEF BlockNews, BlockExists, Bare
    <2> QED BY <2>2, <2>3, ElsewhereNews
  <1> QED BY <1>1, <1>2, <1>3, <1>4, KindCases DEF PageCreates, PageSetsTitle, PageDeletes

LEMMA NewsOf ==
  ASSUME NEW s, s.db \in Databases, Bare(s.db), Consistent(s.db),
         NEW op, op.kind \in Kinds, op.at \in Stamp,
         NEW r, r.db = Apply(s.db, op), r.db \in Databases
  PROVE  News(s, r, op)
  <1>1. CASE op.kind.name \in {"BlockCreate", "BlockSetMarkdown", "BlockMove", "BlockDelete"}
    BY <1>1, BlockNewsOf
  <1>2. CASE op.kind.name \notin {"BlockCreate", "BlockSetMarkdown", "BlockMove", "BlockDelete"}
    <2>1. \/ \E p \in Pages, t \in Titles \cup {None} : op.kind = PageCreates(p, t)
          \/ \E p \in Pages, t \in Titles \cup {None} : op.kind = PageSetsTitle(p, t)
          \/ \E p \in Pages : op.kind = PageDeletes(p)
      BY <1>2, KindCases DEF BlockCreates, BlockSetsMarkdown, BlockMoves, BlockDeletes
    <2> QED BY <2>1, PageCreateNews, PageSetTitleNews, PageDeleteNews
  <1> QED BY <1>1, <1>2

\* A text that was written is one of a block that is there.
LEMMA WrittenTexts ==
  ASSUME NEW s, s.db \in Databases, Bare(s.db), NEW op, op.kind \in Kinds, op.at \in Stamp,
         NEW r, r.db = Apply(s.db, op), NEW b \in DirtyTexts(s, r, op)
  PROVE  BlockExists(r.db, b)
  <1>0. /\ op.kind.name \in {"BlockCreate", "BlockSetMarkdown"} /\ b = op.kind.block /\ b \in Blocks
        /\ r.db.blocks[b].markdownAt # s.db.blocks[b].markdownAt
    BY DEF DirtyTexts
  <1>1. /\ op.at \in Nat /\ op.at > 0
        /\ s.db.blocks[b].existence \in Nat
    BY <1>0 DEF Stamp, Databases
  <1>2. ASSUME NEW c \in Blocks, NEW u \in Blocks \cup {None}, op.kind = BlockCreates(c, u)
        PROVE  BlockExists(r.db, b)
    <2>1. b = c /\ r.db = BlockCreate(s.db, b, u, op.at)
      BY <1>0, <1>2 DEF BlockCreates, Apply
    <2>2. Placed(r.db, s.db, b, u, op.at) BY <2>1, <1>0, BlockCreateRows
    <2>3. r.db.blocks[b].existence = Later(s.db.blocks[b].existence, op.at)
      BY <2>2, <1>0 DEF Placed
    <2> QED BY <2>3, <1>1, LaterIsLater DEF BlockExists
  <1>3. ASSUME NEW c \in Blocks, op.kind = BlockSetsMarkdown(c)
        PROVE  BlockExists(r.db, b)
    <2>1. b = c /\ r.db = BlockSetMarkdown(s.db, b, op.at)
      BY <1>0, <1>3 DEF BlockSetsMarkdown, Apply
    <2>2. /\ r.db.blocks[b].existence = s.db.blocks[b].existence
          /\ ~BlockExists(s.db, b) => r.db.blocks[b] = s.db.blocks[b]
      BY <2>1, <1>0, BlockSetMarkdownRows
    <2> QED BY <2>2, <1>0 DEF BlockExists
  <1>4. \/ \E c \in Blocks, u \in Blocks \cup {None} : op.kind = BlockCreates(c, u)
        \/ \E c \in Blocks : op.kind = BlockSetsMarkdown(c)
    BY <1>0, KindCases DEF PageCreates, PageSetsTitle, PageDeletes, BlockMoves, BlockDeletes
  <1> QED BY <1>2, <1>3, <1>4

\* The rows after an operation on the notes: those that go with their page or block,
\* and those of files that come back with it.
LEMMA NotesFields ==
  ASSUME NEW s \in Stores, NEW op, op.kind \in Kinds, Apply(s.db, op) \in Databases
  PROVE  LET r    == RowsAfter(s, op)
             gone == Vanished(s.db, r.db)
         IN  /\ r \in Stores
             /\ r.db = Apply(s.db, op) /\ r.aliases = s.aliases /\ r.files = s.files
             /\ \A b \in Blocks :
                  /\ b \in gone => r.links[b] = NoLinks /\ r.refs[b] = {}
                  /\ b \notin gone =>
                       /\ r.links[b] = [t \in DOMAIN s.links[b] |->
                                          IF s.links[b][t] \in gone THEN None ELSE s.links[b][t]]
                       /\ r.refs[b] = s.refs[b]
             /\ \A k \in Objects \X Hashes :
                  k \in r.attached <=> IF k[1] \in Revived(s.db, op) THEN k \in FilesShown(r)
                                       ELSE k \in s.attached /\ k[1] \notin gone
  <1> DEFINE ids == IF op.kind.name = "PageCreate" THEN s.identities \cup {op.kind.page}
                    ELSE s.identities
             s1 == [s EXCEPT !.identities = ids]
             a  == Apply(s.db, op)
             c  == Cascade(s1, a)
             K  == UNION {FilesOf(x) : x \in Revived(s.db, op)}
             r  == RowsAfter(s, op)
  <1>0. /\ op.kind.name = "PageCreate" => op.kind.page \in Pages
        /\ op.kind.name = "BlockCreate" => op.kind.block \in Blocks
        /\ op.kind.name # "PageAliasSet" /\ op.kind.name # "Attachment"
    BY KindCases DEF PageCreates, PageSetsTitle, PageDeletes, BlockCreates, BlockSetsMarkdown,
                     BlockMoves, BlockDeletes
  <1>1. r = ReconcileFiles(c, K) BY <1>0 DEF RowsAfter
  <1>2. /\ s1 \in Stores /\ s1.db = s.db /\ s1.aliases = s.aliases /\ s1.files = s.files
        /\ s1.links = s.links /\ s1.refs = s.refs /\ s1.attached = s.attached
    <2>1. ids \in SUBSET Pages BY <1>0 DEF Stores
    <2> HIDE DEF ids
    <2> QED BY <2>1 DEF Stores
  <1>3. Revived(s.db, op) \in SUBSET Objects BY <1>0 DEF Revived, Objects, Materializes
  <1>4. K \in SUBSET (Objects \X Hashes) BY <1>3 DEF FilesOf
  <1> HIDE DEF s1
  <1>5. /\ c \in Stores /\ c.db = a /\ c.aliases = s.aliases /\ c.files = s.files
        /\ \A b \in Blocks :
             /\ b \in Vanished(s.db, a) => c.links[b] = NoLinks /\ c.refs[b] = {}
             /\ b \notin Vanished(s.db, a) =>
                  /\ c.links[b] = [t \in DOMAIN s.links[b] |->
                                     IF s.links[b][t] \in Vanished(s.db, a) THEN None ELSE s.links[b][t]]
                  /\ c.refs[b] = s.refs[b]
        /\ c.attached = {x \in s.attached : x[1] \notin Vanished(s.db, a)}
    BY <1>2, CascadeFields
  <1> HIDE DEF c, K, a
  <1>6. /\ r \in Stores
        /\ r.db = c.db /\ r.aliases = c.aliases /\ r.files = c.files
        /\ r.links = c.links /\ r.refs = c.refs
        /\ \A k \in Objects \X Hashes :
             k \in r.attached <=> IF k \in K THEN k \in FilesShown(c) ELSE k \in c.attached
    BY <1>1, <1>4, <1>5, FilesFields
  <1> HIDE DEF r
  <1>7. FilesShown(r) = FilesShown(c) BY <1>6 DEF FilesShown
  <1>8. \A k \in Objects \X Hashes : k \in K <=> k[1] \in Revived(s.db, op) BY DEF K, FilesOf
  <1>9. r.db = a BY <1>5, <1>6
  <1>10. \A k \in Objects \X Hashes :
           k \in r.attached <=> IF k[1] \in Revived(s.db, op) THEN k \in FilesShown(r)
                                ELSE k \in s.attached /\ k[1] \notin Vanished(s.db, a)
    BY <1>5, <1>6, <1>7, <1>8
  <1> QED BY <1>5, <1>6, <1>9, <1>10 DEF r, a

LEMMA NotesKeep ==
  ASSUME NEW s, NEW T, NEW B, Keeps(s, T, B),
         NEW op, op.kind \in Kinds, op.at \in Stamp, ~Refuses(s.db, op)
  PROVE  LET r == RowsAfter(s, op)
         IN  Keeps(r, T \cup DirtyTitles(s, r, op),
                   Remaining(B, s.db, r.db) \cup DirtyTexts(s, r, op))
  <1> DEFINE r    == RowsAfter(s, op)
             gone == Vanished(s.db, r.db)
             D    == DirtyTitles(s, r, op)
             X    == DirtyTexts(s, r, op)
             left == Remaining(B, s.db, r.db)
  <1>0. /\ s \in Stores /\ s.db \in Databases /\ Consistent(s.db) /\ Bare(s.db) /\ B \subseteq Blocks
        /\ Reflects(s, T, B)
    BY DEF Keeps, Stores
  <1>1. Apply(s.db, op) \in Databases /\ Consistent(Apply(s.db, op)) BY <1>0, ApplyKeepsConsistency
  <1>2. /\ r \in Stores
        /\ r.db = Apply(s.db, op) /\ r.aliases = s.aliases /\ r.files = s.files
        /\ \A b \in Blocks :
             /\ b \in gone => r.links[b] = NoLinks /\ r.refs[b] = {}
             /\ b \notin gone =>
                  /\ r.links[b] = [t \in DOMAIN s.links[b] |->
                                     IF s.links[b][t] \in gone THEN None ELSE s.links[b][t]]
                  /\ r.refs[b] = s.refs[b]
        /\ \A k \in Objects \X Hashes :
             k \in r.attached <=> IF k[1] \in Revived(s.db, op) THEN k \in FilesShown(r)
                                  ELSE k \in s.attached /\ k[1] \notin gone
    BY <1>0, <1>1, NotesFields
  <1> HIDE DEF r
  <1>3. r.db \in Databases /\ Consistent(r.db) BY <1>1, <1>2
  <1>4. News(s, r, op) BY <1>0, <1>2, <1>3, NewsOf
  <1>5. /\ \A p \in Pages : PageNews(s.db, r.db, op, p)
        /\ \A b \in Blocks : BlockNews(s.db, r.db, op, b)
        /\ NamesStay(s, r.db, D)
    BY <1>4 DEF News
  <1>6. \A b \in X : BlockExists(r.db, b) /\ b \in Blocks
    BY <1>0, <1>2, WrittenTexts DEF DirtyTexts
  <1>7. \A b \in Blocks : b \in gone <=> BlockExists(s.db, b) /\ ~BlockExists(r.db, b)
    BY EngineAssumption DEF Vanished, Objects, Exists
  <1>8. \A p \in Pages : p \in gone <=> PageExists(s.db, p) /\ ~PageExists(r.db, p)
    BY DEF Vanished, Objects, Exists
  <1>9. Bare(r.db) BY <1>5 DEF Bare, PageNews, BlockNews
  <1>10. left = B \ gone BY DEF Remaining
  <1>11. left \cup X \subseteq Blocks BY <1>0, <1>6, <1>10
  <1>12. \A b \in Blocks : BlockExists(s.db, b) \/ (b \notin B /\ Unread(s, b))
    BY <1>0 DEF Reflects
  <1>13. \A b \in Blocks : BlockExists(s.db, b) => b \in B \/ Reads(s, b, T)
    BY <1>0 DEF Reflects
  <1> HIDE DEF gone, D, X, left
  <1>14. \A t \in Titles \ D : ResolvePageAlias(r, t) = ResolvePageAlias(s, t)
    <2> TAKE t \in Titles \ D
    <2>1. \A p \in Pages : p \in Candidates(r, t) <=> p \in Candidates(s, t)
      <3> TAKE p \in Pages
      <3>1. t \in ReferenceAliases(s, p) <=> s.aliases[p][t].present \/ s.db.pages[p].title = t
        BY NamesAre
      <3>2. t \in ReferenceAliases(r, p) <=> s.aliases[p][t].present \/ r.db.pages[p].title = t
        BY <1>2, NamesAre
      <3> QED BY <3>1, <3>2, <1>5 DEF Candidates, NamesStay
    <2> QED BY <2>1, SameNames
  <1>15. ASSUME NEW b \in Blocks, BlockExists(r.db, b)
         PROVE  b \in left \cup X \/ Reads(r, b, T \cup D)
    <2>1. \/ BlockExists(s.db, b) /\ r.db.blocks[b].markdownAt = s.db.blocks[b].markdownAt
          \/ b \in X
      BY <1>5, <1>15 DEF BlockNews, X, DirtyTexts
    <2>2. b \notin gone BY <1>7, <1>15
    <2>3. CASE /\ BlockExists(s.db, b) /\ r.db.blocks[b].markdownAt = s.db.blocks[b].markdownAt
               /\ Reads(s, b, T)
      <3>1. TitlesIn(r.db, b) = TitlesIn(s.db, b) /\ BlocksIn(r.db, b) = BlocksIn(s.db, b)
        BY <2>3 DEF TitlesIn, BlocksIn
      <3>2. /\ r.links[b] = [t \in DOMAIN s.links[b] |->
                               IF s.links[b][t] \in gone THEN None ELSE s.links[b][t]]
            /\ r.refs[b] = s.refs[b]
        BY <1>2, <2>2 DEF gone
      <3>3. DOMAIN r.links[b] = TitlesIn(r.db, b) /\ r.refs[b] = BlocksIn(r.db, b)
        BY <3>1, <3>2, <2>3 DEF Reads
      <3>4. ASSUME NEW t \in TitlesIn(r.db, b) \ (T \cup D)
            PROVE  r.links[b][t] = ResolvePageAlias(r, t)
        <4>1. t \in Titles \ D /\ t \in DOMAIN s.links[b] /\ s.links[b][t] = ResolvePageAlias(s, t)
          BY <3>1, <2>3 DEF Reads, TitlesIn
        <4>2. s.links[b][t] = ResolvePageAlias(r, t) BY <4>1, <1>14
        <4>3. s.links[b][t] \in gone => s.links[b][t] = None
          <5>1. s.links[b][t] \in Candidates(r, t) \cup {None} BY <4>2, ResolvedIs
          <5>2. \A p \in Candidates(r, t) : p \in Pages /\ PageExists(r.db, p) BY DEF Candidates
          <5> QED BY <5>1, <5>2, <1>8
        <4>4. r.links[b][t] = s.links[b][t] BY <3>2, <4>1, <4>3
        <4> QED BY <4>2, <4>4
      <3> QED BY <3>3, <3>4 DEF Reads
    <2> QED BY <2>1, <2>2, <2>3, <1>10, <1>13
  <1>16. ASSUME NEW b \in Blocks, ~BlockExists(r.db, b)
         PROVE  b \notin left \cup X /\ Unread(r, b)
    <2>1. b \notin left \cup X BY <1>16, <1>6, <1>7, <1>10, <1>12
    <2>2. CASE b \in gone BY <2>2, <2>1, <1>2 DEF Unread, gone
    <2>3. CASE b \notin gone
      <3>1. Unread(s, b) BY <2>3, <1>7, <1>12, <1>16
      <3>2. DOMAIN s.links[b] = {} BY <3>1, NoLinksType DEF Unread
      <3>3. r.links[b] = [t \in DOMAIN s.links[b] |->
                             IF s.links[b][t] \in gone THEN None ELSE s.links[b][t]]
        BY <2>3, <1>2 DEF gone
      <3>4. r.links[b] = NoLinks BY <3>2, <3>3 DEF NoLinks
      <3>5. r.refs[b] = {} BY <2>3, <3>1, <1>2 DEF Unread, gone
      <3> QED BY <2>1, <3>4, <3>5 DEF Unread
    <2> QED BY <2>2, <2>3
  <1>17. r.attached = FilesShown(r)
    <2>1. r.attached \subseteq Objects \X Hashes /\ FilesShown(r) \subseteq Objects \X Hashes
      BY <1>2 DEF Stores, FilesShown
    <2>2. ASSUME NEW k \in Objects \X Hashes PROVE k \in r.attached <=> k \in FilesShown(r)
      <3>1. CASE k[1] \in Revived(s.db, op) BY <3>1, <1>2
      <3>2. CASE k[1] \notin Revived(s.db, op)
        <4>1. k[1] \in Objects OBVIOUS
        <4>2. k[1] \in gone <=> Exists(s.db, k[1]) /\ ~Exists(r.db, k[1])
          BY <4>1 DEF gone, Vanished
        <4>3. Exists(r.db, k[1]) => Exists(s.db, k[1])
          <5>1. CASE k[1] \in Pages
            BY <5>1, <3>2, <1>5 DEF Exists, PageNews, Revived
          <5>2. CASE k[1] \in Blocks
            <6>1. k[1] \notin Pages BY <5>2, EngineAssumption
            <6>2. ASSUME op.kind.name = "BlockCreate" PROVE op.kind.block # k[1]
              BY <3>2, <6>2 DEF Revived, Materializes
            <6> QED BY <5>2, <6>1, <6>2, <1>5 DEF Exists, BlockNews
          <5> QED BY <4>1, <5>1, <5>2 DEF Objects
        <4>4. k \in s.attached <=> s.files[k[1]][k[2]].present /\ Exists(s.db, k[1])
          BY <1>0 DEF Reflects, FilesShown
        <4>5. k \in FilesShown(r) <=> s.files[k[1]][k[2]].present /\ Exists(r.db, k[1])
          BY <1>2 DEF FilesShown
        <4>6. k \in r.attached <=> k \in s.attached /\ k[1] \notin gone
          BY <3>2, <1>2 DEF gone
        <4> QED BY <4>2, <4>3, <4>4, <4>5, <4>6
      <3> QED BY <3>1, <3>2
    <2> QED BY <2>1, <2>2
  <1>18. Reflects(r, T \cup D, left \cup X) BY <1>15, <1>16, <1>17 DEF Reflects
  <1>19. Keeps(r, T \cup D, left \cup X) BY <1>2, <1>3, <1>9, <1>11, <1>18 DEF Keeps
  <1> QED BY <1>19 DEF left, D, X, r

LEMMA NewerType ==
  ASSUME NEW register \in Registers, NEW op, op.at \in Nat, op.kind.present \in BOOLEAN
  PROVE  Newer(register, op) \in Registers
  BY DEF Newer, Registers

\* An alias is a name of its page, and of no other (PageAliasSet).
LEMMA AliasKeeps ==
  ASSUME NEW s, NEW T, NEW B, Keeps(s, T, B), NEW op, op.at \in Nat,
         NEW p \in Pages, NEW title \in Titles, NEW present \in BOOLEAN,
         op.kind = SetsAlias(p, title, present)
  PROVE  LET r == RowsAfter(s, op)
         IN  Keeps(r, T \cup DirtyTitles(s, r, op),
                   Remaining(B, s.db, r.db) \cup DirtyTexts(s, r, op))
  <1> DEFINE r   == RowsAfter(s, op)
             row == Newer(s.aliases[p][title], op)
  <1>1. /\ op.kind.name = "PageAliasSet" /\ op.kind.page = p /\ op.kind.title = title
        /\ op.kind.present = present
    BY DEF SetsAlias
  <1>2. s \in Stores BY DEF Keeps
  <1>3. row \in Registers
    <2>1. s.aliases[p][title] \in Registers BY <1>2 DEF Stores
    <2> QED BY <1>1, <2>1, NewerType
  <1>4. r = [s EXCEPT !.aliases[p][title] = row] BY <1>1 DEF RowsAfter
  <1> HIDE DEF row, r
  <1>5. /\ r \in Stores /\ r.db = s.db /\ r.files = s.files /\ r.links = s.links /\ r.refs = s.refs
        /\ r.attached = s.attached
        /\ \A q \in Pages, t \in Titles : q # p \/ t # title => r.aliases[q][t] = s.aliases[q][t]
    BY <1>2, <1>3, <1>4 DEF Stores
  <1>6. DirtyTexts(s, r, op) = {} BY <1>1 DEF DirtyTexts
  <1>7. Remaining(B, s.db, r.db) = B BY <1>5 DEF Remaining, Vanished
  <1>8. CASE r = s
    <2>1. DirtyTitles(s, r, op) = {} BY <1>1, <1>8 DEF DirtyTitles
    <2>2. T \cup DirtyTitles(s, r, op) = T BY <2>1
    <2>3. Remaining(B, s.db, r.db) \cup DirtyTexts(s, r, op) = B BY <1>6, <1>7
    <2>4. Keeps(r, T \cup DirtyTitles(s, r, op), Remaining(B, s.db, r.db) \cup DirtyTexts(s, r, op))
      BY <1>8, <2>2, <2>3
    <2> QED BY <2>4 DEF r
  <1>9. CASE r # s
    <2>1. DirtyTitles(s, r, op) = {title} BY <1>1, <1>9 DEF DirtyTitles
    <2>2. ASSUME NEW t \in Titles \ {title} PROVE ResolvePageAlias(r, t) = ResolvePageAlias(s, t)
      <3>1. \A q \in Pages : q \in Candidates(r, t) <=> q \in Candidates(s, t)
        BY <1>5, NamesAre DEF Candidates
      <3> QED BY <3>1, SameNames
    <2>3. ASSUME NEW b \in Blocks, Reads(s, b, T) PROVE Reads(r, b, T \cup {title})
      <3>1. \A t \in TitlesIn(s.db, b) : t \in Titles BY DEF TitlesIn
      <3> QED BY <1>5, <2>2, <2>3, <3>1 DEF Reads
    <2>4. FilesShown(r) = FilesShown(s) BY <1>5 DEF FilesShown
    <2>5. Reflects(r, T \cup {title}, B) BY <1>5, <2>3, <2>4 DEF Keeps, Reflects, Unread
    <2>6. Keeps(r, T \cup {title}, B) BY <1>5, <2>5 DEF Keeps
    <2>7. Remaining(B, s.db, r.db) \cup DirtyTexts(s, r, op) = B BY <1>6, <1>7
    <2>8. Keeps(r, T \cup DirtyTitles(s, r, op), Remaining(B, s.db, r.db) \cup DirtyTexts(s, r, op))
      BY <2>1, <2>6, <2>7
    <2> QED BY <2>8 DEF r
  <1> QED BY <1>8, <1>9

\* A file is shown where the latest word says so and its owner is there.
LEMMA AttachmentKeeps ==
  ASSUME NEW s, NEW T, NEW B, Keeps(s, T, B), NEW op, op.at \in Nat,
         NEW x \in Objects, NEW h \in Hashes, NEW present \in BOOLEAN,
         op.kind = Attaches(x, h, present)
  PROVE  LET r == RowsAfter(s, op)
         IN  Keeps(r, T \cup DirtyTitles(s, r, op),
                   Remaining(B, s.db, r.db) \cup DirtyTexts(s, r, op))
  <1> DEFINE r   == RowsAfter(s, op)
             row == Newer(s.files[x][h], op)
             s1  == [s EXCEPT !.files[x][h] = row]
  <1>1. /\ op.kind.name = "Attachment" /\ op.kind.owner = x /\ op.kind.hash = h
        /\ op.kind.present = present
    BY DEF Attaches
  <1>2. s \in Stores BY DEF Keeps
  <1>3. row \in Registers
    <2>1. s.files[x][h] \in Registers BY <1>2 DEF Stores
    <2> QED BY <1>1, <2>1, NewerType
  <1>4. r = ReconcileFiles(s1, {<<x, h>>}) BY <1>1 DEF RowsAfter
  <1> HIDE DEF row
  <1>5. /\ s1 \in Stores /\ s1.db = s.db /\ s1.aliases = s.aliases /\ s1.links = s.links
        /\ s1.refs = s.refs /\ s1.attached = s.attached
        /\ \A y \in Objects, g \in Hashes : <<y, g>> # <<x, h>> => s1.files[y][g] = s.files[y][g]
    BY <1>2, <1>3 DEF Stores
  <1> HIDE DEF s1, r
  <1>6. {<<x, h>>} \in SUBSET (Objects \X Hashes) OBVIOUS
  <1>7. /\ r \in Stores /\ r.db = s.db /\ r.aliases = s.aliases /\ r.files = s1.files
        /\ r.links = s.links /\ r.refs = s.refs
        /\ \A k \in Objects \X Hashes :
             k \in r.attached <=> IF k \in {<<x, h>>} THEN k \in FilesShown(s1) ELSE k \in s.attached
    BY <1>4, <1>5, <1>6, FilesFields
  <1>8. r.attached = FilesShown(r)
    <2>1. r.attached \subseteq Objects \X Hashes /\ FilesShown(r) \subseteq Objects \X Hashes
      BY <1>7 DEF Stores, FilesShown
    <2>2. s.attached = FilesShown(s) BY DEF Keeps, Reflects
    <2>3. ASSUME NEW k \in Objects \X Hashes PROVE k \in r.attached <=> k \in FilesShown(r)
      <3>1. CASE k = <<x, h>>
        BY <3>1, <1>5, <1>7 DEF FilesShown
      <3>2. CASE k # <<x, h>>
        <4>1. r.files[k[1]][k[2]] = s.files[k[1]][k[2]] BY <3>2, <1>5, <1>7
        <4>2. k \in r.attached <=> k \in s.attached BY <3>2, <1>7
        <4> QED BY <4>1, <4>2, <2>2, <1>7 DEF FilesShown
      <3> QED BY <3>1, <3>2
    <2> QED BY <2>1, <2>3
  <1>9. \A t : ResolvePageAlias(r, t) = ResolvePageAlias(s, t) BY <1>7, SamePages
  <1>10. \A b \in Blocks : Reads(s, b, T) => Reads(r, b, T) BY <1>7, <1>9 DEF Reads
  <1>11. Reflects(r, T, B) BY <1>7, <1>8, <1>10 DEF Keeps, Reflects, Unread
  <1>12. Keeps(r, T, B) BY <1>7, <1>11 DEF Keeps
  <1>13. DirtyTexts(s, r, op) = {} /\ DirtyTitles(s, r, op) = {}
    BY <1>1 DEF DirtyTexts, DirtyTitles
  <1>14. Remaining(B, s.db, r.db) = B BY <1>7 DEF Remaining, Vanished
  <1>15. Keeps(r, T \cup DirtyTitles(s, r, op), Remaining(B, s.db, r.db) \cup DirtyTexts(s, r, op))
    <2>1. T \cup DirtyTitles(s, r, op) = T BY <1>13
    <2>2. Remaining(B, s.db, r.db) \cup DirtyTexts(s, r, op) = B BY <1>13, <1>14
    <2> QED BY <1>12, <2>1, <2>2
  <1> QED BY <1>15 DEF r

\* An operation that is not refused leaves every row as a newcomer would write it, but
\* for the titles and texts it reports as changed (apply_one_with_effects).
THEOREM OneOperationKeeps ==
  ASSUME NEW s, NEW T, NEW B, Keeps(s, T, B),
         NEW op, op.kind \in Kinds \cup RowKinds, op.at \in Stamp, ~IsRefused(s, op)
  PROVE  LET r == RowsAfter(s, op)
         IN  Keeps(r, T \cup DirtyTitles(s, r, op),
                   Remaining(B, s.db, r.db) \cup DirtyTexts(s, r, op))
  <1>0. op.at \in Nat BY DEF Stamp
  <1>1. CASE op.kind \in Kinds
    <2>1. ~Refuses(s.db, op) BY DEF IsRefused, Refuses
    <2> QED BY <1>1, <2>1, NotesKeep
  <1>2. CASE op.kind \in RowKinds
    <2>1. \/ \E p \in Pages, t \in Titles, y \in BOOLEAN : op.kind = SetsAlias(p, t, y)
          \/ \E x \in Objects, h \in Hashes, y \in BOOLEAN : op.kind = Attaches(x, h, y)
      BY <1>2 DEF RowKinds
    <2>2. ASSUME NEW p \in Pages, NEW t \in Titles, NEW y \in BOOLEAN, op.kind = SetsAlias(p, t, y)
          PROVE  LET r == RowsAfter(s, op)
                 IN  Keeps(r, T \cup DirtyTitles(s, r, op),
                           Remaining(B, s.db, r.db) \cup DirtyTexts(s, r, op))
      BY <1>0, <2>2, AliasKeeps
    <2>3. ASSUME NEW x \in Objects, NEW h \in Hashes, NEW y \in BOOLEAN, op.kind = Attaches(x, h, y)
          PROVE  LET r == RowsAfter(s, op)
                 IN  Keeps(r, T \cup DirtyTitles(s, r, op),
                           Remaining(B, s.db, r.db) \cup DirtyTexts(s, r, op))
      BY <1>0, <2>3, AttachmentKeeps
    <2> QED BY <2>1, <2>2, <2>3
  <1> QED BY <1>1, <1>2

LEMMA DirtyTitlesType ==
  ASSUME NEW s \in Stores, NEW after, NEW op, op.kind \in Kinds \cup RowKinds
  PROVE  DirtyTitles(s, after, op) \subseteq Titles
  <1>1. \A p \in Pages : /\ s.db.pages[p].title \in Titles \cup {None}
                         /\ ExplicitAliases(s, p) \subseteq Titles
                         /\ ReferenceAliases(s, p) \subseteq Titles
    BY DEF Stores, Databases, ExplicitAliases, ReferenceAliases
  <1>2. \A p \in Pages, t \in Titles \cup {None} : Claimed(s, after, p, t) \subseteq Titles
    BY <1>1 DEF Claimed
  <1>3. CASE op.kind.name = "PageCreate"
    <2>1. op.kind.page \in Pages /\ op.kind.title \in Titles \cup {None}
      BY <1>3, KindCases DEF RowKinds, SetsAlias, Attaches, PageCreates, PageSetsTitle, PageDeletes,
           BlockCreates, BlockSetsMarkdown, BlockMoves, BlockDeletes
    <2> QED BY <1>1, <1>2, <1>3, <2>1 DEF DirtyTitles
  <1>4. CASE op.kind.name = "PageSetTitle"
    <2>1. op.kind.page \in Pages /\ op.kind.title \in Titles \cup {None}
      BY <1>4, KindCases DEF RowKinds, SetsAlias, Attaches, PageCreates, PageSetsTitle, PageDeletes,
           BlockCreates, BlockSetsMarkdown, BlockMoves, BlockDeletes
    <2> QED BY <1>2, <1>4, <2>1 DEF DirtyTitles
  <1>5. CASE op.kind.name = "PageDelete"
    <2>1. op.kind.page \in Pages
      BY <1>5, KindCases DEF RowKinds, SetsAlias, Attaches, PageCreates, PageSetsTitle, PageDeletes,
           BlockCreates, BlockSetsMarkdown, BlockMoves, BlockDeletes
    <2> QED BY <1>1, <1>5, <2>1 DEF DirtyTitles
  <1>6. CASE op.kind.name = "PageAliasSet"
    <2>1. op.kind.title \in Titles
      BY <1>6, KindCases DEF RowKinds, SetsAlias, Attaches, PageCreates, PageSetsTitle, PageDeletes,
           BlockCreates, BlockSetsMarkdown, BlockMoves, BlockDeletes
    <2> QED BY <1>6, <2>1 DEF DirtyTitles
  <1>7. CASE op.kind.name \notin {"PageCreate", "PageSetTitle", "PageDelete", "PageAliasSet"}
    BY <1>7 DEF DirtyTitles
  <1> QED BY <1>3, <1>4, <1>5, <1>6, <1>7

\* What is offered is an operation with a stamp.
LEMMA OfferedIs ==
  ASSUME scenario \in Scenarios, NEW op \in Offered
  PROVE  op.kind \in Kinds \cup RowKinds /\ op.at \in Stamp
  <1>1. PICK n \in 0..LastStamp : scenario \in [1..n -> Kinds \cup RowKinds] BY ReferencesAssumption
  <1>2. PICK i \in DOMAIN scenario : op = [at |-> i, kind |-> scenario[i]] BY DEF Offered
  <1>3. i \in 1..n /\ scenario[i] \in Kinds \cup RowKinds BY <1>1, <1>2
  <1> QED BY <1>2, <1>3, ReferencesAssumption DEF Stamp

LEMMA NoEffectsType == NoEffects \in Effects BY DEF NoEffects, Effects

\* A replica without a note keeps what a newcomer to nothing has.
LEMMA EmptyKeeps == Keeps(EmptyStore, {}, {})
  <1>1. EmptyDatabase \in Databases /\ Consistent(EmptyDatabase) BY EmptyShows DEF Shows
  <1>2. NoName \in Registers /\ NoFile \in Registers BY DEF NoName, NoFile, Registers
  <1>3. EmptyStore \in Stores BY <1>1, <1>2, NoLinksType DEF EmptyStore, Stores
  <1>4. \A p \in Pages : EmptyDatabase.pages[p] = NoPage BY DEF EmptyDatabase
  <1>5. \A b \in Blocks : EmptyDatabase.blocks[b] = NoBlock BY DEF EmptyDatabase
  <1>6. Bare(EmptyDatabase) BY <1>4, <1>5 DEF Bare
  <1>7. \A b \in Blocks : ~BlockExists(EmptyDatabase, b) BY <1>5 DEF BlockExists, NoBlock
  <1>8. \A x \in Objects, h \in Hashes : EmptyStore.files[x][h].present = FALSE
    BY DEF EmptyStore, NoFile
  <1>9. FilesShown(EmptyStore) = {} BY <1>8 DEF FilesShown
  <1>10. Reflects(EmptyStore, {}, {}) BY <1>7, <1>9 DEF Reflects, Unread, EmptyStore
  <1> QED BY <1>1, <1>3, <1>6, <1>10 DEF Keeps, EmptyStore

\* The end of a batch writes what its effects name (ApplyEffects::finish).
LEMMA FinishKeeps ==
  ASSUME NEW s, NEW T, NEW B, Keeps(s, T, B)
  PROVE  Keeps(ReplaceRefs(ReconcileLinks(RepairTree(s), T), B), {}, {})
  BY RepairKeeps, LinksReconciled, RefsReplaced

LEMMA RefInvHolds == RefInit => RefInv
  BY EmptyKeeps, NoEffectsType DEF RefInit, RefInv, NoEffects

LEMMA ApplyOneKeeps ==
  ASSUME RefInv, NEW op \in Offered, ApplyOne(op) PROVE RefInv'
  <1> DEFINE after  == RowsAfter(store, op)
             titles == DirtyTitles(store, after, op)
             texts  == DirtyTexts(store, after, op)
             left   == Remaining(effects.texts, store.db, after.db)
  <1>1. /\ effects.open /\ ~IsRefused(store, op)
        /\ scenario' = scenario
        /\ IF effects.deferred
           THEN /\ store' = after
                /\ effects' = [effects EXCEPT !.titles = @ \cup titles, !.texts = left \cup texts]
           ELSE /\ store' = ReplaceRefs(ReconcileLinks(RepairTree(after), titles), texts)
                /\ effects' = effects
    BY DEF ApplyOne
  <1>2. op.kind \in Kinds \cup RowKinds /\ op.at \in Stamp BY OfferedIs DEF RefInv
  <1>3. Keeps(after, effects.titles \cup titles, left \cup texts)
    BY <1>1, <1>2, OneOperationKeeps DEF RefInv
  <1>4. titles \subseteq Titles BY <1>2, DirtyTitlesType DEF RefInv, Keeps
  <1>5. left \cup texts \subseteq Blocks BY <1>3 DEF Keeps
  <1>6. left \subseteq effects.texts BY DEF Remaining
  <1> HIDE DEF after, titles, texts, left
  <1>7. CASE effects.deferred
    <2>1. /\ store' = after
          /\ effects' = [effects EXCEPT !.titles = effects.titles \cup titles, !.texts = left \cup texts]
      BY <1>1, <1>7
    <2>2. effects.titles \cup titles \in SUBSET Titles BY <1>4 DEF RefInv, Effects
    <2>3. /\ effects' \in Effects /\ effects'.titles = effects.titles \cup titles
          /\ effects'.texts = left \cup texts
          /\ effects'.open /\ effects'.deferred /\ effects'.before = effects.before
      BY <2>1, <2>2, <1>1, <1>5, <1>7 DEF RefInv, Effects
    <2>4. Keeps(store', effects'.titles, effects'.texts) BY <2>1, <2>3, <1>3
    <2>5. Keeps(effects'.before, {}, {}) BY <2>3, <1>1 DEF RefInv
    <2> QED BY <1>1, <2>3, <2>4, <2>5 DEF RefInv
  <1>8. CASE ~effects.deferred
    <2>1. effects.titles = {} /\ effects.texts = {} BY <1>8 DEF RefInv
    <2>2. effects.titles \cup titles = titles /\ left \cup texts = texts BY <2>1, <1>6
    <2>3. Keeps(after, titles, texts) BY <1>3, <2>2
    <2>4. Keeps(store', {}, {}) BY <1>1, <1>8, <2>3, FinishKeeps
    <2>5. effects' = effects BY <1>1, <1>8
    <2> QED BY <1>1, <2>1, <2>4, <2>5 DEF RefInv
  <1> QED BY <1>7, <1>8

LEMMA RefInvStep == RefInv /\ [RefNext]_refVars => RefInv'
  <1> SUFFICES ASSUME RefInv, [RefNext]_refVars PROVE RefInv' OBVIOUS
  <1>1. ASSUME NEW deferred \in BOOLEAN, Begin(deferred) PROVE RefInv'
    <2>1. /\ ~effects.open /\ store' = store /\ scenario' = scenario
          /\ effects' = [NoEffects EXCEPT !.open = TRUE, !.deferred = deferred, !.before = store]
      BY <1>1 DEF Begin
    <2>2. Keeps(store, {}, {}) BY <2>1 DEF RefInv
    <2>3. store \in Stores BY <2>2 DEF Keeps
    <2>4. /\ effects' \in Effects /\ effects'.titles = {} /\ effects'.texts = {}
          /\ effects'.before = store
      BY <2>1, <2>3 DEF NoEffects, Effects
    <2> QED BY <2>1, <2>2, <2>4 DEF RefInv
  <1>2. ASSUME NEW op \in Offered, ApplyOne(op) PROVE RefInv' BY <1>2, ApplyOneKeeps
  <1>3. ASSUME NEW op \in Offered, Rollback(op) PROVE RefInv'
    <2>1. effects.open /\ store' = effects.before /\ effects' = NoEffects /\ scenario' = scenario
      BY <1>3 DEF Rollback
    <2>2. Keeps(store', {}, {}) BY <2>1 DEF RefInv
    <2>3. effects'.titles = {} /\ effects'.texts = {} /\ ~effects'.open BY <2>1 DEF NoEffects
    <2> QED BY <2>1, <2>2, <2>3, NoEffectsType DEF RefInv
  <1>4. CASE Finish
    <2>1. /\ store' = ReplaceRefs(ReconcileLinks(RepairTree(store), effects.titles), effects.texts)
          /\ effects' = NoEffects /\ scenario' = scenario
      BY <1>4 DEF Finish
    <2>2. Keeps(store', {}, {}) BY <2>1, FinishKeeps DEF RefInv
    <2>3. effects'.titles = {} /\ effects'.texts = {} /\ ~effects'.open BY <2>1 DEF NoEffects
    <2> QED BY <2>1, <2>2, <2>3, NoEffectsType DEF RefInv
  <1>5. CASE UNCHANGED refVars BY <1>5 DEF refVars, RefInv
  <1> QED BY <1>1, <1>2, <1>3, <1>4, <1>5 DEF RefNext

\* Between batches, and within them but for what their effects name, every link,
\* reference and file is what the texts, the names and the owners say.
THEOREM RowsReflectTexts == RefSpec => []RefInv
  BY RefInvHolds, RefInvStep, PTL DEF RefSpec

\* A batch reads no text of a block that is gone at its end (discard_block_refs).
THEOREM PendingTextsHold == RefSpec => []PendingTextsAreThere
  <1>1. RefInv => PendingTextsAreThere
    BY DEF RefInv, Keeps, Reflects, PendingTextsAreThere
  <1> QED BY <1>1, RowsReflectTexts, PTL

LEMMA KeptIsNew ==
  ASSUME NEW s, Keeps(s, {}, {}) PROVE s = Newcomer(s)
  <1> DEFINE rows == [EmptyStore EXCEPT !.db = s.db, !.identities = s.identities,
                                        !.aliases = s.aliases, !.files = s.files]
             B    == {b \in Blocks : BlockExists(s.db, b)}
             read == ReplaceRefs(rows, B)
             n    == ReconcileFiles(read, Objects \X Hashes)
  <1>1. s \in Stores /\ Reflects(s, {}, {}) BY DEF Keeps
  <1>2. EmptyStore \in Stores BY EmptyKeeps DEF Keeps
  <1>3. /\ rows \in Stores /\ rows.db = s.db /\ rows.identities = s.identities
        /\ rows.aliases = s.aliases /\ rows.files = s.files
        /\ \A b \in Blocks : rows.links[b] = NoLinks /\ rows.refs[b] = {}
    <2>1. \A b \in Blocks : EmptyStore.links[b] = NoLinks /\ EmptyStore.refs[b] = {}
      BY DEF EmptyStore
    <2> HIDE DEF EmptyStore
    <2> QED BY <1>1, <1>2, <2>1 DEF Stores
  <1> HIDE DEF rows
  <1>4. B \in SUBSET Blocks OBVIOUS
  <1>5. /\ read \in Stores /\ read.db = s.db /\ read.identities = s.identities
        /\ read.aliases = s.aliases /\ read.files = s.files
        /\ \A b \in Blocks :
             /\ b \in B => /\ read.links[b] = [t \in TitlesIn(s.db, b) |-> ResolvePageAlias(rows, t)]
                           /\ read.refs[b] = BlocksIn(s.db, b)
             /\ b \notin B => read.links[b] = NoLinks /\ read.refs[b] = {}
    BY <1>3, <1>4, RefsFields
  <1> HIDE DEF read
  <1>6. /\ n \in Stores /\ n.db = s.db /\ n.identities = s.identities
        /\ n.aliases = s.aliases /\ n.files = s.files /\ n.links = read.links /\ n.refs = read.refs
        /\ \A k \in Objects \X Hashes : k \in n.attached <=> k \in FilesShown(read)
    BY <1>5, FilesFields
  <1>7. n = Newcomer(s) BY DEF Newcomer, n, read, rows, B
  <1> HIDE DEF n
  <1>8. \A t : ResolvePageAlias(rows, t) = ResolvePageAlias(s, t) BY <1>3, SamePages
  <1>9. ASSUME NEW b \in Blocks PROVE s.links[b] = n.links[b] /\ s.refs[b] = n.refs[b]
    <2>1. CASE BlockExists(s.db, b)
      <3>1. Reads(s, b, {}) BY <2>1, <1>1 DEF Reflects
      <3>2. n.links[b] = [t \in TitlesIn(s.db, b) |-> ResolvePageAlias(s, t)]
        BY <2>1, <1>5, <1>6, <1>8
      <3>3. s.links[b] \in Links BY <1>1 DEF Stores
      <3>4. s.links[b] = [t \in DOMAIN s.links[b] |-> s.links[b][t]] BY <3>3, LinksAre
      <3>5. s.links[b] = n.links[b] BY <3>1, <3>2, <3>4 DEF Reads
      <3> QED BY <3>1, <3>5, <2>1, <1>5, <1>6 DEF Reads
    <2>2. CASE ~BlockExists(s.db, b)
      <3>1. Unread(s, b) BY <2>2, <1>1 DEF Reflects
      <3> QED BY <3>1, <2>2, <1>5, <1>6 DEF Unread
    <2> QED BY <2>1, <2>2
  <1>10. s.links = n.links
    <2>1. s.links \in [Blocks -> Links] /\ n.links \in [Blocks -> Links] BY <1>1, <1>6 DEF Stores
    <2> QED BY <1>9, <2>1
  <1>11. s.refs = n.refs
    <2>1. s.refs \in [Blocks -> SUBSET Blocks] /\ n.refs \in [Blocks -> SUBSET Blocks]
      BY <1>1, <1>6 DEF Stores
    <2> QED BY <1>9, <2>1
  <1>12. s.attached = n.attached
    <2>1. n.attached \subseteq Objects \X Hashes /\ FilesShown(read) \subseteq Objects \X Hashes
      BY <1>6 DEF Stores, FilesShown
    <2>2. n.attached = FilesShown(read) BY <1>6, <2>1
    <2>3. FilesShown(read) = FilesShown(s) BY <1>5 DEF FilesShown
    <2> QED BY <1>1, <2>2, <2>3 DEF Reflects
  <1>13. s = n BY <1>1, <1>6, <1>10, <1>11, <1>12 DEF Stores
  <1> QED BY <1>7, <1>13

\* Whatever the order and the batches, a replica shows what one that joins with its
\* snapshot shows (ApplyEffects, import_sync_snapshot).
THEOREM JoinersSeeTheSame == RefSpec => []ShowsWhatJoinersSee
  <1>1. RefInv => ShowsWhatJoinersSee BY KeptIsNew DEF RefInv, ShowsWhatJoinersSee
  <1> QED BY <1>1, RowsReflectTexts, PTL
=============================================================================
