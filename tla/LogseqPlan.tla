----------------------------- MODULE LogseqPlan -----------------------------
(***************************************************************************)
(* The plan of an import, made from the parsed files of a Logseq graph     *)
(* and from nothing else (crates/notes-import/src/prepare.rs, media.rs).   *)
(*                                                                         *)
(* An identity is the term it is hashed from, because a version 5 UUID of  *)
(* two names differs when the names do; one that the user wrote into a     *)
(* file can be any identity at all.  A diagnostic that does not block the  *)
(* import is left out.                                                     *)
(***************************************************************************)
EXTENDS LogseqSource

CONSTANTS
    Titles,      \* spellings of page titles, dates among them
    NfcKey,      \* a title as Logseq compares it
    NfkcKey,     \* a title as Tangleaf compares it
    Spellings,   \* how Logseq may write the date of a journal
    Manifest,    \* what kind of file each path of the graph is
    Inline,      \* destinations that are the data of an image themselves
    MaxNesting

ASSUME TitlesAssumption ==
    /\ NfcKey \in [Titles -> Titles] /\ NfkcKey \in [Titles -> Titles]
    /\ \A t \in Titles : /\ NfcKey[NfcKey[t]] = NfcKey[t]
                         /\ NfkcKey[NfcKey[t]] = NfkcKey[t]
                         /\ NfkcKey[NfkcKey[t]] = NfkcKey[t]
    /\ DOMAIN Spellings \subseteq Titles
    /\ \A d \in DOMAIN Spellings : d \in Spellings[d] /\ Spellings[d] \subseteq Titles

\* Where a page comes from: a file named for its title, or for its date.
NoteSource(title) == [kind |-> "note", title |-> title]
JournalSource(date) == [kind |-> "journal", title |-> date]

PageUuid(source) ==
    IF source.kind = "note" THEN <<"note", NfcKey[source.title]>> ELSE <<"journal", source.title>>

DerivedUuid(page, place, lines) ==
    <<"derived", page, place, [i \in DOMAIN lines |-> <<lines[i].lead, lines[i].text>>]>>

----------------------------------------------------------------------------
(* Pages. *)

TitleLines(document) == PropertyLines(document.preamble, "title")

TitleErrors(document) ==
    LET found == TitleLines(document)
    IN  IF \/ Cardinality(found) > 1
           \/ \E i \in found : PropertyValue(document.preamble, i) = Blank
        THEN {"page title"} ELSE {}

\* The one title property of the preamble wins over the name of the file.
PageTitle(source, document) ==
    LET found == TitleLines(document)
    IN  IF Cardinality(found) = 1 /\ TitleErrors(document) = {}
        THEN PropertyValue(document.preamble, CHOOSE i \in found : TRUE)
        ELSE source.title

SourceAliases(source, document) ==
    {NfcKey[PageTitle(source, document)]} \union
        (IF source.kind = "note" THEN {NfcKey[source.title]} ELSE Spellings[source.title])

\* A journal is named for its date, whatever its title property says.
DestinationTitle(source, document) ==
    IF source.kind = "note" THEN PageTitle(source, document) ELSE source.title

----------------------------------------------------------------------------
(* Blocks. *)

NoIdentity == [tag |-> "none", uuid |-> Blank, line |-> 0]
RejectedIdentity == [NoIdentity EXCEPT !.tag = "rejected"]

\* The identity a block claims by its id property; Blank is one that is no UUID.
ExplicitIdentity(lines) ==
    LET ids == PropertyLines(lines, "id")
    IN  IF ids = {} THEN NoIdentity
        ELSE IF \E i \in ids : Cardinality(ids) > 1 \/ PropertyValue(lines, i) = Blank
        THEN RejectedIdentity
        ELSE LET i == CHOOSE i \in ids : TRUE
             IN  [tag |-> "candidate", uuid |-> PropertyValue(lines, i), line |-> i]

\* The preamble of a file becomes the first block of its page.
PreambleWork(page, document) ==
    LET derived == DerivedUuid(page, <<>>, document.preamble)
    IN  IF document.preamble = <<>> THEN <<>>
        ELSE <<[derived |-> derived, target |-> derived, parent |-> 0, ordinal |-> 0,
                place |-> <<>>, style |-> "paragraph", service |-> {}, task |-> Blank,
                lines |-> document.preamble, explicit |-> NoIdentity]>>

\* One block after the blocks before it.  The preamble pushes the roots one
\* place down, but not their derived identities.
BlockWork(page, document, before, block) ==
    LET offset == Len(PreambleWork(page, document))
        parent == IF block.parent = 0 THEN 0 ELSE block.parent + offset
        place == Append(IF parent = 0 THEN <<>> ELSE before[parent].place, block.sibling)
        derived == DerivedUuid(page, place, block.lines)
        service == PropertyLines(block.lines, "number")
    IN  [derived |-> derived, target |-> derived, parent |-> parent, place |-> place,
         ordinal |-> block.sibling + (IF parent = 0 THEN offset ELSE 0),
         style |-> IF service = {} THEN "bullet" ELSE "numbered",
         service |-> service,
         task |-> TaskMarker(block.lines),
         lines |-> block.lines,
         explicit |-> ExplicitIdentity(block.lines)]

PageWork(source, document) ==
    LET uuid == PageUuid(source)
    IN  [uuid |-> uuid, kind |-> source.kind,
         title |-> DestinationTitle(source, document),
         aliases |-> SourceAliases(source, document),
         errors |-> TitleErrors(document),
         blocks |-> FoldLeft(LAMBDA before, block :
                                 Append(before, BlockWork(uuid, document, before, block)),
                             PreambleWork(uuid, document), document.blocks)]

----------------------------------------------------------------------------
(* Two pages, or two blocks, that want the same identity.  pages is a      *)
(* function from the paths of the graph.                                   *)

PlacesOf(pages) == UNION {{<<f, i>> : i \in DOMAIN pages[f].blocks} : f \in DOMAIN pages}
WorkAt(pages, p) == pages[p[1]].blocks[p[2]]
PageUuids(pages) == {pages[f].uuid : f \in DOMAIN pages}

DiagnosePageCollisions(pages) ==
    IF \E f, g \in DOMAIN pages : f # g /\
           (pages[f].uuid = pages[g].uuid \/ NfkcKey[pages[f].title] = NfkcKey[pages[g].title])
    THEN {"page collision"} ELSE {}

DerivedErrors(pages) ==
    IF \E p, q \in PlacesOf(pages) :
           \/ p # q /\ WorkAt(pages, p).derived = WorkAt(pages, q).derived
           \/ WorkAt(pages, p).derived \in PageUuids(pages)
    THEN {"derived identity"} ELSE {}

Claims(pages, p) == WorkAt(pages, p).explicit.tag = "candidate"

\* Mutant: only what other blocks claim is looked at.
IdentityCollidesExplicitly(pages, p) ==
    LET uuid == WorkAt(pages, p).explicit.uuid
    IN  \/ uuid \in PageUuids(pages)
        \/ \E q \in PlacesOf(pages) \ {p} :
               Claims(pages, q) /\ WorkAt(pages, q).explicit.uuid = uuid

\* Somebody else claims it too, a page has it, or another block would get it
\* if it claimed none.
IdentityCollides(pages, p) ==
    LET uuid == WorkAt(pages, p).explicit.uuid
    IN  \/ uuid \in PageUuids(pages)
        \/ \E q \in PlacesOf(pages) \ {p} :
               \/ Claims(pages, q) /\ WorkAt(pages, q).explicit.uuid = uuid
               \/ WorkAt(pages, q).derived = uuid

ResolveIdentity(pages, p) ==
    LET work == WorkAt(pages, p)
    IN  IF ~Claims(pages, p) THEN work
        ELSE IF IdentityCollides(pages, p) THEN [work EXCEPT !.explicit = RejectedIdentity]
        ELSE [work EXCEPT !.target = work.explicit.uuid]

ResolveBlockIdentities(pages) ==
    [f \in DOMAIN pages |->
        [pages[f] EXCEPT !.blocks = [i \in DOMAIN @ |-> ResolveIdentity(pages, <<f, i>>)]]]

\* Every rejected identity has been reported, here or when it was read.
IdentityErrors(pages) ==
    IF \E p \in PlacesOf(pages) : WorkAt(pages, p).explicit.tag = "rejected"
    THEN {"block identity"} ELSE {}

----------------------------------------------------------------------------
(* What the links of the graph can mean. *)

AliasOwners(pages, alias) == {f \in DOMAIN pages : alias \in pages[f].aliases}

AmbiguousTitles(pages) == {t \in Titles : Cardinality(AliasOwners(pages, t)) > 1}

\* Titles that are one page's, with that page.
PageTitles(pages) ==
    [t \in {t \in Titles : Cardinality(AliasOwners(pages, t)) = 1} |->
        pages[CHOOSE f \in DOMAIN pages : t \in pages[f].aliases].uuid]

AliasErrors(pages) == IF AmbiguousTitles(pages) = {} THEN {} ELSE {"title of two pages"}

BlockSourceUuids(pages) == {WorkAt(pages, p).explicit.uuid : p \in {p \in PlacesOf(pages) : Claims(pages, p)}}

----------------------------------------------------------------------------
(* The Markdown a block is imported with: without the properties that have *)
(* become its identity and its style, and without its task marker.         *)

RemovePropertyLines(lines, hidden) ==
    FoldLeftDomain(LAMBDA kept, i : IF i \in hidden THEN kept ELSE Append(kept, lines[i]), <<>>, lines)

StripTaskMarker(lines, marker) ==
    IF marker # Blank /\ lines # <<>> /\ IsPiece(lines[1].text, "task")
    THEN [lines EXCEPT ![1].text = Tail(@)] ELSE lines

FinalLines(work) ==
    StripTaskMarker(
        RemovePropertyLines(work.lines,
            work.service \union (IF work.explicit.tag = "candidate" THEN {work.explicit.line} ELSE {})),
        work.task)

----------------------------------------------------------------------------
(* How Markdown (pulldown-cmark) reads a text of its own, line after line: *)
(* code stands in a fence, or is indented by four columns and goes on with *)
(* no paragraph.  A dash outside code, which starts a list, counts as the  *)
(* start of a paragraph.                                                   *)

MarkdownColumns(lead) ==
    FoldLeft(LAMBDA c, s : IF s = TabStop THEN (c \div 4 + 1) * 4 ELSE c + 1, 0, lead)

IndentedCode(line) == MarkdownColumns(line.lead) >= 4

ReadMarkdownLine(read, line) ==
    LET indented == IndentedCode(line) /\ ~read.paragraph
    IN  IF read.fence > 0
        THEN [fence |-> IF ClosesFence(line, read.fence) THEN 0 ELSE read.fence,
              paragraph |-> FALSE, code |-> Append(read.code, TRUE)]
        ELSE [fence |-> FenceLength(line),
              paragraph |-> line.text # <<>> /\ ~indented /\ ~OpensFence(line),
              code |-> Append(read.code, indented \/ OpensFence(line))]

\* Which of the lines are code.
MarkdownCode(lines) ==
    FoldLeft(ReadMarkdownLine, [fence |-> 0, paragraph |-> FALSE, code |-> <<>>], lines).code

----------------------------------------------------------------------------
(* Images and drawings.  A token is a range of pieces in one line.  An     *)
(* image with another in its label is a piece "open", the inner image and  *)
(* the outer destination.                                                  *)

MediaKind(tag) == IF tag = "drawing" THEN "drawing" ELSE "image"

\* The last piece of what may start at piece i.
MediaEnd(text, i) ==
    CASE text[i].tag = "drawing" -> i
      [] text[i].tag = "label" -> i + 1
      [] text[i].tag = "open" -> i + 3

LineTokens(line, text) ==
    LET starts == {i \in DOMAIN text : text[i].tag \in {"drawing", "label", "open"}}
        whole == {i \in starts : LET end == MediaEnd(text, i)
                                 IN  end = i \/ (end <= Len(text) /\ text[end].tag = "dest")}
        Token(i) == [line |-> line, from |-> i, to |-> MediaEnd(text, i),
                     kind |-> MediaKind(text[i].tag), dest |-> text[MediaEnd(text, i)].arg]
    IN  SetToSortSeq({Token(i) : i \in whole}, LAMBDA s, t : s.from < t.from)

ParseMediaTokens(lines) ==
    LET code == MarkdownCode(lines)
    IN  FlattenSeq([i \in DOMAIN lines |-> IF code[i] THEN <<>> ELSE LineTokens(i, lines[i].text)])

SameMedia(s, t) == s.kind = t.kind /\ s.dest = t.dest

\* The places of the file are found by a cursor that does not go back, which a
\* token inside another would ask of it.
CursorAdvances(tokens) ==
    \A i \in 1 .. Len(tokens) - 1 :
        tokens[i].line < tokens[i + 1].line \/ tokens[i].to < tokens[i + 1].from

\* Those that are not on the line of the identity.
OriginalTokens(work, tokens) ==
    SelectSeq(tokens,
        LAMBDA t : ~(work.explicit.tag = "candidate" /\ t.line = work.explicit.line))

\* A text is read twice, as it is in the file and as it is imported.
ReadTwice(work) ==
    [original |-> ParseMediaTokens(work.lines), final |-> ParseMediaTokens(FinalLines(work))]

\* It has to show the same media both times.
MediaMaps(work, read) ==
    LET old == OriginalTokens(work, read.original)
        new == read.final
    IN  /\ CursorAdvances(read.original)
        /\ Len(old) = Len(new) /\ \A i \in DOMAIN old : SameMedia(old[i], new[i])

\* Only what the manifest has, as the kind that is asked for, is taken.
ClassifyLocal(kind, dest) ==
    IF dest \notin DOMAIN Manifest THEN "missing"
    ELSE IF Manifest[dest] = (IF kind = "drawing" THEN "drawing" ELSE "asset") THEN "local"
    ELSE "blocked"

\* Data in the text can be an image, never a drawing.
ClassifyDestination(kind, dest) ==
    IF dest \in Inline THEN (IF kind = "image" THEN "inline" ELSE "blocked")
    ELSE ClassifyLocal(kind, dest)

\* The references to media of one block, in the order of its text; there are
\* none of a text that does not map, which ends the dry run.
BlockMedia(page, work, read, final) ==
    [i \in IF MediaMaps(work, read) THEN DOMAIN read.final ELSE {} |->
        LET token == read.final[i]
            found == OriginalTokens(work, read.original)[i]
        IN  [owner |-> IF work.place = <<>> THEN <<"page", page.uuid>> ELSE <<"block", work.target>>,
             block |-> work.target, token |-> token,
             spelling |-> SubSeq(final[token.line].text, token.from, token.to),
             source |-> <<work.lines[found.line].at, found.from>>,
             resolution |-> ClassifyDestination(token.kind, token.dest)]]

PageMedia(page) ==
    FlattenSeq([i \in DOMAIN page.blocks |->
        BlockMedia(page, page.blocks[i], ReadTwice(page.blocks[i]), FinalLines(page.blocks[i]))])

----------------------------------------------------------------------------
(* Links.  A drawing is spelled as a link to its file. *)

LinkPieces == {"link", "ref", "nested", "drawing"}

ResolveReference(pages, piece) ==
    LET titles == PageTitles(pages)
    IN  CASE piece.tag \in {"nested", "drawing"} -> Blank
          [] piece.tag = "link" ->
                 IF NfcKey[piece.arg] \in DOMAIN titles THEN titles[NfcKey[piece.arg]] ELSE Blank
          [] piece.tag = "ref" -> IF piece.arg \in BlockSourceUuids(pages) THEN piece.arg ELSE Blank

\* Code has no links, and what is media is not a link as well.
CollectReferences(pages, page, taken) ==
    LET media == {taken[i].source : i \in DOMAIN taken}
        IsLink(line, k) == /\ ~line.code /\ line.text[k].tag \in LinkPieces
                           /\ <<line.at, k>> \notin media
        LineReferences(work, line) ==
            {[owner |-> work.target, piece |-> line.text[k],
              target |-> ResolveReference(pages, line.text[k])] :
                k \in {k \in DOMAIN line.text : IsLink(line, k)}}
        BlockReferences(work) == UNION {LineReferences(work, work.lines[j]) : j \in DOMAIN work.lines}
    IN  UNION {BlockReferences(page.blocks[i]) : i \in DOMAIN page.blocks}

----------------------------------------------------------------------------
(* The whole plan.  A graph can be refused without one.                    *)

WithinPrepareLimits(documents) ==
    \A f \in DOMAIN documents : \A i \in DOMAIN documents[f].blocks :
        documents[f].blocks[i].depth <= MaxNesting

PrepareImport(sources, documents) ==
    LET read == [f \in DOMAIN documents |-> PageWork(sources[f], documents[f])]
        pages == ResolveBlockIdentities(read)
        media == [f \in DOMAIN pages |-> PageMedia(pages[f])]
    IN  [pages |-> pages,
         references |-> UNION {CollectReferences(pages, pages[f], media[f]) : f \in DOMAIN pages},
         media |-> media,
         errors |-> UNION {pages[f].errors : f \in DOMAIN pages}
                      \union DiagnosePageCollisions(pages) \union DerivedErrors(pages)
                      \union IdentityErrors(pages) \union AliasErrors(pages)]

PlanHolds(plan) ==
    \A p \in PlacesOf(plan.pages) : MediaMaps(WorkAt(plan.pages, p), ReadTwice(WorkAt(plan.pages, p)))
=============================================================================
