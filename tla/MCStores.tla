------------------------------ MODULE MCStores ------------------------------
(***************************************************************************)
(* StoreParts on a small instance.  The graphs have two files of up to     *)
(* four lines; each is written from the lines of one concern, so that the  *)
(* outline, identities, titles, media, tasks and code meet within          *)
(* themselves.                                                             *)
(***************************************************************************)
EXTENDS StoreParts, TLC

CONSTANTS a1, a2, x, y
CONSTANTS t1, t2, att, copy, leaf, h1, h2
CONSTANTS Plain, Wide, Split, Other, Day, LongDay, u, todo, img, data, gone, sketch

HashOf == (att :> {h1}) @@ (copy :> {h1}) @@ (leaf :> {h1, h2})
Writers == (att :> t1) @@ (copy :> t2) @@ (leaf :> t2)

GraphTitles == {Plain, Wide, Split, Other, Day, LongDay}
GraphNfc == [t \in GraphTitles |-> IF t = Split THEN Plain ELSE t]
GraphNfkc == [t \in GraphTitles |-> IF t \in {Split, Wide} THEN Plain ELSE t]
GraphSpellings == (Day :> {Day, LongDay})
GraphManifest == (img :> "asset") @@ (sketch :> "drawing")

Line(lead, dash, pieces) == [lead |-> lead, dash |-> dash, text |-> pieces]
Bullet(pieces) == Line(<<>>, TRUE, pieces)
Continued(pieces) == Line(<<Blank, Blank>>, FALSE, pieces)
Word == Piece("word", Blank)
Link(title) == Piece("link", title)
Image(file) == <<Piece("label", Blank), Piece("dest", file)>>

OutlineLines ==
    {Bullet(<<Word>>), Line(<<Blank>>, TRUE, <<Word>>), Line(<<TabStop>>, TRUE, <<Word>>),
     Line(<<Blank, Blank>>, TRUE, <<Word>>),
     Continued(<<Piece("fence", 3)>>), Line(<<>>, FALSE, <<>>)}
FirstBlock == DerivedUuid(PageUuid(NoteSource(Plain)), <<0>>, <<Logical(1, <<>>, <<Word>>, FALSE)>>)
IdentityLines ==
    {Bullet(<<Word>>), Bullet(<<Piece("ref", u)>>), Bullet(<<Piece("id", u)>>)} \union
        {Continued(<<Piece("id", i)>>) : i \in {u, PageUuid(NoteSource(Plain)), FirstBlock}}
TitleLinesOf ==
    {Line(<<>>, FALSE, <<Piece("title", t)>>) : t \in {Other, Wide}} \union
        {Bullet(<<Link(t), Word>>) : t \in {Plain, Split, Wide, Other, LongDay}}
MediaLines ==
    {Bullet(Image(img) \o <<Word>> \o Image(img)), Bullet(<<Piece("drawing", sketch)>> \o Image(data)),
     Continued(Image(gone) \o <<Piece("drawing", sketch), Piece("drawing", img)>>),
     Continued(<<Piece("fence", 3)>>), Line(<<>>, FALSE, <<Word>> \o Image(img))}
TaskLines ==
    {Bullet(<<Piece("task", todo), Word>>), Bullet(<<Piece("number", Blank)>>),
     Continued(<<Piece("number", Blank)>>), Continued(<<Piece("task", todo), Link(Plain)>>),
     Line(<<TabStop>>, TRUE, <<Piece("task", todo)>> \o Image(img))}

Indented(pieces) == Line(<<Blank, Blank, Blank, Blank, Blank, Blank>>, FALSE, pieces)
ReadingLines ==
    {Bullet(<<Piece("task", todo), Piece("fence", 3)>>), Bullet(<<Piece("task", todo)>>),
     Bullet(<<Piece("id", u)>>), Continued(<<Piece("number", Blank)>>),
     Continued(<<Piece("fence", 3)>>), Line(<<>>, FALSE, <<>>),
     Indented(Image(img)), Continued(Image(img)),
     Continued(<<Piece("open", Blank)>> \o Image(img) \o <<Piece("dest", gone)>>)}

Case(lines, bound, files, drawn) ==
    [lines |-> lines, bound |-> bound, files |-> files, published |-> drawn]
Daily == <<NoteSource(Plain), JournalSource(Day)>>
GraphCases ==
    {Case(OutlineLines, 4, <<NoteSource(Plain)>>, {})} \union
    {Case(l, 3, Daily, {}) : l \in {IdentityLines, TaskLines}} \union
    {Case(MediaLines, 3, <<NoteSource(Plain)>>, d) : d \in {{}, {sketch}}} \union
    {Case(ReadingLines, 4, <<NoteSource(Plain)>>, {})} \union
    {Case(TitleLinesOf, 3, f, {}) :
        f \in {Daily, <<NoteSource(Plain), NoteSource(Other)>>, <<NoteSource(Plain), NoteSource(Wide)>>,
               <<NoteSource(Split), NoteSource(Plain)>>, <<NoteSource(Wide), JournalSource(Day)>>,
               <<NoteSource(LongDay), JournalSource(Day)>>}}
=============================================================================
