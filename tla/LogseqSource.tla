---------------------------- MODULE LogseqSource ----------------------------
(***************************************************************************)
(* One Markdown file of a Logseq graph and the outline the parser reads    *)
(* from it (crates/notes-import/src/parser.rs).                            *)
(*                                                                         *)
(* A line is its leading white space, whether a dash follows, and the      *)
(* pieces of its text.  A piece is what a later stage tells apart: a word, *)
(* a link, an image, a property, a task marker, a fence.  A place in a     *)
(* file is a line and a piece of it, so that ranges have the order and the *)
(* overlaps they have in bytes.  Warnings, which stop nothing, are left    *)
(* out.                                                                    *)
(***************************************************************************)
EXTENDS Naturals, Sequences, SequencesExt, FiniteSetsExt

CONSTANTS
    TabStop,    \* one tab, two columns wide
    Blank       \* one space; also the value of a property that has none

\* A piece.  What carries nothing has Blank as its argument.
Piece(tag, arg) == [tag |-> tag, arg |-> arg]

Dash == Piece("dash", Blank)

IsPiece(text, tag) == text # <<>> /\ Head(text).tag = tag

----------------------------------------------------------------------------
(* A logical line: the line of the file it came from, what is left of its  *)
(* white space, its text, and whether it lies in a fenced block of code.   *)

Logical(at, lead, text, code) == [at |-> at, lead |-> lead, text |-> text, code |-> code]

IndentationColumns(lead) == Len(lead) + Len(SelectSeq(lead, LAMBDA s : s = TabStop))

\* A continuation loses the indentation of its block and two spaces more,
\* if it has them.
NormalizeContinuation(lead, indentation) ==
    IF ~IsPrefix(indentation, lead) THEN lead
    ELSE LET rest == SubSeq(lead, Len(indentation) + 1, Len(lead))
         IN  IF IsPrefix(<<Blank, Blank>>, rest) THEN SubSeq(rest, 3, Len(rest)) ELSE rest

\* A fence may be indented by three spaces, and by nothing else.
FenceLength(line) ==
    IF /\ Len(line.lead) <= 3 /\ \A i \in DOMAIN line.lead : line.lead[i] = Blank
       /\ IsPiece(line.text, "fence")
    THEN Head(line.text).arg
    ELSE 0

OpensFence(line) == FenceLength(line) > 0

\* Nothing but the marker, and at least as long as the one that opened.
ClosesFence(line, length) == FenceLength(line) >= length /\ Len(line.text) = 1

----------------------------------------------------------------------------
(* The parser, one line after the other.  fence is the length of the open  *)
(* one, 0 outside; ancestors the blocks a deeper bullet can hang from.     *)

FreshParser == [preamble |-> <<>>, blocks |-> <<>>, ancestors |-> <<>>, fence |-> 0]

AppendLine(p, at, line) ==
    LET text == IF line.dash THEN <<Dash>> \o line.text ELSE line.text
        Add(lines, lead) ==
            LET new == Logical(at, lead, text, p.fence > 0)
            IN  Append(lines, [new EXCEPT !.code = @ \/ OpensFence(new)])
    IN  IF p.blocks = <<>> THEN [p EXCEPT !.preamble = Add(@, line.lead)]
        ELSE LET b == Last(p.blocks)
                 lead == NormalizeContinuation(line.lead, b.indentation)
             IN  [p EXCEPT !.blocks[Len(p.blocks)].lines = Add(@, lead)]

\* Mutant: a bullet goes under the one beside it.
StartBlockBeside(p, at, line) ==
    LET columns == IndentationColumns(line.lead)
        kept == SelectSeq(p.ancestors,
                          LAMBDA i : IndentationColumns(p.blocks[i].indentation) <= columns)
        parent == IF kept = <<>> THEN 0 ELSE Last(kept)
        head == Logical(at, <<>>, line.text, FALSE)
    IN  [p EXCEPT
           !.ancestors = Append(kept, Len(p.blocks) + 1),
           !.blocks = Append(@,
               [parent |-> parent,
                sibling |-> Len(SelectSeq(@, LAMBDA b : b.parent = parent)),
                depth |-> Len(kept),
                indentation |-> line.lead,
                lines |-> <<[head EXCEPT !.code = OpensFence(head)]>>])]

\* The parent is the last block that is indented less; what is indented as
\* much or more can have no further child.
StartBlock(p, at, line) ==
    LET columns == IndentationColumns(line.lead)
        kept == SelectSeq(p.ancestors,
                          LAMBDA i : IndentationColumns(p.blocks[i].indentation) < columns)
        parent == IF kept = <<>> THEN 0 ELSE Last(kept)
        head == Logical(at, <<>>, line.text, FALSE)
    IN  [p EXCEPT
           !.ancestors = Append(kept, Len(p.blocks) + 1),
           !.blocks = Append(@,
               [parent |-> parent,
                sibling |-> Len(SelectSeq(@, LAMBDA b : b.parent = parent)),
                depth |-> Len(kept),
                indentation |-> line.lead,
                lines |-> <<[head EXCEPT !.code = OpensFence(head)]>>])]

LastLine(p) == IF p.blocks = <<>> THEN Last(p.preamble) ELSE Last(Last(p.blocks).lines)

ParseLine(p, at, line) ==
    IF p.fence > 0
    THEN LET q == AppendLine(p, at, line)
         IN  IF ClosesFence(LastLine(q), p.fence) THEN [q EXCEPT !.fence = 0] ELSE q
    ELSE LET q == IF line.dash THEN StartBlock(p, at, line) ELSE AppendLine(p, at, line)
         IN  [q EXCEPT !.fence = FenceLength(LastLine(q))]

Parsed(lines) == FoldLeftDomain(LAMBDA p, at : ParseLine(p, at, lines[at]), FreshParser, lines)

----------------------------------------------------------------------------
(* What the lines of a block or of a preamble say.  Code says nothing.     *)

\* The numbers of the lines that are a property of this name.
PropertyLines(lines, name) ==
    {i \in DOMAIN lines : ~lines[i].code /\ IsPiece(lines[i].text, name)}

PropertyValue(lines, i) == Head(lines[i].text).arg

\* Only the first line of a block can be a task.
TaskMarker(lines) ==
    IF ~lines[1].code /\ IsPiece(lines[1].text, "task") THEN Head(lines[1].text).arg ELSE Blank

\* The outline hangs together: a parent comes before its children and is one
\* level above them, and the children of a block are counted from zero.
OutlineHolds(document) ==
    LET blocks == document.blocks
    IN  \A i \in DOMAIN blocks :
            LET b == blocks[i]
            IN  /\ b.lines # <<>>
                /\ IF b.parent = 0 THEN b.depth = 0
                   ELSE b.parent < i /\ blocks[b.parent].depth + 1 = b.depth
                /\ \A j \in DOMAIN blocks :
                       i # j /\ blocks[j].parent = b.parent => blocks[j].sibling # b.sibling
                /\ b.sibling < Cardinality({j \in DOMAIN blocks : blocks[j].parent = b.parent})
=============================================================================
