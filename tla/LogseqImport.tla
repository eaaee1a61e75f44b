---------------------------- MODULE LogseqImport ----------------------------
(***************************************************************************)
(* What becomes of the content of a Logseq graph: somebody writes its      *)
(* files, a dry run plans the import and says whether it may be committed  *)
(* (src-tauri/src/commands/logseq_import.rs), the media are taken out of   *)
(* the text (crates/notes-import/src/materialize.rs) and the plan becomes  *)
(* one batch of operations in an empty workspace                           *)
(* (notes-core/src/external_import.rs).                                    *)
(*                                                                         *)
(* The text of a preview is the promise and the workspace has to keep it:  *)
(* the plan resolves identities and links in the names of Logseq, the      *)
(* workspace in its own.  Imports models the same job over a directory     *)
(* that changes while it is read.                                          *)
(***************************************************************************)
EXTENDS LogseqPlan

\* Graphs: their files, the lines these are written from, the drawings a
\* conversion has published, and a bound on the number of lines.
CONSTANT Cases

ASSUME CasesAssumption == \A c \in Cases : c.bound \in Nat

VARIABLES
    case,
    markdown,       \* the lines of each file
    phase,          \* of the import
    prepared,       \* the plan of the session
    landed          \* pages, aliases, blocks and attachments of the workspace

logseqVars == <<case, markdown, phase, prepared, landed>>

Phases == {"writing", "refused", "blocked", "ready", "applied", "rejected"}
NoPlan == [pages |-> <<>>, references |-> {}, media |-> <<>>, errors |-> {}]
EmptyWorkspace == [pages |-> {}, aliases |-> {}, blocks |-> {}, attachments |-> {}]

----------------------------------------------------------------------------
(* The dry run. *)

NoteTitleOwners(pages) ==
    {<<NfkcKey[pages[f].title], pages[f].uuid>> : f \in {f \in DOMAIN pages : pages[f].kind = "note"}}

\* Mutant: pages are known by their titles alone.
NoAliases(plan) == {}

\* The aliases of the plan as the workspace will know them.  A note has its
\* own title without one, a journal keeps all of them.
DestinationAliases(plan) ==
    LET planned == PageTitles(plan.pages)
        named == {<<NfkcKey[t], planned[t]>> : t \in DOMAIN planned}
    IN  named \ NoteTitleOwners(plan.pages)

AliasesCollide(plan) ==
    \E o, p \in DestinationAliases(plan) \union NoteTitleOwners(plan.pages) :
        o[1] = p[1] /\ o[2] # p[2]

Blockers(plan) ==
    (IF DOMAIN plan.pages = {} THEN {"empty import"} ELSE {})
        \union (IF plan.errors # {} THEN {"blocking diagnostics"} ELSE {})
        \union (IF AliasesCollide(plan) THEN {"alias collision"} ELSE {})

----------------------------------------------------------------------------
(* Taking the media out of the text. *)

AttachmentUuid(owner, hash) == <<"attachment", owner, hash>>

\* A drawing needs its conversion; everything else stays as it was written.
Materializes(reference) ==
    IF reference.token.kind = "drawing"
    THEN reference.resolution = "local" /\ reference.token.dest \in case.published
    ELSE reference.resolution \in {"local", "inline"}

MediaHash(reference) ==
    IF reference.token.kind = "drawing" THEN <<"png", reference.token.dest>>
    ELSE <<"file", reference.token.dest>>

\* The owner of a preamble is its page, its text is in a block.
MarkdownBlock(plan, owner) ==
    IF owner[1] = "block" THEN owner[2]
    ELSE LET page == CHOOSE f \in DOMAIN plan.pages : plan.pages[f].uuid = owner[2]
         IN  plan.pages[page].blocks[1].target

\* Mutant: the file's name takes the place of the label.
ReplacementRelabelled(reference) ==
    <<Piece("label", reference.token.dest),
      Piece("dest", AttachmentUuid(reference.owner, MediaHash(reference)))>>

\* An image keeps its label, a drawing becomes an image.
Replacement(reference) ==
    LET uri == Piece("dest", AttachmentUuid(reference.owner, MediaHash(reference)))
    IN  IF reference.token.kind = "drawing" THEN <<Piece("label", reference.token.dest), uri>>
        ELSE <<Head(reference.spelling), uri>>

MediaRewrite(plan, reference) ==
    [block |-> MarkdownBlock(plan, reference.owner),
     line |-> reference.token.line, from |-> reference.token.from, to |-> reference.token.to,
     spelling |-> reference.spelling, owner |-> reference.owner, hash |-> MediaHash(reference),
     replacement |-> Replacement(reference)]

MediaRewrites(plan) ==
    UNION {{MediaRewrite(plan, r) : r \in {r \in Range(plan.media[f]) : Materializes(r)}} :
              f \in DOMAIN plan.media}

Overlap(s, t) == s.block = t.block /\ s.line = t.line /\ s.from < t.from /\ s.to >= t.from

\* From the end of a text to its start, so that no range moves another.
RewriteOrder(s, t) == s.line > t.line \/ (s.line = t.line /\ s.from > t.from)

\* The text after its rewrites, unless a range no longer has its spelling.
RewriteText(lines, rewrites) ==
    FoldLeft(LAMBDA t, r :
                 IF ~t.ok \/ SubSeq(t.lines[r.line].text, r.from, r.to) # r.spelling
                 THEN [t EXCEPT !.ok = FALSE]
                 ELSE [t EXCEPT !.lines[r.line].text =
                          SubSeq(@, 1, r.from - 1) \o r.replacement \o SubSeq(@, r.to + 1, Len(@))],
             [ok |-> TRUE, lines |-> lines], SetToSortSeq(rewrites, RewriteOrder))

----------------------------------------------------------------------------
(* The batch, and what the workspace makes of it. *)

ImportedStyle(work) == IF work.task # Blank THEN <<"task", work.task>> ELSE <<work.style>>

ImportedBlock(plan, page, work) ==
    LET rewritten == RewriteText(FinalLines(work), {r \in MediaRewrites(plan) : r.block = work.target})
    IN  [uuid |-> work.target, page |-> page.uuid,
         parent |-> IF work.parent = 0 THEN Blank ELSE page.blocks[work.parent].target,
         order |-> work.ordinal + 1,
         style |-> ImportedStyle(work),
         ok |-> rewritten.ok, text |-> rewritten.lines]

\* The blocks are a sequence per page: what comes twice is not lost here.
ImportBatch(plan) ==
    [pages |-> [f \in DOMAIN plan.pages |->
                   [uuid |-> plan.pages[f].uuid, kind |-> plan.pages[f].kind,
                    title |-> NfkcKey[plan.pages[f].title]]],
     aliases |-> DestinationAliases(plan),
     blocks |-> [f \in DOMAIN plan.pages |->
                    [i \in DOMAIN plan.pages[f].blocks |->
                        ImportedBlock(plan, plan.pages[f], plan.pages[f].blocks[i])]],
     attachments |-> {[uuid |-> AttachmentUuid(r.owner, r.hash), owner |-> r.owner, hash |-> r.hash] :
                         r \in MediaRewrites(plan)}]

BatchBlocks(batch) == UNION {Range(batch.blocks[f]) : f \in DOMAIN batch.blocks}

Descends(blocks, ancestor, block) ==
    LET Above(found) == {b \in blocks : \E c \in found : c.parent = b.uuid}
        reach[n \in 0 .. Cardinality(blocks)] ==
            IF n = 0 THEN Above({block}) ELSE reach[n - 1] \union Above(reach[n - 1])
    IN  ancestor \in reach[Cardinality(blocks)]

\* Everything the batch is checked for before a transaction begins.
ValidBatch(batch) ==
    LET pages == {batch.pages[f] : f \in DOMAIN batch.pages}
        notes == {p \in pages : p.kind = "note"}
        blocks == BatchBlocks(batch)
        counted == FoldFunction(+, 0, [f \in DOMAIN batch.blocks |-> Len(batch.blocks[f])])
        titles == {<<p.title, p.uuid>> : p \in notes}
    IN  /\ pages # {}
        /\ Cardinality({p.uuid : p \in pages}) = Cardinality(DOMAIN batch.pages)
        /\ \A p \in notes : p.title # Blank
        /\ Cardinality({p.title : p \in pages \ notes}) = Cardinality(pages \ notes)
        /\ \A s, t \in batch.aliases \union titles : s[1] = t[1] => s[2] = t[2]
        /\ Cardinality({b.uuid : b \in blocks}) = counted
        /\ {b.uuid : b \in blocks} \intersect {p.uuid : p \in pages} = {}
        /\ \A b \in blocks :
              /\ b.parent # Blank => b.parent # b.uuid /\ \E c \in blocks : c.uuid = b.parent /\ c.page = b.page
              /\ \A c \in blocks : c # b /\ c.page = b.page /\ c.parent = b.parent => c.order # b.order
              /\ ~Descends(blocks, b, b)
        /\ \A a \in batch.attachments :
              a.owner[2] \in {p.uuid : p \in pages} \union {b.uuid : b \in blocks}

\* What the operations of the batch bring about in an empty workspace.
BatchKinds(batch) ==
    [pages |-> {batch.pages[f] : f \in DOMAIN batch.pages}, aliases |-> batch.aliases,
     blocks |-> BatchBlocks(batch), attachments |-> batch.attachments]

----------------------------------------------------------------------------
(* Actions. *)

LogseqInit ==
    /\ case \in Cases
    /\ markdown = [f \in DOMAIN case.files |-> <<>>]
    /\ phase = "writing"
    /\ prepared = NoPlan
    /\ landed = EmptyWorkspace

\* The user of Logseq.
WriteLine(f, line) ==
    /\ phase = "writing"
    /\ FoldFunction(LAMBDA lines, n : Len(lines) + n, 0, markdown) < case.bound
    /\ markdown' = [markdown EXCEPT ![f] = Append(@, line)]
    /\ UNCHANGED <<case, phase, prepared, landed>>

\* A dry run: an error, blockers, or a preview that can be committed.
DryRun ==
    /\ phase = "writing"
    /\ LET documents == [f \in DOMAIN markdown |-> Parsed(markdown[f])]
           plan == PrepareImport(case.files, documents)
           refused == \/ ~WithinPrepareLimits(documents)
                      \/ \E f \in DOMAIN documents : ~OutlineHolds(documents[f])
                      \/ ~PlanHolds(plan)
       IN  IF refused THEN phase' = "refused" /\ UNCHANGED prepared
           ELSE /\ phase' = IF Blockers(plan) = {} THEN "ready" ELSE "blocked"
                /\ prepared' = plan
    /\ UNCHANGED <<case, markdown, landed>>

\* The import that was previewed, in one transaction.
CommitImport ==
    /\ phase = "ready"
    /\ LET batch == ImportBatch(prepared)
           fails == \/ \E s, t \in MediaRewrites(prepared) : Overlap(s, t)
                    \/ \E b \in BatchBlocks(batch) : ~b.ok
                    \/ ~ValidBatch(batch)
       IN  IF fails THEN phase' = "rejected" /\ UNCHANGED landed
           ELSE phase' = "applied" /\ landed' = BatchKinds(batch)
    /\ UNCHANGED <<case, markdown, prepared>>

LogseqNext ==
    \/ \E f \in DOMAIN markdown, line \in case.lines : WriteLine(f, line)
    \/ DryRun
    \/ CommitImport

----------------------------------------------------------------------------
(* Properties. *)

LandedBlock(uuid) == CHOOSE b \in landed.blocks : b.uuid = uuid

\* Somewhere in the text an image stands in the label of another.
HasNestedImage(lines) == \E i \in DOMAIN lines : \E p \in Range(lines[i].text) : p.tag = "open"

\* Without its identity, its style and its task marker the text may not mean what
\* it meant: the marker hid a fence, or what a line that disappears, or is left
\* empty, continued with is far enough to the right to be code by itself.
LosesItsReading(lines) ==
    LET marker == TaskMarker(lines) # Blank
        stripped == PropertyLines(lines, "id") \union PropertyLines(lines, "number")
                  \union {i \in {1} : marker /\ Len(lines[i].text) = 1}
    IN  \/ marker /\ Len(lines[1].text) > 1 /\ lines[1].text[2].tag = "fence"
        \/ \E i \in stripped, j \in DOMAIN lines :
              i < j /\ IndentedCode(lines[j]) /\ i .. (j - 1) \subseteq stripped

\* A preview without blockers is a promise: what validate_batch and the
\* rewriting of media still check never fails.  And a graph is refused with an
\* error (InvalidSourceAst), with no report that names the place, only for a
\* nesting that is too deep, an image in the label of an image, or a block whose
\* text reads differently without its properties and its marker.
PreviewKeepsItsWord ==
    /\ phase # "rejected"
    /\ phase = "refused" =>
          \E document \in {Parsed(markdown[f]) : f \in DOMAIN markdown} :
             \/ ~WithinPrepareLimits(<<document>>)
             \/ HasNestedImage(document.preamble)
             \/ \E b \in Range(document.blocks) :
                    HasNestedImage(b.lines) \/ LosesItsReading(b.lines)

\* The outline of the workspace is the one the user sees in Logseq: a block
\* hangs from the nearest bullet above it that is indented less, siblings
\* keep their order, a bullet is lost only in code, and every line is in one
\* block, in its order, unless it has become an identity or a style.
OutlineIsKept ==
    phase = "applied" =>
    \A f \in DOMAIN markdown :
        LET blocks == prepared.pages[f].blocks
            bullets == {i \in DOMAIN blocks : blocks[i].place # <<>>}
            Head1(i) == blocks[i].lines[1].at
            Column(i) == IndentationColumns(markdown[f][Head1(i)].lead)
            Above(i) == {j \in bullets : j < i /\ Column(j) < Column(i)}
            Landed(i) == LandedBlock(blocks[i].target)
            hidden == {at \in DOMAIN markdown[f] :
                          \E i \in bullets, l \in {"id", "number"} :
                             \E k \in PropertyLines(blocks[i].lines, l) : blocks[i].lines[k].at = at}
            Places(i) == [k \in DOMAIN Landed(i).text |-> Landed(i).text[k].at]
        IN  /\ \A i \in bullets :
                   Landed(i).parent =
                       IF Above(i) = {} THEN Blank ELSE blocks[Max(Above(i))].target
            /\ \A i, j \in DOMAIN blocks :
                   i < j /\ Landed(i).parent = Landed(j).parent => Landed(i).order < Landed(j).order
            /\ FlattenSeq([i \in DOMAIN blocks |-> Places(i)]) =
                   SetToSortSeq(DOMAIN markdown[f] \ hidden, <)
            /\ \A at \in DOMAIN markdown[f] :
                   markdown[f][at].dash /\ at \notin {Head1(i) : i \in bullets} =>
                       \E i \in DOMAIN blocks : \E k \in DOMAIN blocks[i].lines :
                           blocks[i].lines[k].at = at /\ blocks[i].lines[k].code

\* The page a title leads to: the one page that has it as its name or alias.
ResolvePageAlias(title) ==
    LET found == {p.uuid : p \in {p \in landed.pages : p.title = NfkcKey[title]}}
                    \union {a[2] : a \in {a \in landed.aliases : a[1] = NfkcKey[title]}}
    IN  IF Cardinality(found) = 1 THEN CHOOSE p \in found : TRUE ELSE Blank

\* A link the plan has resolved in the names of Logseq is still written in
\* its block and leads to the same page, or to the block that has kept its
\* identity, in the names of the workspace.
LinksLeadAsPlanned ==
    phase = "applied" =>
    \A r \in prepared.references : r.target # Blank =>
        /\ \E line \in Range(LandedBlock(r.owner).text) : r.piece \in Range(line.text)
        /\ IF r.piece.tag = "link" THEN ResolvePageAlias(r.piece.arg) = r.target
           ELSE \E b \in landed.blocks, f \in DOMAIN markdown :
                   /\ b.uuid = r.target /\ b.page = prepared.pages[f].uuid
                   /\ \E at \in DOMAIN markdown[f] :
                         IsPiece(markdown[f][at].text, "id") /\ Head(markdown[f][at].text).arg = b.uuid

\* Every image and drawing that can be taken is replaced where it stood by
\* an attachment of its owner, with its label, and nothing else in the text
\* of the block changes; there are no other attachments.
MediaStaysInPlace ==
    phase = "applied" =>
    LET Owner(page, work) ==
            IF work.place = <<>> THEN <<"page", page.uuid>> ELSE <<"block", work.target>>
        Image(text, k) == /\ k < Len(text) /\ text[k].tag = "label" /\ text[k + 1].tag = "dest"
                          /\ text[k + 1].arg \in
                                Inline \union {p \in DOMAIN Manifest : Manifest[p] = "asset"}
        Becomes(owner, text, k) ==
            CASE k > 1 /\ Image(text, k - 1) ->
                     <<Piece("dest", AttachmentUuid(owner, <<"file", text[k].arg>>))>>
              [] text[k].tag = "drawing" /\ text[k].arg \in case.published ->
                     <<Piece("label", text[k].arg),
                       Piece("dest", AttachmentUuid(owner, <<"png", text[k].arg>>))>>
              [] OTHER -> <<text[k]>>
        Shown(owner, line, code) ==
            IF code THEN line.text
            ELSE FlattenSeq([k \in DOMAIN line.text |-> Becomes(owner, line.text, k)])
        attached == {a.uuid : a \in landed.attachments}
    IN  /\ \A f \in DOMAIN prepared.pages : \A i \in DOMAIN prepared.pages[f].blocks :
              LET page == prepared.pages[f]
                  work == page.blocks[i]
                  final == FinalLines(work)
                  text == LandedBlock(work.target).text
              IN  /\ Len(text) = Len(final)
                  /\ \A k \in DOMAIN final :
                        text[k].text = Shown(Owner(page, work), final[k], MarkdownCode(final)[k])
        /\ attached =
              attached \intersect
                  UNION {UNION {{p.arg : p \in {p \in Range(line.text) : p.tag = "dest"}} :
                                    line \in Range(b.text)} : b \in landed.blocks}

\* What stands in a block still stands there after the import, and means the
\* same: links, references, images and drawings.
ContentLandsAsPlanned == LinksLeadAsPlanned /\ MediaStaysInPlace
=============================================================================
