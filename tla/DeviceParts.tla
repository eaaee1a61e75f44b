----------------------------- MODULE DeviceParts -----------------------------
(***************************************************************************)
(* Parts of a device that share no state with each other: its clock, its   *)
(* first contact with a server, the versions of a drawing, and what it     *)
(* keeps of the links, references and files of its notes.  No step of one  *)
(* reads what another writes, so an interleaving of them is a behaviour of *)
(* each, and it is enough to let one part move and keep the others in      *)
(* their initial states.                                                   *)
(***************************************************************************)
EXTENDS HlcClock, Bootstrap, InkVersions, References, TLC

CONSTANTS d1, d2, e1, e2, f1, t1, t2, k1, k2, note1, note2, b, c, named, other, png

----------------------------------------------------------------------------
(* Texts and operations of the references. *)

\* The block b is on the page note1, the block c on note2.
PartsPageOf == (b :> note1) @@ (c :> note2)

\* The first text names the title and the other block, later ones less or more.
PartsMentions == [i \in 1 .. LastStamp |->
    CASE i = 1 -> {named, c} [] i = 2 -> {other} [] i = 3 -> {named, b, other} [] OTHER -> {named}]

\* What the operations of a scenario ask for, in the order of their stamps; they
\* arrive in any order, in batches or one by one.
PartsScenarios ==
    { \* two pages share a name, one by its title and one by an alias, and one goes
      <<PageCreates(note1, named), PageCreates(note2, None), SetsAlias(note2, named, TRUE),
        BlockCreates(c, None), PageDeletes(note1)>>,
      \* a title moves to another page, which is made again
      <<PageCreates(note1, named), PageCreates(note2, None), BlockCreates(c, None),
        PageSetsTitle(note1, None), PageSetsTitle(note2, named), PageCreates(note2, None)>>,
      \* an alias is taken back while its page is renamed
      <<PageCreates(note2, None), SetsAlias(note2, named, TRUE), BlockCreates(c, None),
        PageSetsTitle(note2, named), SetsAlias(note2, named, FALSE)>>,
      \* a text changes while its block comes and goes
      <<PageCreates(note2, other), BlockCreates(c, None), BlockSetsMarkdown(c),
        BlockDeletes(c), BlockCreates(c, None), PageDeletes(note2)>>,
      \* a file is on a page and on its block while both come and go
      <<PageCreates(note2, None), BlockCreates(c, None), Attaches(c, png, TRUE),
        Attaches(note2, png, TRUE), PageDeletes(note2), PageCreates(note2, None)>>,
      \* a file is taken off while its block is deleted and made again
      <<PageCreates(note2, None), BlockCreates(c, None), Attaches(c, png, TRUE),
        BlockDeletes(c), BlockCreates(c, None), Attaches(c, png, FALSE)>> }

----------------------------------------------------------------------------
VARIABLE part   \* the one that moves

Movers == {"clock", "first contact", "ink", "references"}

PartsInit ==
    /\ part \in Movers
    /\ Init /\ BootInit /\ InkInit /\ RefInit
    /\ part # "clock" => now = [d \in Devices |-> 0]
    /\ part # "references" => scenario = CHOOSE s \in Scenarios : TRUE

PartsNext ==
    /\ UNCHANGED part
    /\ \/ part = "clock" /\ Next /\ UNCHANGED <<bootVars, inkVars, refVars>>
       \/ part = "first contact" /\ BootNext /\ UNCHANGED <<vars, inkVars, refVars>>
       \/ part = "ink" /\ InkNext /\ UNCHANGED <<vars, bootVars, refVars>>
       \/ part = "references" /\ RefNext /\ UNCHANGED <<vars, bootVars, inkVars>>

PartsSpec == PartsInit /\ [][PartsNext]_<<part, vars, bootVars, inkVars, refVars>>

----------------------------------------------------------------------------
(* Values for TLC. *)

\* e1 and e2 are edits of one device, f1 one of the other.
PartsEditorOf == [e \in Edits |-> IF e = f1 THEN d2 ELSE d1]

\* Neither a tablet nor a stroke is special.
InkSymmetry == Permutations({t1, t2}) \union Permutations({k1, k2})
=============================================================================
