---------------------------- MODULE InkVersions ----------------------------
(***************************************************************************)
(* One handwritten note on several devices: saved strokes, undo history,   *)
(* background compaction, publication of versions, arrival of other        *)
(* devices' versions and the resolution of conflicts                       *)
(* (crates/notes-core/src/ink).                                            *)
(*                                                                         *)
(* A drawing is a root: a function from its strokes to the chunks of       *)
(* samples that hold them.  Roots are content-addressed, so equal          *)
(* functions are the same root.  Every action is one SQLite transaction;   *)
(* the transactions of the open editor, of the completion of a session, of *)
(* the minute job that compacts and of the sync worker interleave.         *)
(***************************************************************************)
EXTENDS Integers, Sequences, FiniteSets, Functions

CONSTANTS
    Tablets,
    Strokes,
    MaxVersions,   \* bound: versions that are published
    HistoryDepth,  \* history entries kept behind the newest (50 in the code)
    MaxTurns       \* bound: erasures, undos, redos, packing jobs, failed
                   \* completions and crashes, together

ASSUME InkAssumption ==
    /\ IsFiniteSet(Strokes)
    /\ MaxVersions \in Nat /\ MaxTurns \in Nat
    /\ HistoryDepth \in Nat \ {0}
    \* A packed chunk holds two saves or more: it is not the chunk of one.
    /\ Strokes \cap (Tablets \X SUBSET Strokes) = {}

VARIABLES
    page,       \* page[t]: ink_documents and ink_history of the note on t
    versions,   \* sequence of all versions of the note published anywhere
    notes,      \* roots that became the first version of a note of their own
    known,      \* known[t]: indices of the versions in ink_versions on t
    graphs,     \* graphs[t]: roots of other devices that t has downloaded
    sealed,     \* sealed[t]: chunks compaction must not touch any more
    session,    \* session[t]: the editor and the scheduler of t, volatile
    drawn,      \* strokes saved so far, anywhere
    discarded,  \* ghost: strokes somebody erased, undid or chose to drop
    turns,      \* how many of the turns MaxTurns bounds were taken
    torn        \* ghost: devices that published and then did not get to the close

inkVars == <<page, versions, notes, known, graphs, sealed, session, drawn, discarded,
             turns, torn>>

Roots == UNION {[S -> Strokes \union (Tablets \X SUBSET Strokes)] :
                    S \in SUBSET Strokes}
Blank == [s \in {} |-> s]

InkPages == [history : Seq(Roots), cursor : Nat, dirty : BOOLEAN,
          requested : BOOLEAN, editing : BOOLEAN, base : 0 .. MaxVersions]
Versions == [root : Roots, parents : SUBSET (1 .. MaxVersions)]
NoPlan == [at |-> {}, from |-> Blank]
Sessions == [view : {"closed", "open", "stale"}, sees : SUBSET Strokes,
             dialog : SUBSET (1 .. MaxVersions), wanted : BOOLEAN,
             task : {"idle", "packing", "closing"},
             plan : [at : SUBSET Strokes, from : Roots]]

\* The root the document points to; a page without one has no drawing yet.
HasRoot(p) == p.history # <<>>
Current(p) == IF HasRoot(p) THEN p.history[p.cursor] ELSE Blank

Ids == DOMAIN versions

\* head_ids: the versions of the note that no known version names as a parent.
Heads(K) == {v \in K : \A w \in K : v \notin versions[w].parents}

\* root_id of a version is set once its graph is on the device.
Available(t, v) == versions[v].root \in graphs[t]

InkInit ==
    /\ page = [t \in Tablets |->
                 [history |-> <<>>, cursor |-> 0, dirty |-> FALSE,
                  requested |-> FALSE, editing |-> FALSE, base |-> 0]]
    /\ versions = <<>> /\ notes = {}
    /\ known = [t \in Tablets |-> {}]
    /\ graphs = [t \in Tablets |-> {}]
    /\ sealed = [t \in Tablets |-> {}]
    /\ session = [t \in Tablets |->
                    [view |-> "closed", sees |-> {}, dialog |-> {},
                     wanted |-> FALSE, task |-> "idle", plan |-> NoPlan]]
    /\ drawn = {} /\ discarded = {}
    /\ turns = 0
    /\ torn = {}

Turn == turns < MaxTurns /\ turns' = turns + 1

----------------------------------------------------------------------------
(* The arrival of a version *)

\* Mutant: unpublished strokes are no reason to keep the drawing.
AdoptDirty(p, K, R) ==
    LET heads == Heads(K)
        h == CHOOSE v \in heads : TRUE
    IN  IF \/ Cardinality(heads) # 1
           \/ p.editing \/ p.base = h
           \/ versions[h].root \notin R
        THEN p
        ELSE [p EXCEPT !.history = <<versions[h].root>>, !.cursor = 1,
                       !.base = h]

\* adopt_single_head: p becomes the only head among the versions K, if the
\* graphs R hold it, unless there is unpublished work or an open editor.
Adopted(p, K, R) ==
    LET heads == Heads(K)
        h == CHOOSE v \in heads : TRUE
    IN  IF \/ Cardinality(heads) # 1
           \/ p.dirty \/ p.editing \/ p.base = h
           \/ versions[h].root \notin R
        THEN p
        ELSE [p EXCEPT !.history = <<versions[h].root>>, !.cursor = 1,
                       !.base = h]

\* An editor whose page was replaced under it holds a revision that is gone.
Outdated(s, p, q) ==
    IF q.base # p.base /\ s.view = "open" THEN [s EXCEPT !.view = "stale"] ELSE s

Replace(t, q) ==
    /\ page' = [page EXCEPT ![t] = q]
    /\ session' = [session EXCEPT ![t] = Outdated(@, page[t], q)]

\* versions::apply of an operation of another device.
ReceiveVersion(t) ==
    \E v \in Ids \ known[t] :
        /\ known' = [known EXCEPT ![t] = @ \union {v}]
        /\ Replace(t, Adopted(page[t], known'[t], graphs[t]))
        /\ UNCHANGED <<versions, notes, graphs, sealed, drawn, discarded,
                       turns, torn>>

\* Mutant: a version that was known before its graph is not looked at again.
StageQuietly(t) ==
    \E v \in Ids :
        LET root == versions[v].root
        IN  /\ root \notin graphs[t]
            /\ graphs' = [graphs EXCEPT ![t] = @ \union {root}]
            /\ sealed' = [sealed EXCEPT ![t] = @ \union Range(root)]
            /\ Replace(t, page[t])
            /\ UNCHANGED <<versions, notes, known, drawn, discarded, turns,
                           torn>>

\* stage_graph: the graph of a version, before its operation is applied or after
\* a snapshot that already named it.
StageGraph(t) ==
    \E v \in Ids :
        LET root == versions[v].root
            pinned == \E w \in known[t] : versions[w].root = root
        IN  /\ root \notin graphs[t]
            /\ graphs' = [graphs EXCEPT ![t] = @ \union {root}]
            /\ sealed' = [sealed EXCEPT ![t] = @ \union Range(root)]
            /\ Replace(t, IF pinned THEN Adopted(page[t], known[t], graphs'[t])
                                    ELSE page[t])
            /\ UNCHANGED <<versions, notes, known, drawn, discarded, turns,
                           torn>>

----------------------------------------------------------------------------
(* The editor.  Its commands and the completion of the session exclude one   *)
(* another (Session.input); the sync worker and the minute job do not.        *)

InputFree(t) == session[t].task # "closing"

\* A page whose versions are known but not downloaded cannot be read.
Readable(t) == HasRoot(page[t]) \/ known[t] = {}

\* open_editor: the drawing is read and its base pinned.
OpenEditor(t) ==
    /\ InputFree(t) /\ Readable(t)
    /\ session[t].view # "open"
    /\ page' = [page EXCEPT ![t].editing = TRUE]
    /\ session' = [session EXCEPT ![t].view = "open",
                        ![t].sees = DOMAIN Current(page[t])]
    /\ UNCHANGED <<versions, notes, known, graphs, sealed, drawn, discarded,
                   turns, torn>>

\* A command carries the revision the editor last saw (compare and swap).
SameRevision(t) == session[t].view = "open"

CanEdit(t) == InputFree(t) /\ Readable(t) /\ SameRevision(t)

\* history after a save: redo states go, the oldest entries too.
Pushed(p, root) ==
    LET past == IF HasRoot(p) THEN SubSeq(p.history, 1, p.cursor) ELSE <<Blank>>
        drop == IF Len(past) > HistoryDepth THEN Len(past) - HistoryDepth ELSE 0
    IN  Append(SubSeq(past, drop + 1, Len(past)), root)

\* build: the strokes the editor shows, in the places they already have, and
\* the new ones in chunks of their own.
Built(old, shown) == [s \in shown |-> IF s \in DOMAIN old THEN old[s] ELSE s]

\* storage::patch
Save(t, shown) ==
    LET history == Pushed(page[t], Built(Current(page[t]), shown))
    IN  /\ page' = [page EXCEPT ![t].history = history,
                        ![t].cursor = Len(history), ![t].dirty = TRUE]
        /\ session' = [session EXCEPT ![t].view = "open", ![t].sees = shown]

Draw(t) ==
    /\ CanEdit(t)
    /\ \E s \in Strokes \ drawn :
        /\ Save(t, session[t].sees \union {s})
        /\ drawn' = drawn \union {s}
    /\ UNCHANGED <<versions, notes, known, graphs, sealed, discarded, turns,
                   torn>>

Erase(t) ==
    /\ CanEdit(t) /\ Turn
    /\ \E s \in session[t].sees :
        /\ Save(t, session[t].sees \ {s})
        /\ discarded' = discarded \union {s}
    /\ UNCHANGED <<versions, notes, known, graphs, sealed, drawn, torn>>

\* navigate_impl: undo and redo move the cursor and mark the page dirty.
Navigate(t) ==
    /\ CanEdit(t) /\ Turn
    /\ \E target \in {page[t].cursor - 1, page[t].cursor + 1} \cap
                        DOMAIN page[t].history :
        LET root == page[t].history[target]
        IN  /\ page' = [page EXCEPT ![t].cursor = target, ![t].dirty = TRUE]
            /\ session' = [session EXCEPT ![t].sees = DOMAIN root]
            /\ discarded' = discarded \union (session[t].sees \ DOMAIN root)
    /\ UNCHANGED <<versions, notes, known, graphs, sealed, drawn, torn>>

----------------------------------------------------------------------------
(* Compaction *)

\* Segments that lie in chunks no version refers to.
FreshSegments(t) ==
    UNION {{s \in DOMAIN root : root[s] \notin sealed[t]} :
                root \in Range(page[t].history)}

SourcesOf(t, S) ==
    [s \in S |-> (CHOOSE root \in Range(page[t].history) : s \in DOMAIN root)[s]]

\* prepare_with_limits: at least two fresh chunks, read outside every lock.
StartPacking(t) ==
    LET fresh == FreshSegments(t)
        from == SourcesOf(t, fresh)
    IN  /\ session[t].task = "idle" /\ Turn
        /\ ~page[t].requested
        /\ Cardinality(Range(from)) >= 2
        /\ session' = [session EXCEPT ![t].task = "packing",
                            ![t].plan = [at |-> fresh, from |-> from]]
        /\ UNCHANGED <<page, versions, notes, known, graphs, sealed, drawn,
                       discarded, torn>>

Moved(root, plan, chunk) ==
    [s \in DOMAIN root |-> IF s \in plan.at THEN chunk ELSE root[s]]

\* A segment that is not where the plan found it: the job is dropped.
Overtaken(p, plan) ==
    \E root \in Range(p.history) :
        \E s \in DOMAIN root \cap plan.at : root[s] # plan.from[s]

\* compaction::publish: the roots of the history as it is now are rewritten.
Packed(p, plan, chunk) ==
    IF Overtaken(p, plan) THEN p
    ELSE [p EXCEPT !.history =
            [i \in DOMAIN p.history |-> Moved(p.history[i], plan, chunk)]]

\* The packed chunks replace the fresh ones, or are not smaller and nothing
\* changes.
FinishPacking(t) ==
    LET plan == session[t].plan
        chunk == <<t, plan.at>>
    IN  /\ session[t].task = "packing"
        /\ session' = [session EXCEPT ![t].task = "idle", ![t].plan = NoPlan]
        /\ \/ /\ page' = [page EXCEPT ![t] = Packed(@, plan, chunk)]
              /\ sealed' = [sealed EXCEPT ![t] = @ \union
                    (IF page'[t] = page[t] THEN {} ELSE {chunk})]
           \/ UNCHANGED <<page, sealed>>
        /\ UNCHANGED <<versions, notes, known, graphs, drawn, discarded, turns,
                       torn>>

----------------------------------------------------------------------------
(* The completion of a session *)

\* complete: the intent to publish is durable before anything is packed.  The
\* user leaves, or the application goes to the background with the editor open.
AskCompletion(t) ==
    /\ InputFree(t) /\ ~session[t].wanted
    /\ session[t].view # "closed"
    /\ page' = [page EXCEPT ![t].requested = @ \/ page[t].dirty]
    /\ \/ session' = [session EXCEPT ![t].wanted = TRUE]
       \/ session' = [session EXCEPT ![t].wanted = TRUE, ![t].view = "closed",
                        ![t].sees = {}, ![t].dialog = {}]
    /\ UNCHANGED <<versions, notes, known, graphs, sealed, drawn, discarded,
                   turns, torn>>

\* The lane is free and a completion waits for it, or the minute job finds the
\* intent.
MayComplete(t) ==
    session[t].task = "idle" /\ (session[t].wanted \/ page[t].requested)

\* `while store.compact()? {}`: everything fresh is packed, or stays.
AfterCompaction(t) ==
    LET fresh == FreshSegments(t)
        plan == [at |-> fresh, from |-> SourcesOf(t, fresh)]
    IN  {page[t]} \union
        (IF Cardinality(Range(plan.from)) < 2 THEN {}
         ELSE {Packed(page[t], plan, <<t, fresh>>)})

\* Mutant: what is published may still be packed.
SealNothing(t, root) == sealed[t]

\* The chunks of a published root are immutable across later compaction.
Sealed(t, root) == sealed[t] \union Range(root)

\* publish: a page that is clean, or shows its base again, publishes nothing;
\* otherwise the drawing becomes a child of the version it was drawn on.
PublishVersion(t) ==
    /\ MayComplete(t)
    /\ session' = [session EXCEPT ![t].task = "closing", ![t].wanted = FALSE]
    /\ \E p \in AfterCompaction(t) :
        LET root == Current(p)
            chunk == IF p = page[t] THEN {} ELSE {<<t, FreshSegments(t)>>}
            clean == [p EXCEPT !.dirty = FALSE, !.requested = FALSE]
            unchanged == p.base # 0 /\ versions[p.base].root = root
        IN  IF ~p.dirty \/ unchanged
            THEN /\ page' = [page EXCEPT ![t] = clean]
                 /\ UNCHANGED <<versions, notes, known, graphs>>
                 /\ sealed' = [sealed EXCEPT ![t] = @ \union chunk]
            ELSE /\ Len(versions) < MaxVersions
                 /\ versions' = Append(versions,
                        [root |-> root,
                         parents |-> {p.base} \ {0}])
                 /\ known' = [known EXCEPT ![t] = @ \union {Len(versions')}]
                 /\ graphs' = [graphs EXCEPT ![t] = @ \union {root}]
                 /\ page' = [page EXCEPT ![t] =
                                [clean EXCEPT !.base = Len(versions')]]
                 /\ sealed' = [sealed EXCEPT ![t] = Sealed(t, root) \union chunk]
    /\ UNCHANGED <<notes, drawn, discarded, turns, torn>>

\* close_editor, whoever has the editor open by now.
CloseEditor(t) ==
    /\ session[t].task = "closing"
    /\ LET p == [page[t] EXCEPT !.editing = FALSE]
           q == Adopted(p, known[t], graphs[t])
       IN  /\ page' = [page EXCEPT ![t] = q]
           /\ session' = [session EXCEPT ![t] =
                [Outdated(@, p, q) EXCEPT !.task = "idle"]]
    /\ UNCHANGED <<versions, notes, known, graphs, sealed, drawn, discarded,
                   turns, torn>>

\* close_editor fails and the process goes on.  The publication stands and its
\* intent is gone, so the minute job only compacts; the session keeps its flags,
\* and the host may complete it once more (needs_completion).
FailClose(t) ==
    /\ session[t].task = "closing" /\ Turn
    /\ \E again \in BOOLEAN :
            session' = [session EXCEPT ![t].task = "idle", ![t].wanted = again]
    /\ torn' = torn \union {t}
    /\ UNCHANGED <<page, versions, notes, known, graphs, sealed, drawn, discarded>>

\* Packing or publishing fails: the intent alone makes the minute job try again.
FailCompletion(t) ==
    /\ MayComplete(t) /\ Turn
    /\ session' = [session EXCEPT ![t].wanted = FALSE]
    /\ UNCHANGED <<page, versions, notes, known, graphs, sealed, drawn,
                   discarded, torn>>

\* The process ends.  On startup every page that is dirty, asked for or marked as
\* edited is completed (recoverable_notes).
Cut(t) ==
    /\ Turn
    /\ session' = [session EXCEPT ![t] =
            [view |-> "closed", sees |-> {}, dialog |-> {}, task |-> "idle",
             plan |-> NoPlan,
             wanted |-> page[t].dirty \/ page[t].requested \/ page[t].editing]]
    /\ page' = [page EXCEPT ![t].requested = @ \/ page[t].dirty]
    /\ torn' = IF session[t].task = "closing" THEN torn \union {t} ELSE torn
    /\ UNCHANGED <<versions, notes, known, graphs, sealed, drawn, discarded>>

----------------------------------------------------------------------------
(* Conflicts *)

\* The user looks at the heads (status).
LookAtHeads(t) ==
    LET heads == Heads(known[t])
    IN  /\ InputFree(t)
        /\ Cardinality(heads) >= 2 /\ session[t].dialog # heads
        /\ session' = [session EXCEPT ![t].dialog = heads]
        /\ UNCHANGED <<page, versions, notes, known, graphs, sealed, drawn,
                       discarded, turns, torn>>

\* The dialog showed exactly the heads that there are now.
SameDialog(t) == session[t].dialog = Heads(known[t])

\* resolve: the first selected head becomes a child of all heads, each further
\* one a note of its own; the rest is dropped.
Resolve(t) ==
    LET heads == Heads(known[t])
    IN  /\ InputFree(t)
        /\ SameDialog(t)
        /\ Cardinality(heads) >= 2 /\ ~page[t].dirty
        /\ \E keep \in (SUBSET session[t].dialog) \ {{}} :
           \E first \in keep \cap heads :
            LET stays == [root |-> versions[first].root, parents |-> heads]
            IN  /\ \A v \in keep : Available(t, v)
                /\ Len(versions) < MaxVersions
                /\ versions' = Append(versions, stays)
                /\ notes' = notes \union {versions[v].root : v \in keep \ {first}}
                /\ known' = [known EXCEPT ![t] = @ \union {Len(versions')}]
                /\ page' = [page EXCEPT ![t] =
                        [@ EXCEPT !.editing = FALSE, !.cursor = 1,
                            !.history = <<stays.root>>, !.base = Len(versions')]]
                /\ discarded' = discarded \union
                        ((UNION {DOMAIN versions[v].root :
                                    v \in session[t].dialog \ keep})
                         \ (UNION {DOMAIN versions[v].root : v \in keep}))
        /\ session' = [session EXCEPT ![t].dialog = {}, ![t].view =
                IF session[t].view = "open" THEN "stale" ELSE session[t].view]
        /\ UNCHANGED <<graphs, sealed, drawn, turns, torn>>

TabletStep(t) ==
    \/ ReceiveVersion(t) \/ StageGraph(t) \/ OpenEditor(t) \/ Draw(t) \/ Erase(t)
    \/ Navigate(t) \/ StartPacking(t) \/ FinishPacking(t) \/ AskCompletion(t)
    \/ PublishVersion(t) \/ CloseEditor(t) \/ FailClose(t)
    \/ FailCompletion(t) \/ Cut(t) \/ LookAtHeads(t) \/ Resolve(t)

InkNext == \E t \in Tablets : TabletStep(t)

InkSpec == InkInit /\ [][InkNext]_inkVars

----------------------------------------------------------------------------
(* What a note promises *)

InkTypeOK ==
    /\ \A t \in Tablets :
        /\ page[t] \in InkPages /\ session[t] \in Sessions
        /\ HasRoot(page[t]) => page[t].cursor \in DOMAIN page[t].history
        /\ known[t] \subseteq Ids
    /\ versions \in Seq(Versions) /\ Len(versions) <= MaxVersions
    /\ notes \subseteq Roots
    /\ drawn \subseteq Strokes /\ discarded \subseteq drawn
    /\ turns \in 0 .. MaxTurns
    /\ torn \subseteq Tablets

\* A stroke that was saved and that nobody erased, undid or chose to drop is in a
\* version that is still offered, in a note split off it, or in the unpublished
\* drawing of a device: whatever arrives while somebody draws, packs, publishes
\* or answers a conflict (adopt_single_head, publish, resolve,
\* compaction::publish).
NoStrokeLost ==
    \A s \in drawn \ discarded :
        \/ \E v \in Heads(Ids) : s \in DOMAIN versions[v].root
        \/ \E root \in notes : s \in DOMAIN root
        \/ \E t \in Tablets : page[t].dirty /\ s \in DOMAIN Current(page[t])

\* A page without unpublished work shows the root of the version it is based on,
\* to the byte: publish compares root hashes to see that nothing changed, and
\* compaction moves no chunk of what was published (publish, stage,
\* compaction::publish).
CleanShowsBase ==
    \A t \in Tablets :
        ~page[t].dirty /\ page[t].base # 0 =>
            Current(page[t]) = versions[page[t].base].root

\* A page that nobody edits and that has nothing unpublished shows the only head
\* it knows and has downloaded: no order of the arrival of a version, of its
\* graph and of the end of the editing leaves an old drawing on the screen
\* (adopt_single_head in apply, stage and close_editor).  Excepted is a device
\* that was stopped between the publication and the close, or whose close failed:
\* nothing but another version or another completion brings it back to the head.
QuietPageIsCurrent ==
    \A t \in Tablets \ torn :
        LET heads == Heads(known[t])
        IN  /\ ~page[t].dirty /\ ~page[t].editing
            /\ session[t].task # "closing"
            /\ Cardinality(heads) = 1
            /\ \A v \in heads : Available(t, v)
            => page[t].base \in heads
=============================================================================
