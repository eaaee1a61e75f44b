------------------------------ MODULE Entities ------------------------------
(***************************************************************************)
(* The graph of entities a model extracts from the notes                   *)
(* (crates/notes-ai/src/extract.rs and the extraction tables of store.rs). *)
(*                                                                         *)
(* Like the semantic index it follows the notes from another database: a   *)
(* job per block whose text was not extracted yet, answers that come late, *)
(* and a list of blocks to forget that exists in the worker's memory only. *)
(* An entity is its normalised name: adopt_existing_entities keeps one row *)
(* per name whatever uuid an extraction derives for it.                    *)
(***************************************************************************)
EXTENDS Integers, FiniteSets

CONSTANTS
    Blocks,
    Phrases,     \* what a block can say
    Short,       \* the phrases that are too short to be sent to a model
    Silent,      \* no such block, no job, nothing extracted
    Names,       \* normalised entity names
    MaxWrites,   \* bound: changes of the notes
    MaxStarts    \* bound: starts of the worker, cancellations included

ASSUME EntitiesAssumption ==
    /\ Silent \notin Phrases /\ Short \subseteq Phrases
    /\ Blocks \intersect Names = {}
    /\ MaxWrites \in Nat /\ MaxStarts \in Nat \ {0}

VARIABLES
    said,     \* the blocks
    clock,    \* the token of the notes
    compared, \* last_extraction_reconciled_cursor
    queue,    \* extraction_jobs; the text of the job or Silent
    refused,  \* jobs that are not tried again
    done,     \* extraction_state
    edges,    \* extraction_edges: block, source, destination
    entities, \* the names there is a row for
    lane,     \* the tick of the worker, and of one that was cancelled
    starts,   \* how often the worker was started
    dropped   \* ghost: blocks a cancelled worker still forgot

entityVars ==
    <<said, clock, compared, queue, refused, done, edges, entities, lane,
      starts, dropped>>
store == <<compared, queue, refused, done, edges, entities>>

Sayings == [Blocks -> Phrases \union {Silent}]
Endpoints == Blocks \union Names
Edges == [from : Blocks, src : Endpoints, dst : Names]
Unseen == -1
LaneStages == {"compare", "read", "commit", "forget", "take", "extract", "recheck",
           "finish"}
Lanes == [stage : LaneStages, token : 0 .. MaxWrites, docs : Sayings,
          stale : SUBSET Blocks, block : Blocks \union {Silent},
          text : Phrases \union {Silent}, found : SUBSET Names]

\* A worker that was cancelled while a transaction of its was with the database.
WorkersOfStore == {"now", "late"}

Quiet == [b \in Blocks |-> Silent]
Idle == [stage |-> "compare", token |-> 0, docs |-> Quiet, stale |-> {},
         block |-> Silent, text |-> Silent, found |-> {}]
In(sayings) == {b \in Blocks : sayings[b] # Silent}

EntityInit ==
    /\ said = Quiet /\ clock = 0
    /\ compared = Unseen /\ queue = Quiet /\ refused = {} /\ done = Quiet
    /\ edges = {} /\ entities = {}
    /\ lane = [w \in WorkersOfStore |-> Idle] /\ starts = 1 /\ dropped = {}

----------------------------------------------------------------------------

WriteBlock ==
    /\ clock < MaxWrites
    /\ \E b \in Blocks, t \in Phrases \union {Silent} :
        t # said[b] /\ said' = [said EXCEPT ![b] = t]
    /\ clock' = clock + 1
    /\ UNCHANGED <<store, lane, starts, dropped>>

Transactions == {"commit", "forget", "finish"}

\* A provider update cancels the worker, which may leave the transaction it had
\* submitted behind, or the server goes down: what the worker held is lost.
RestartExtractor ==
    /\ starts < MaxStarts
    /\ starts' = starts + 1
    /\ \E late \in {Idle} \union (IF lane["now"].stage \in Transactions
                                  THEN {lane["now"]} ELSE {}) :
        lane' = [now |-> Idle, late |-> late]
    /\ UNCHANGED <<said, clock, store, dropped>>

Proceed(w, next) == lane' = [lane EXCEPT ![w] = IF w = "now" THEN next ELSE Idle]

CompareExtractionToken ==
    /\ lane["now"].stage = "compare"
    /\ Proceed("now", [Idle EXCEPT
            !.stage = IF compared = clock THEN "take" ELSE "read",
            !.token = IF compared = clock THEN 0 ELSE clock])
    /\ UNCHANGED <<said, clock, store, starts, dropped>>

ReadBlocks ==
    /\ lane["now"].stage = "read"
    /\ Proceed("now", [lane["now"] EXCEPT !.stage = "commit", !.docs = said])
    /\ UNCHANGED <<said, clock, store, starts, dropped>>

\* The transaction of reconcile_extractions.  The blocks that are gone are
\* returned to the worker, which forgets them afterwards.
ReconcileExtractions(w) ==
    LET docs == lane[w].docs
        due == [b \in Blocks |-> IF docs[b] = done[b] THEN Silent ELSE docs[b]]
    IN  /\ lane[w].stage = "commit"
        /\ queue' = due
        /\ refused' = {b \in refused : due[b] # Silent /\ due[b] = queue[b]}
        /\ compared' = lane[w].token
        /\ Proceed(w, [Idle EXCEPT !.stage = "forget",
                !.stale = (In(done) \union {e.from : e \in edges}) \ In(docs)])
        /\ UNCHANGED <<said, clock, done, edges, entities, starts, dropped>>

\* delete_orphan_entities
Orphans(candidates, remaining) ==
    {n \in candidates : \A e \in remaining : e.src # n /\ e.dst # n}

\* extraction_edge_endpoints
Named(b) == UNION {{e.src, e.dst} : e \in {f \in edges : f.from = b}}

\* forget_extraction_source, one transaction per block.
ForgetSource(w) ==
    /\ lane[w].stage = "forget"
    /\ IF lane[w].stale = {}
       THEN Proceed(w, [lane[w] EXCEPT !.stage = "take"])
            /\ UNCHANGED <<store, dropped>>
       ELSE \E b \in lane[w].stale :
                /\ edges' = {e \in edges : e.from # b}
                /\ entities' = entities \ Orphans(Named(b), edges')
                /\ done' = [done EXCEPT ![b] = Silent]
                /\ queue' = [queue EXCEPT ![b] = Silent]
                /\ refused' = refused \ {b}
                /\ Proceed(w, [lane[w] EXCEPT !.stale = @ \ {b}])
                /\ dropped' = IF w = "late" THEN dropped \union {b} ELSE dropped
                /\ UNCHANGED compared
    /\ UNCHANGED <<said, clock, starts>>

\* take_extraction_jobs: one job, if one may be tried and its pause is over.
TakeExtraction ==
    /\ lane["now"].stage = "take"
    /\ \/ Proceed("now", Idle)
       \/ \E b \in In(queue) \ refused :
            Proceed("now", [Idle EXCEPT !.block = b, !.text = queue[b],
                    !.stage = IF queue[b] \in Short THEN "finish" ELSE "extract"])
    /\ UNCHANGED <<said, clock, store, starts, dropped>>

\* The model answers with the entities it found, or fails
\* (record_extraction_failure).
Answer ==
    LET job == lane["now"]
    IN  /\ job.stage = "extract"
        /\ \/ /\ \E found \in SUBSET Names :
                Proceed("now", [job EXCEPT !.stage = "recheck", !.found = found])
              /\ UNCHANGED store
           \/ /\ Proceed("now", Idle)
              /\ refused' \in {refused, refused \union
                    {b \in {job.block} : queue[b] = job.text}}
              /\ UNCHANGED <<compared, queue, done, edges, entities>>
        /\ UNCHANGED <<said, clock, starts, dropped>>

\* extraction_job_is_current: the block still says what was extracted.
Recheck ==
    LET job == lane["now"]
    IN  /\ job.stage = "recheck"
        /\ Proceed("now", IF said[job.block] = job.text
                          THEN [job EXCEPT !.stage = "finish"] ELSE Idle)
        /\ UNCHANGED <<said, clock, store, starts, dropped>>

\* Mutant: an answer is stored whatever the job is for now.
StillAsked(b, phrase) == TRUE

\* The first check of finish_extraction.
JobIsCurrent(b, phrase) == queue[b] = phrase

\* Mutant: the entities of the previous extraction stay.
FoundOnly(b, found) == found

\* The candidates of delete_orphan_entities.
Doubtful(b, found) == Named(b) \union found

\* The edges apply_extraction makes: the block mentions each entity, and
\* relations join two of them.
Extractions(b, found) ==
    {{[from |-> b, src |-> b, dst |-> n] : n \in found}
        \union {[from |-> b, src |-> p[1], dst |-> p[2]] : p \in pairs} :
     pairs \in SUBSET {p \in found \X found : p[1] # p[2]}}

\* finish_extraction: the edges of the block are replaced, entities nobody
\* names any more are deleted, the job is done.
FinishExtraction(w) ==
    LET b == lane[w].block
        found == lane[w].found
    IN  /\ lane[w].stage = "finish"
        /\ IF JobIsCurrent(b, lane[w].text)
           THEN /\ \E new \in Extractions(b, found) :
                    edges' = {e \in edges : e.from # b} \union new
                /\ entities' = (entities \union found)
                                \ Orphans(Doubtful(b, found), edges')
                /\ done' = [done EXCEPT ![b] = lane[w].text]
                /\ queue' = [queue EXCEPT ![b] = Silent]
                /\ refused' = refused \ {b}
                /\ UNCHANGED compared
           ELSE UNCHANGED store
        /\ Proceed(w, Idle)
        /\ UNCHANGED <<said, clock, starts, dropped>>

EntityNext ==
    \/ WriteBlock \/ RestartExtractor
    \/ CompareExtractionToken \/ ReadBlocks \/ TakeExtraction \/ Answer \/ Recheck
    \/ \E w \in WorkersOfStore :
        ReconcileExtractions(w) \/ ForgetSource(w) \/ FinishExtraction(w)

EntitySpec == EntityInit /\ [][EntityNext]_entityVars

----------------------------------------------------------------------------

EntityTypeOK ==
    /\ said \in Sayings /\ clock \in 0 .. MaxWrites
    /\ compared \in -1 .. MaxWrites /\ queue \in Sayings /\ done \in Sayings
    /\ refused \subseteq Blocks /\ edges \subseteq Edges /\ entities \subseteq Names
    /\ lane \in [WorkersOfStore -> Lanes] /\ starts \in 1 .. MaxStarts
    /\ dropped \subseteq Blocks

\* When the graph counts as reconciled with the notes as they are, every block
\* was extracted from its present text or waits for it, and no job is left for
\* a block that is gone (reconcile_extractions, finish_extraction).  The one
\* exception is a block that came back while a cancelled worker was about to
\* forget it: nothing extracts it again before the notes change.
ExtractedOrQueued ==
    compared = clock =>
        \A b \in Blocks \ dropped :
            IF said[b] = Silent THEN queue[b] = Silent
            ELSE said[b] \in {done[b], queue[b]}

\* An entity is in the graph exactly as long as an edge of some block names it:
\* edges of other blocks keep it, the last one takes it along, and no edge
\* points at an entity that was deleted (finish_extraction,
\* forget_extraction_source, delete_orphan_entities).
EntitiesAreNamed ==
    entities = {e.dst : e \in edges} \union ({e.src : e \in edges} \intersect Names)
=============================================================================
