------------------------------- MODULE AiIndex -------------------------------
(***************************************************************************)
(* The semantic index of a user's notes (crates/notes-ai/src/store.rs),    *)
(* the worker that fills it (embed.rs) and the provider updates that       *)
(* replace both while they run (server/src/ai.rs).                         *)
(*                                                                         *)
(* Notes and index are two databases.  The worker reads a token of the     *)
(* notes, then the documents, then commits what it found to the index,     *)
(* asks a provider for vectors and commits those: the notes change between *)
(* any two of these steps, the user asks for a new index, and a worker     *)
(* that is cancelled may still commit the one transaction it had handed to *)
(* the database.  An input hash is the text it is the hash of, a vector is *)
(* the text it was computed from.                                          *)
(***************************************************************************)
EXTENDS Integers, Sequences, FiniteSets

CONSTANTS
    Docs,        \* blocks and pages
    Texts,       \* what a document can say
    Absent,      \* no text, no vector, no job
    Models,      \* embedding identities: service, model, dimensions
    MaxEdits,    \* bound: changes of the notes
    MaxSwitches, \* bound: provider updates and restarts
    MaxResets    \* bound: indexes asked for anew

ASSUME AiAssumption ==
    /\ Absent \notin Texts
    /\ IsFiniteSet(Docs) /\ Models # {}
    /\ MaxEdits \in Nat /\ MaxSwitches \in Nat /\ MaxResets \in Nat

VARIABLES
    text,     \* the notes
    stamp,    \* their token: server sequence and clock, changed by every write
    gens,     \* the index: its generations, oldest first
    workers,  \* the embedding workers, one per provider update and start
    serving,  \* the generation queries are answered from
    opened,   \* update_provider: the generation opened for the next worker
    resets    \* how often a new index was asked for

aiVars == <<text, stamp, gens, workers, serving, opened, resets>>

Contents == [Docs -> Texts \union {Absent}]
Nothing == [d \in Docs |-> Absent]
Present(contents) == {d \in Docs : contents[d] # Absent}

\* index_generations with its rows of generation_vectors and embedding_jobs;
\* given holds the jobs that are not tried again.  last is a ghost: the
\* documents of the last reconciliation.
Generations == [model : Models, status : {"building", "active", "retired"},
                cursor : -1 .. MaxEdits, count : Nat, vec : Contents,
                job : Contents, given : SUBSET Docs, last : Contents]
NeverReconciled == -1

\* token, docs: what reconcile has read; taken: the jobs asked for; got: the
\* vectors that came back; count: source_documents of the last reconciliation.
Steps == {"compare", "read", "commit", "take", "embed", "compare2", "read2",
          "commit2", "write"}
Workers == [gen : Nat, step : Steps, live : BOOLEAN, token : 0 .. MaxEdits,
            docs : Contents, taken : Contents, got : Contents, count : Nat]

Worker(g) == [gen |-> g, step |-> "compare", live |-> TRUE, token |-> 0,
              docs |-> Nothing, taken |-> Nothing, got |-> Nothing, count |-> 0]
Building(m) == [model |-> m, status |-> "building", cursor |-> NeverReconciled,
                count |-> 0, vec |-> Nothing, job |-> Nothing, given |-> {},
                last |-> Nothing]

AiInit ==
    /\ text = Nothing /\ stamp = 0
    /\ gens = <<Building(CHOOSE m \in Models : TRUE)>>
    /\ workers = <<Worker(1)>>
    /\ serving = 1 /\ opened = 0 /\ resets = 0

----------------------------------------------------------------------------
(* The notes *)

\* A local or a received operation: the clock or the sequence moves with it
\* (index_source_cursor).
EditDocument ==
    /\ stamp < MaxEdits
    /\ \E d \in Docs, t \in Texts \union {Absent} :
        /\ t # text[d]
        /\ text' = [text EXCEPT ![d] = t]
    /\ stamp' = stamp + 1
    /\ UNCHANGED <<gens, workers, serving, opened, resets>>

----------------------------------------------------------------------------
(* Generations *)

\* Mutant: a job that is still queued does not keep a generation from use.
MayBeCounted(gen, count) == Cardinality(Present(gen.vec)) = count

\* The condition of activate_generation_if_complete.
MayActivate(gen, count) ==
    /\ Present(gen.job) = {}
    /\ Cardinality(Present(gen.vec)) = count

\* Generation g has become gen; if it is complete it replaces the one in use.
Put(g, gen, count) ==
    gens' = IF MayActivate(gen, count)
            THEN [h \in DOMAIN gens |->
                    IF h = g THEN [gen EXCEPT !.status = "active"]
                    ELSE IF gens[h].status = "active"
                         THEN [gens[h] EXCEPT !.status = "retired"] ELSE gens[h]]
            ELSE [gens EXCEPT ![g] = gen]

\* open_with_control: the generation of this identity in use or being built,
\* the one in use and then the newest first; 0 if a new one has to be made.
Reusable(m) ==
    LET of(status) == {g \in DOMAIN gens :
                        gens[g].model = m /\ gens[g].status = status}
        newest(set) == CHOOSE g \in set : \A h \in set : h <= g
    IN  IF of("active") # {} THEN newest(of("active"))
        ELSE IF of("building") # {} THEN newest(of("building")) ELSE 0

Open(m) ==
    IF Reusable(m) # 0
    THEN gens' = gens /\ opened' = Reusable(m)
    ELSE gens' = Append(gens, Building(m)) /\ opened' = Len(gens) + 1

\* reset_index
ResetIndex ==
    /\ resets < MaxResets
    /\ resets' = resets + 1
    /\ gens' = [gens EXCEPT ![serving] = Building(gens[serving].model)]
    /\ UNCHANGED <<text, stamp, workers, serving, opened>>

\* update_provider, first half: build_active opens the index of the new
\* identity while the previous worker goes on.
OpenProvider ==
    /\ opened = 0 /\ Len(workers) <= MaxSwitches
    /\ \E m \in Models : Open(m)
    /\ UNCHANGED <<text, stamp, workers, serving, resets>>

Halted(ws) == [w \in DOMAIN ws |-> [ws[w] EXCEPT !.live = FALSE]]

\* Second half: queries go to the new index, the previous worker is cancelled
\* and the next one started.
SwitchProvider ==
    /\ opened # 0
    /\ workers' = Append(Halted(workers), Worker(opened))
    /\ serving' = opened /\ opened' = 0
    /\ UNCHANGED <<text, stamp, gens, resets>>

\* The server goes down, with what its workers held, and opens the index of
\* the configured identity: of the previous one, or of the next if the update
\* had got as far as saving it.
RestartServer ==
    /\ Len(workers) <= MaxSwitches
    /\ \E m \in {gens[serving].model}
                \union (IF opened = 0 THEN {} ELSE {gens[opened].model}) :
        LET g == IF Reusable(m) # 0 THEN Reusable(m) ELSE Len(gens) + 1
        IN  /\ gens' = IF Reusable(m) # 0 THEN gens ELSE Append(gens, Building(m))
            /\ serving' = g
            /\ workers' = Append([w \in DOMAIN workers |->
                            [Worker(workers[w].gen) EXCEPT !.live = FALSE]], Worker(g))
    /\ opened' = 0
    /\ UNCHANGED <<text, stamp, resets>>

----------------------------------------------------------------------------
(* The worker: one tick after another *)

Now(w) == gens[workers[w].gen]
Become(w, worker) == workers' = [workers EXCEPT ![w] = worker]

\* The first and the second reconciliation of a tick.
Again(step) == CASE step = "compare" -> "read" [] step = "compare2" -> "read2"
                 [] step = "read" -> "commit" [] step = "read2" -> "commit2"
                 [] step = "commit" -> "take" [] step = "commit2" -> "write"

\* reconcile: nothing to do when the token is the one of the last time, not
\* even what activation would do.
CompareTokens(w) ==
    /\ workers[w].live /\ workers[w].step \in {"compare", "compare2"}
    /\ Become(w, IF Now(w).cursor = stamp
                 THEN [workers[w] EXCEPT !.count = Now(w).count,
                            !.step = Again(Again(Again(@)))]
                 ELSE [workers[w] EXCEPT !.token = stamp, !.step = Again(@)])
    /\ UNCHANGED <<text, stamp, gens, serving, opened, resets>>

\* index_documents: the notes may have changed since the token was read.
ReadDocuments(w) ==
    /\ workers[w].live /\ workers[w].step \in {"read", "read2"}
    /\ Become(w, [workers[w] EXCEPT !.docs = text, !.step = Again(@)])
    /\ UNCHANGED <<text, stamp, gens, serving, opened, resets>>

\* The transaction of reconcile: a job for every document whose vectors are of
\* another text, none for the others, nothing of documents that are gone.  A
\* job that was given up stays so while its text is the same.
Reconciled(gen, docs, token) ==
    LET due == [d \in Docs |-> IF docs[d] = gen.vec[d] THEN Absent ELSE docs[d]]
    IN  [gen EXCEPT
            !.vec = [d \in Docs |-> IF docs[d] = Absent THEN Absent ELSE gen.vec[d]],
            !.job = due,
            !.given = {d \in gen.given : due[d] # Absent /\ due[d] = gen.job[d]},
            !.cursor = token, !.count = Cardinality(Present(docs)), !.last = docs]

\* After a transaction a cancelled worker is gone.
Step(w, next) == IF workers[w].live THEN next ELSE "compare"

CommitReconciliation(w) ==
    LET worker == workers[w]
        gen == Reconciled(Now(w), worker.docs, worker.token)
    IN  /\ worker.step \in {"commit", "commit2"}
        /\ Put(worker.gen, gen, gen.count)
        /\ Become(w, [worker EXCEPT !.count = gen.count, !.docs = Nothing,
                                    !.token = 0, !.step = Step(w, Again(@))])
        /\ UNCHANGED <<text, stamp, serving, opened, resets>>

\* take_jobs: some of the jobs that may be tried, as many as a batch holds and
\* whose pause is over; with none the tick ends.
TakeJobs(w) ==
    LET worker == workers[w]
        tried == Present(Now(w).job) \ Now(w).given
    IN  /\ worker.live /\ worker.step = "take"
        /\ \E batch \in SUBSET tried :
            Become(w, [worker EXCEPT
                !.taken = [d \in Docs |-> IF d \in batch THEN Now(w).job[d]
                                          ELSE Absent],
                !.count = 0,
                !.step = IF batch = {} THEN "compare" ELSE "embed"])
        /\ UNCHANGED <<text, stamp, gens, serving, opened, resets>>

\* The provider answers, for all, for some or for none (embed_individually);
\* record_failure writes the others down, given up when the failure is terminal
\* or the last attempt, if the job is still for the same text.
EmbedAnswers(w) ==
    LET worker == workers[w]
    IN  /\ worker.live /\ worker.step = "embed"
        /\ \E good \in SUBSET Present(worker.taken) :
            \E lost \in SUBSET (Present(worker.taken) \ good) :
                /\ gens' = [gens EXCEPT ![worker.gen].given = @ \union
                        {d \in lost : Now(w).job[d] = worker.taken[d]}]
                /\ Become(w, [worker EXCEPT
                        !.got = [d \in Docs |-> IF d \in good THEN worker.taken[d]
                                                ELSE Absent],
                        !.taken = Nothing, !.step = "compare2"])
        /\ UNCHANGED <<text, stamp, serving, opened, resets>>

\* Mutant: vectors are stored whatever the job is for now.
StoreAll(gen, got) ==
    [gen EXCEPT
        !.vec = [d \in Docs |-> IF got[d] # Absent THEN got[d] ELSE gen.vec[d]],
        !.job = [d \in Docs |-> IF got[d] # Absent THEN Absent ELSE gen.job[d]],
        !.given = @ \ Present(got)]

\* The transaction of write_embeddings: vectors whose job is gone or is for
\* another text are dropped.
Stored(gen, got) ==
    LET wanted == {d \in Present(got) : gen.job[d] = got[d]}
    IN  [gen EXCEPT
            !.vec = [d \in Docs |-> IF d \in wanted THEN got[d] ELSE gen.vec[d]],
            !.job = [d \in Docs |-> IF d \in wanted THEN Absent ELSE gen.job[d]],
            !.given = @ \ wanted]

WriteEmbeddings(w) ==
    LET worker == workers[w]
    IN  /\ worker.step = "write"
        /\ Put(worker.gen, Stored(Now(w), worker.got), worker.count)
        /\ Become(w, [worker EXCEPT !.got = Nothing, !.count = 0,
                                    !.step = "compare"])
        /\ UNCHANGED <<text, stamp, serving, opened, resets>>

\* A transaction fails, or the worker's settings are switched off between two
\* ticks: the tick ends.
TickFails(w) ==
    /\ workers[w].live /\ workers[w].step # "compare"
    /\ Become(w, Worker(workers[w].gen))
    /\ UNCHANGED <<text, stamp, gens, serving, opened, resets>>

WorkerStep(w) ==
    \/ CompareTokens(w) \/ ReadDocuments(w) \/ CommitReconciliation(w)
    \/ TakeJobs(w) \/ EmbedAnswers(w) \/ WriteEmbeddings(w) \/ TickFails(w)

AiNext ==
    \/ EditDocument \/ ResetIndex
    \/ OpenProvider \/ SwitchProvider \/ RestartServer
    \/ \E w \in DOMAIN workers : WorkerStep(w)

AiSpec == AiInit /\ [][AiNext]_aiVars

----------------------------------------------------------------------------
(* What the index promises *)

AiTypeOK ==
    /\ text \in Contents /\ stamp \in 0 .. MaxEdits
    /\ gens \in Seq(Generations) /\ workers \in Seq(Workers)
    /\ serving \in DOMAIN gens /\ opened \in {0} \union DOMAIN gens
    /\ resets \in 0 .. MaxResets

\* A generation that counts as reconciled with the notes as they are holds, for
\* every document, vectors of its present text or a job for it, and nothing of
\* documents that are gone: whatever changed while the token, the documents and
\* the vectors were on their way, and whoever wrote last (reconcile,
\* write_embeddings, reset_index).
IndexedOrQueued ==
    \A g \in DOMAIN gens : gens[g].cursor = stamp =>
        \A d \in Docs :
            IF text[d] = Absent
            THEN gens[g].vec[d] = Absent /\ gens[g].job[d] = Absent
            ELSE text[d] \in {gens[g].vec[d], gens[g].job[d]}

\* A generation comes into use only with vectors of exactly the documents its
\* last reconciliation found, as they were then: the numbers that are compared
\* were read at different times (activate_generation_if_complete).
ActivatedComplete ==
    [][\A g \in DOMAIN gens :
        gens[g].status # "active" /\ gens'[g].status = "active" =>
            gens'[g].vec = gens'[g].last]_aiVars
=============================================================================
