# Verification of Tangleaf (notes-rs)

TLA+ models of the parts of Tangleaf in which several actors meet: a Rust core
that keeps notes in SQLite on every device, a server that sequences the
operations of one user, the sync between them, and the stores that follow the
notes. Each module names the files it is translated from; `PROJECT.json` maps
every definition to its lines, lists the hazards with the properties that would
catch them, and says for each property a mutation of the code that breaks it.

## 1. Inventory

| Component | State | Operations | Meets | What makes it correct |
|---|---|---|---|---|
| Replica bookkeeping (`crates/notes-core/src/operation.rs`) | `applied_ops` with `seq`, `sync_outbox` with quarantine, `last_server_seq` | author, pending outbox, quarantine, release, apply a sequenced batch, acknowledge | every caller of `notes-core`; one SQLite transaction each | an operation leaves the outbox only once it is sequenced; sequences agree with the server's |
| Apply engine (same file) | pages, blocks, structure intents, tombstones, each with the stamps of its fields; links, references and files derived from them | one handler per operation kind, repair of the tree, rows brought up to date at once or at the end of a batch | bookkeeping, undo history | replicas with the same operations have the same pages; blocks form a forest; a block belongs to the current generation of its page; links lead where the titles are |
| Outliner commands (`db/pages.rs`, `blocks.rs`, `journals.rs`, `document.rs`, `model.rs`) | nothing of their own: they read, decide, and write later | create, rename, delete a page; ensure a journal; create, write, move, delete, indent, split a block; save a draft | apply engine, history, sync in between | what a command decided still applies when it writes, and what need not move keeps its place |
| Undo history (`db/history.rs`) | two tables of entries with guards and scopes | record, undo, redo, drop, refresh siblings | remote operations | an undo takes back what this device did, and what the linear history has adopted as such |
| Hybrid logical clock (`hlc.rs`) | `last_hlc` in `sync_meta` | send, receive | local and remote operations | stamps follow knowledge and are unique |
| Sync client (`crates/notes-sync`) | the pass being made, in memory | catch up, push, isolate | replica, HTTP server | nothing lost, only unacceptable operations held back |
| Server log and actor (`server/src/oplog.rs`, `state.rs`, `api.rs`) | `oplog.db`, `notes.db`, actor queue | append, apply, roll back, replay, publish own writes, serve pages | devices, AI and MCP writers | one gapless log, materialized exactly, across crashes |
| Device worker (`src-tauri/src/sync.rs`) | connection state, retries | session, HTTP pass, parking, first replica, exit upload | sync client, user | a device goes on syncing; two uploads at once do no harm |
| Live session (`api.rs`, `sync.rs`) | broadcast channel, socket | backlog, push, acknowledge, broadcast, lag | both sides | no hole and no regression of a cursor |
| Snapshots and bootstrap | snapshot files, binding of a workspace | capture, export, import, bootstrap, initialise, bind | local edits, other devices, a change of address | workspaces are adopted, never merged; an import destroys no edit |
| Ink (`crates/notes-core/src/ink`) | revisions, version graph, editor flags | patch, undo, complete, pack, publish, apply, adopt, resolve, compact | editor, minute job, sync | no stroke lost, conflicts kept until resolved |
| AI index (`crates/notes-ai`, `server/src/ai.rs`) | generations, vectors, jobs | reconcile, take jobs, write, fail, reset, activate | note writes, provider changes, two workers | active vectors are those of the current text |
| Entity graph (`crates/notes-ai/src/extract.rs`) | extractions, edges, entities | enqueue, ask, commit, forget | note writes, restarts | an entity lives as long as an edge names it; each text is extracted or queued |
| File store (`crates/notes-blob`) | directories, files and what of them is on disk | install, open verified, remove, discard | calls from several threads, kills, power failures | a name shows a whole file, and what was reported stays |
| Blobs (`server/src/api.rs`, `api/ink.rs`, `blob_ownership.rs`) | files of all users, claims, quota | claim, install, release, push, download | two uploads of one device, several devices | the bytes of an accepted operation can be fetched |
| Import and archives (`commands/logseq_import.rs`, `commands/data.rs`, `crates/notes-import`, `external_import.rs`) | the session of an import, a directory of content-addressed files | scan, dry run, commit, attach, delete, back up, restore, clean up | a graph that is being edited, other jobs | what is written was one moment of the graph, and every attachment has its file |
| OAuth, MCP, queries, migrations, markdown, ink format, configuration, desktop shell, web client | see section 7 | | | |

The behaviours that are hard here: two databases that are written one after the
other (`oplog.db`, then `notes.db`) with a crash or an error in between; readers
of the log that do not pass through the actor; pushes whose answer is lost and
that are sent again; an upload at exit beside the worker; isolation of a refused
operation among operations that depend on each other; three messages that report
the same operation over one socket in any order; wall clocks that jump;
operations that two replicas apply in different orders; commands that read in one
transaction and write in another; undo entries older than what has been synced
since; a first contact that reads in one step and replaces in another; workers
that answer for a text that has changed; files that a row names and a cleanup
removes.

## 2. Modules

| Module | Models | Correspondence |
|---|---|---|
| `Replica` | bookkeeping of one SQLite file | a replica is a record `applied, seq, outbox, held, cursor`; every function of `operation.rs` that touches these tables is one operator, because it is one transaction on the connection's only thread |
| `SyncServer` | `Oplog`, `UserState`, the user actor, `push_ops` | `oplog` is the table, `srv` the server's replica, `actor` the batch inside `ingest_operations`, split at every transaction: one action per append, one for the apply, one per row removed |
| `SyncProtocol` | `SyncClient::sync_once`, the exit upload, the user, failures; composes the server with the devices | `cl[c].stage` is the await a pass is suspended at, `ex[c]` the exit upload; requests and answers are in flight between the two |
| `SharedLog` | what the protocol promises | a log that only grows, positions that only move forward |
| `LiveSync` | the WebSocket session of both ends, over `SyncProtocol` | `live[c]` is the session: the device's phase, the server's task, both directions of the socket, the receiver of the broadcast channel |
| `Hlc`, `HlcClock` | `Hlc::send`, `Hlc::receive`; `last_hlc` of several replicas | operators on stamps, the counter keeps its width; authorship, observation, clocks set at will |
| `Bootstrap` | `initialize_replica`, `import_sync_snapshot`, `bind_sync_workspace`, `bootstrap_replica` | an attempt is a record with the step it stands at and what it has read; each await is a step |
| `ApplyEngine` | `apply_one_with_effects`, `reconcile_structure` | a database is a record `pages, blocks, structure, tombstones`; one operator per operation kind, `Apply` the dispatch, `Refuses` its error, `ReconcileStructure` the end of a transaction |
| `References` | `ApplyEffects`, `replace_block_refs`, `reconcile_attachment`, `PageAliasSet`, `Attachment` | a store is the database with the rows beside it; `effects` is the struct of the open transaction, one action per operation, its rollback and `finish` |
| `Snapshot` | `export_sync_snapshot`, `validate_snapshot`, `import_sync_snapshot` | a snapshot is a record of partial functions, the rows of each table; importing it inserts them flat and builds the tree again |
| `History` | `db/history.rs` | a history is a record of the two tables; guards are a function from fields to stamps, scopes from a deleted object to the blocks below it |
| `Convergence` | commands, authoring, undo and redo, exchange through the log; composes `ApplyEngine`, `Snapshot` and `History` for several devices and the server | one action per command; those that read outside their transaction are split into `Prepare` and `Commit` |
| `Outline` | order keys, the commands on blocks and the document editor, over the database of `ApplyEngine` | the table `keys` beside the structure; a command in flight holds the operations it decided on, an editor the snapshot it works on |
| `InkVersions` | one drawing on several tablets | a root is a function from strokes to chunks; every action is one transaction of the editor, the completion, the minute job or the sync worker |
| `AiIndex` | generations, embedding jobs and provider changes | two workers, each between reading the notes and committing what it found |
| `Entities` | extraction jobs, edges, entities | a worker's answer and the list of blocks to forget are its memory |
| `Imports` | the import session, archives, attachments and the directory of files | every job is a record of what it has read; the database worker is the only order |
| `BlobFiles` | one content in the file store of `notes-blob` | every system call that changes the disk, or that a call decides on, is an action; `doing` is the place of a call, `onDisk`, `lasting` and `flushed` what fsync has reached |
| `Blobs` | claims, files, quota and the two uploads of a device | the worker and the exit upload of a host are two passes with their own steps |
| `LogseqSource`, `LogseqPlan`, `LogseqImport` | a Logseq graph from its lines to the workspace | lines, pieces and places; the plan as a function of the parsed files; dry run and transaction as actions |
| `DeviceParts`, `StoreParts` | compositions of parts that share no state | the variable `part` says which one moves |
| `MCSyncProtocol`, `MCSyncFaults`, `MCLiveSync`, `MCBootstrap`, `MCConvergence`, `MCScenarios`, `MCOutline`, `MCStores` | instances for TLC | |
| `SyncProofs`, `LiveProofs`, `DeviceProofs`, `BootstrapProofs`, `EngineProofs`, `ConvergenceProofs`, `StoreProofs`, `Induction` | theorems | section 5 |

`SyncProtocol` and `Convergence` look at one system from two sides: the first
knows nothing of what an operation does and everything about how it travels,
the second the reverse. What joins them is that a replica applies the log in
its order, apart from its own operations, which it applied when it made them:
`SequencesAgree` and `NoLostOps` of the first are what `Push` and `Pull` of the
second assume.

Abstractions, each where the properties cannot tell the difference:

* In the sync modules an operation is a model value. What is kept of it is
  whether applying it can fail: with `NotFound` when an operation in `Needs` is
  missing, with `Conflict` when it is in `Clashing`. `Refused` are those
  `push_ops` answers with a terminal status before the log is touched. The check
  that an operation id is not reused with another payload has no counterpart: an
  id is its payload. A batch is a set; its order is `row`, the rowid of the
  outbox. `StatusOf` joins `ApiError::from_domain` and `terminal_rejection`: 409
  is final, 404 and 5xx are not. Blob transfers before a pull or a push can only
  fail there; what they do is `Blobs`.
* In `Convergence` a stamp is a natural number that nobody else used and that is
  above all the device has applied (`HlcClock` shows that stamps are so). Zero is
  NULL. A text is named by the stamp of the write that put it there. The style of
  a block and the layout of a page are registers of the same shape with the same
  guards and are left out, and so is `order_key`, the subject of `Outline`. A
  block stays on the page it was created on: no command moves it elsewhere.
  The structure is repaired once at the end of a batch; the immediate mode used
  for a command of one operation gives the same result. A push takes the whole
  outbox and a pull the rest of the log, and one command per device is between
  its two transactions: the failures of the transport are `SyncProtocol`'s.
* In `References` a text is named by its stamp as well, and what matters of it is
  the titles and blocks it mentions (`Mentions`). Titles are compared as they are
  normalised. A file is its hash; name and type of an attachment are left out.
* In `Bootstrap` what a replica contains is the set of the edits it shows. A
  bound device pushes and pulls in one step. The exit upload of a replica that is
  not bound is left out: the server refuses operations of another workspace
  (operation.rs:1661).
* In `InkVersions` roots are content-addressed, so that equal functions are equal
  roots; a chunk is the stroke it was written for or the set of strokes packed
  into it. Geometry is left out.
* In `AiIndex` an input hash is the text it is the hash of, and a vector the text
  it was computed from. In `Entities` an entity is its normalised name.
* In `Imports` a file of a graph is its version and the hash of an asset is the
  asset and its version. In `Blobs` contents are model values; the files of other
  users are those that may be there at the start.
* In `BlobFiles` there is one content: others share its directories and nothing
  else. Opening and hashing a file is one step, as files never change once they
  have a name; a limit that is exceeded is one of the failures of `Stop`. After a
  power failure an entry that was not synced may be there or not, and a file that
  was not synced may hold anything. `Imports` and `Blobs` take an installation and
  a removal for one step each.
* In the Logseq modules a line is its indentation, whether a dash follows, and
  the pieces a later stage tells apart. An identity is the term it is hashed
  from. `MarkdownCode` reads a text as Markdown does, in fences, indented code and
  paragraphs, and is applied twice to each block: to the text of the file and to the
  text that is imported. A list inside the text of a block counts as a paragraph. An
  image with an image in its label is a piece `open`, the inner image and the outer
  destination; the title of an image is part of its destination.

## 3. Runs

| Run | Instance | What it shows |
|---|---|---|
| `sync_faults` | 2 devices, `a1`, `a2` (needs `a1`), `b1`; one fault of any kind anywhere; every operation applicable, or `a1` clashing | types, agreement of sequences, nothing lost, a causal log, authorship order, only unacceptable operations held, the server's replica is the log, rows that were served stay |
| `live` | two scenarios. `refusal`: a refused operation, one that is fine, one of the server, a crash. `torn`: one operation of the device and one of the server, a backlog of one row, a feed of one message, two unanswered pushes, one fault of any kind | an open and silent session holds the whole log; every acceptable operation reaches it; passes and sessions implement `SharedLog` |
| `convergence` | 2 devices and the server in four scenarios: a tree worked on; pages deleted, undone and redone; a page and a block undone around what the other device deletes and rewrites; titles and journals claimed twice | settled replicas are equal, nothing is refused, blocks form a forest, titles are unique, nothing of an older generation survives, an undo overwrites another device only where the history has adopted its change, a snapshot is imported as it was exported |
| `device_parts` | the clock (3 readings, counter up to 3, 3 operations), the first contact (2 devices, 3 edits, one change of address), the drawing (2 tablets, 2 strokes, 3 versions), references (2 pages, 2 blocks, 2 titles, a file, six scenarios of 5 or 6 operations in every order and every division into batches) | stamps follow knowledge and are unique; workspaces are never mixed, baselines hold, a first choice drops no edit; no stroke is lost, a clean page shows its base, a quiet one the last version; links, references and files are those a replica that joins would compute |
| `store_parts` | the index (2 documents, 2 texts, 2 models), entities (2 blocks, 2 names), imports (1 document, 1 asset, 1 change of the graph, 2 dry runs, 2 other events), blobs (2 devices, 2 attachments of one content and a drawing of two blobs, quota 2, 1 failure), one file (2 installations, 1 reader, 1 removal, any number of power failures), Logseq graphs of 1 or 2 files and 3 or 4 lines, in each the lines of one concern (outline, identities, titles, tasks, media, text that reads differently once it is stripped) | see the theorems of section 5; a preview keeps its word, the outline, the links and the media of a graph come out as planned, and what the file store has reported stays |
| `outline` | 3 blocks in all 6 trees, 4 rows of keys and 3 cycles, one block to create; every command, every draft of up to 4 units, one undo, one remote operation | a block lands where it was asked to, and what need not move keeps its key |
| `dirty_read` (violation) | a batch that is rolled back while another device pages | the log is not append-only: a device keeps a sequence that is given away again |
| `blocked_outbox` (violation) | a refused operation, one that needs it, and an independent one | the dependent is answered 404 for ever and the independent one never leaves the device |
| `journal_divergence` (violation) | a journal ensured, deleted, and ensured later by a device that saw neither | that device ends without the page the others have |
| `detached_draft` (violation) | a draft that takes a block out of a cycle that was repaired | the saved document is not the draft |
| `refused_snapshot` (violation) | a block deleted and restored while its page is deleted and restored elsewhere | the server's database has a block both alive and tombstoned, and no device accepts a snapshot of it |
| `lost_edit` (violation) | a device that runs the choice of a first replica a second time | an edit made since its outbox was read is gone |

Bounds. Two devices are enough for every interleaving of a writer and a reader
of the same log; three operations for one that is refused, one that depends on
it and one of the other device. `BatchSize = 2` makes a catch-up need two pages
and a push leave something behind; `BacklogSize` and `Capacity` of one make a
backlog too long and a receiver lag. `MaxFaults = 1` is one failure anywhere; the
theorems have no such bound. The wall clock needs three readings (equal, ahead,
behind) and the counter four values to saturate by two routes.

`DeviceParts` and `StoreParts` join modules that share no variable. No step of
one reads what another writes, so an interleaving is a behaviour of each and it
is enough to let one part move while the others rest in their initial states; the
proofs are about the parts, not about the composition. `MCSyncFaults` has two
cases, told apart by `clash`: in the first every operation can be applied, in the
second `a1` clashes and the kinds of faults are those that matter to isolation.
`MCLiveSync` has two scenarios, told apart by `scenario`, with one specification: what
is promised in the end is promised of the refusal, and it is enough that fairness is
assumed of the first, as the safety of the second needs none.
`MCScenarios` instantiates `Convergence` four times with the commands and the
history each scenario is about: a device has a role (`Commands`), and two roles
that differ cover what one device can do to another. `FewStamps = 5` bounds the
operations, all devices together: three or four beyond those every replica starts
with (`Seeds`), enough for a page to be deleted, restored and deleted again while
two operations of the other device are under way. The scenario `adopt` has six
(`MaxStamp`), because an undo over a change of the other device takes that many:
two commands and two undos of one device around a deletion by the other. `HistoryLimit` stands for the
limit of 50 entries: two make an undo, a redo and an eviction possible.
`KeptThroughout` says of what is created once and named by one page that settled
replicas agree on it, and what is left of that when journals, titles and undo come
in; where nothing is claimed twice it is the whole of convergence
(`OriginalsConverge`, a theorem only).
The scenarios of `References` are six because a run of every sequence of six
operations would not end: each has the operations that meet in one row (a title by
two pages, an alias and a rename, a text and its block, a file and its owner), and
`LastStamp = 6` is the longest of them.
In `Outline` `Step = 2` and `MaxKey = 9` stand for 2^32 and 2^64-1: keys run out
between neighbours and at either end, which takes a rewrite of the siblings.
`PlacedAsAsked` and `StillInPlace` compare a state with what the last command
found and was asked for (`asked`); `ActivatedComplete`, `MovesOverwriteAdopted` and
`CommittedRowsStay` are properties of steps.

`sync_faults` checks two properties in a conditional form: `history.removed` is a
ghost that says `remove_tail` has run. The condition is there because `dirty_read`
shows the unconditional form false; the same read made by the author itself (its
push timed out and is still being ingested when the next pass catches up) takes
the operation out of the outbox and loses it. `history.left` is the ghost of a
`remove_tail` that failed (state.rs:477): its rows stay beyond the cursor until a
restart replays them. `CausalLog` exempts what was built on a row read before a
rollback, for the same reason. In `Blobs` the ghost `crossed` marks a claim that
another pass of the same device gave back; see section 7.

Deadlock is checked in the runs of the sync protocol: a worker can always start
another pass. It is not in the others, which rest when their stamps, edits or
operations are used up and everything has been exchanged.

## 4. Fairness

`LiveFairness` (and `FairSpec`, the same without sessions) assumes of the server:
the actor goes on inside a batch (weak fairness of `LiveIngest`, it is one task
with no lock held by others); commands are taken in turn from a FIFO channel, so
that a caller who keeps asking is served (strong fairness per caller, because
between two batches of others the action is disabled); the 30 s sweep publishes
what a failed writer left (weak); a process that died is started again (weak;
nothing in the repository does that, it is the supervisor's part). Of a session:
each arm of the two `select!` loops that is ready is taken in the end (weak for
the server's task, for the device's receiver and for its drain tick), and the
heartbeat finds a dead connection (`NoticeEnd`, in `LiveWorker`). Of a device: the
worker loop makes one pass after another and comes back after every error (weak).
Faults are not fair. The other modules state no liveness: `Convergence`, the
stores and the parts of a device promise what is there, and that operations arrive
is `SoundOpsArrive`. That a given-up embedding job blocks the activation of a
generation (store.rs:1126) is a hazard of liveness without a property: the code
leaves it to the user to ask again.

## 5. Proofs

All of it for every set of devices, operations, pages, blocks, strokes, documents
and files, every dependency relation, batch size and budget of faults, every
clock and any number of steps; the assumptions are the named `ASSUME`s of the
modules, each evaluated by TLC on the runs' constants. Three things in them are
about the code rather than a type: a packed chunk of ink is not the chunk of
one stroke (`InkAssumption`: it holds the samples of at least two saves), the
server is not one of the devices, and the operations every replica starts with could
have been written: stamped in their order, each after what it needs
(`ConvergenceAssumption`).

* **The sync protocol** (`SyncProofs`). `IInv` makes agreement
  inductive: a page, an answer or the actor's batch that names a row the log does
  not have would break it one step later, so everything under way names rows of
  the log (`InFlight`), the log repeats nothing, and batches are finite. The log
  grows by one row or loses its last one (`LogStep`), everything under way comes
  out of it (`FlightStep`), and every replica moves by one of the transactions of
  `notes-core`, fed with rows of the log (`ReplicaStep`). `FreshIsInterval` is
  the lemma that takes work: the new part of a batch without a hole is the
  interval that follows the cursor. `ProtocolInv` carries the rest:
  `ServerInv` (what the server's replica and the log have in common at each phase
  of the actor, from which `ServerMaterializesLogAlways` and
  `CommittedRowsStayAlways`); `RowsInOrder` and `KnownAuthored`; who knows the
  causes of what (`ServerCauses`, `DeviceCauses`, `BuiltOnRows`), from which
  `CausalLogAlways`; `Conversations`: a worker has one question under way, an
  answer belongs to the question, and a final refusal has a reason, from which
  with `HeldInv` `HeldAreUnacceptableAlways` and with `OrderInv`
  `AuthorOrderAlways`. `SharedLogImplemented`: without a rollback every step
  appends one row, moves one cursor or stutters.
* **The live session** (`LiveProofs`). `LiveInv` is the part of `ProtocolInv` that
  sessions share (`BaseInv`) and what holds of each session. A step of a session
  that is none of the protocol moves at most one replica, fed with rows of the log
  (`SideStep`, `SideStepKeeps`). Of a session: everything under way names rows of
  the log (`Backed`), and, the part `QuietSessionIsCurrentAlways` needs, a session
  that has read its backlog and lost nothing has every row the server applied and
  the device lacks in the channel or on the socket (`Following`, `Supplied`);
  that survives acknowledgements that overtake their echo and messages that end in
  a gap. Queues are looked at as sets (`Elements`), as nothing depends on their
  order. `SessionsImplementTheSharedLog`: with sessions too every step appends one
  row, moves one cursor or stutters (`LiveStepForms`, `ReaderMoves`).
* **First contact** (`BootstrapProofs`). `BootInv`: a snapshot an attempt holds is
  of one workspace however the server has changed since, and captured rows are of
  the identity the device has until it has imported something. `BaselineInv`: a
  snapshot of the server's workspace follows it from its cursor on, captured rows
  are still shown and what came later is queued, so that the binding at the end
  follows it too; edits of the baseline that are in an outbox are never given up
  for a snapshot; a device whose workspace the server holds never imports.
* **Clock and ink** (`DeviceProofs`). A clock is at least every stamp the device
  has seen (`Covers`), so that a new operation is larger than all its author
  knew. For ink, `InkInv`: what a page shows and does not have in its base is
  still offered by its editor, its history or a version (`FollowsBase`,
  `StillOffered`, `StillSomewhere`), from which `NoStrokeIsEverLost`; who owns a
  chunk and that a published graph is never packed again (`Own`,
  `GraphsAreSealed`), from which `CleanPagesShowTheirBase`.
* **One operation** (`EngineProofs`). A database is `Consistent` when a block
  belongs to the current generation of its page, no page is both alive and
  tombstoned, and a title belongs to one page that is there. One operation keeps
  all three whatever its stamp, so however late it comes. One lemma per handler;
  the facts that do the work are that generations survive when blocks only
  disappear (`FewerBlocks`) or when no stamp of existence changes (`SameLives`),
  and that a page created again takes every older block with it
  (`StartGenerationEffect`). `ReconcileMakesAForest`: in a cycle of bound parents
  one block has the latest intent and is detached; if the repaired parents had a
  cycle, every block on it would have kept its bound parent, so it would be a
  cycle of the bound parents without a latest block, which a finite set of stamps
  does not allow. The recursive walk upwards is taken apart by `Climbs`,
  `PathExists` and `AboveIs`.

  Convergence rests on `Shows(db, A)`: what a database has of the operations `A`
  applied to it, field by field and without their order. It has heard of the objects
  `A` makes (`ApplyHears`). A page or a block created once is gone if any operation
  deletes it or, for a block, its page, and else has the existence of its creation,
  the latest text and the latest place; a page has its latest title if no other
  page claims it; a journal nobody deleted the earliest ensure; and a row that is
  not there is empty. `ApplyShows`: one more operation, with any stamp, extends `A`
  by itself. It has one lemma per handler, and an operation needs what its author
  had: without `Grounds` a text could arrive before the block it is of, and the
  code drops it (`BlockSetMarkdown` is an UPDATE of a row that is there). `ReconcileShows`: the repair of the tree changes none of it.
  Two databases that show the same operations, no two of one stamp, agree on such a
  page (`SamePage`), such a block (`SameBlock`), and on the whole tree if all
  objects are such (`SameBlocks`), because the tree is a function of intents and
  existence (`SameTree`) and is repaired only once (`RepairOnce`).
* **Links, references and files** (`EngineProofs`, of `References`). `RefInv` says
  of a store in the middle of a batch that rows are there for what is there
  (`Bare`, `FilesShown`), that a block has the links and references its text asks
  for unless the block is among the texts still to be read (`Reads`), and that a
  link leads where its title does unless the title is among those to be looked at
  (`Reflects`); in an immediate transaction nothing is put off. The step is
  `OneOperationKeeps`: whatever an operation does to titles, existence and texts is
  covered by the rows it writes and by what it reports (`NewsOf`, one lemma per
  handler). A title changes its page only if a page that has it came, went, was
  renamed or got an alias, and the handler names that title; deletions reach rows
  through the foreign keys (`CascadeFields`). At the end of the batch the rows
  reflect everything, hence `JoinersSeeTheSame`; and a text that is waiting is of a
  block that is there, hence `PendingTextsHold`.
* **Replicas that exchange operations** (`ConvergenceProofs`). A transaction is a
  recursive function over its operations (`BatchLeads`), so that it keeps
  consistency (`BatchKeeps`); a batch in which each operation is new and finds what
  it needs (`Fits`) is accepted, and the replica shows all of it afterwards
  (`BatchShows`). `Inductive`: every replica is what a transaction left of a
  consistent database (`Typed`, so `GenerationsHold`, `TitlesUniqueHold`,
  `ForestHolds`) and shows what it has applied (`Reflected`): the server its log, a
  device the log up to its position, its echoes beyond and its outbox. What an
  operation needs was made before it, in the log or in its outbox (`Grounded`), no
  two operations share a stamp and none is in two places (`Distinct`), no clock is
  behind what its device has applied (`Timely`). And what may be written later, from
  the command in flight and both payloads of every entry of a history, speaks of
  nothing the device has not heard of (`Sayable`, `Sayings`), which is why `Grounded`
  survives an undo of something old. Every pull and push fits (`UnseenFits`,
  `OutboxFits`), hence `NothingRefusedHolds`. A settled device has applied the
  operations of the server (`SettledIs`), in another order; hence
  `KeptConvergedHolds`, `ConvergenceHolds` and `EarliestEnsureHolds`. A repaired
  database that shows what was applied has no block without its page, parent or
  intent, so that its snapshot carries all of it (`SnapshotsCarryOverHolds`).
* **The stores** (`StoreProofs`). `AiInv` (`Settled`, `UpToDate`, `ReadInTime`):
  a worker at its transaction has read the notes its token stands for, and an
  answer is of the text its job is still for. `EntityInv` and `FollowInv`: an
  entity has an edge and each text an extraction, a job or a place in the memory of
  a worker that will enqueue it. `ImportInv`: a scan lies between two moments of
  the directory, and whoever has seen a file is counted by every cleanup.
  `BlobInv` (`Past`, `Fresh`, `Kept`): what is accepted, or taken by a pass for
  uploaded, is installed, and owned or still brought by an operation that is
  neither accepted nor held and that its device has not gone past. `FileInv`: an
  installation has behind it directories that are there (`Stands`), a file has a
  name only when it is written and synced (`NamedIsFinal`), and who has reported
  has the directories and the name on disk (`Keeps`); hence `ReportsSurvive` and
  `NamesStayWhole`, for any number of calls, kills and power failures.
* **Induction**: the provers do not take a predicate as a parameter, so that the
  library's induction theorems cannot be used. These are stated with sets: a set
  with 0 and all successors is `Nat`, and a recursive function over the places of
  a sequence exists.

Only model-checked:

* liveness (`SoundOpsArrive`): neither fairness nor ENABLED is in reach of the
  prover;
* what a recursive definition computes for every input: the properties of the
  Logseq import are about folds over lines;
* `MovesOverwriteAdopted`, whose invariant would have to say who wrote each field that a
  guard of a history names, and `PlacedAsAsked` and `StillInPlace`, about the folds
  by which a draft becomes operations;
* `AuthorOrderKept` by that name: it joins two instances of `AuthorOrder`, which
  `AuthorOrderAlways` proves for every set of clashing operations.

## 6. Divergences met while modelling

The six runs that expect a violation are described under `findings` in
`PROJECT.json`. These were met too and have no run of their own:

* *title_divergence* (operation.rs:2204): two pages claim a title and one is
  renamed away; whether the other keeps the title depends on the order of arrival.
  `KeptConverged` speaks only of titles no two pages claim.
* An undo can bring back what another device deleted. history.rs:662-664 says that a
  neighbouring move "can launder an earlier same-field change into the local history
  timeline", and docs/history/search-and-fixes.md:220 accepts it ("linear-undo
  semantics"). It also accepts "dependency-field over-refresh", of which it knows "no
  data-loss path"; this is how that shows: the guards of a move include the
  existence of the page around a block, so after a page was deleted here and there,
  a block command on it, undone, makes the older entry of the page deletion
  applicable again, over the stamp of the other device. `MovesOverwriteAdopted`
  says what is left of the guards: without such a command and its undo no change of
  another device is overwritten, and what came to stand below an object is never
  deleted with it.
* Undoing a delete brings back the operations of the command, not a child that
  another device moved below the deleted block meanwhile (`ScopesMatch` drops the
  undo if the child came before it).
* A command that rewrites the intents of its siblings (blocks.rs:466) does so for
  a sibling that sync moved away between its two transactions, and brings it back.
* A row read from the log before its batch was rolled back can be built upon
  (`CausalLog`, same cause as `dirty_read`).
* A cleanup of files counts what the database names and what its own session has
  seen (attachments.rs:286); docs/planning/roadmap.md:356-357 asks for more.
* Two upload passes of one device share its claims: the release of one (api.rs:735)
  can take back what the other has just relied on, and a drawing whose blobs were
  taken back is answered 409 and held. The same after three failures when the
  answers to all operations that name a blob are lost. `FetchableOrOwed` excepts
  what `crossed` marks.
* A block that returns while a cancelled worker is forgetting it loses its
  re-extraction until it changes again.
* The minute job may close an editor that was opened meanwhile (runtime.rs:185;
  docs/planning/handwriting-integration.md:62 says its base is protected), and a
  device stopped between publishing and closing, or whose `close_editor` fails
  there (runtime.rs:130-142 and 192), is `torn`: the intent to publish is gone with
  the publication, so the minute job compacts and does not close.
* A graph without blockers can end in `InvalidSourceAst` (prepare.rs:397), which
  names the file and no place in it. media.rs:198-225 reads each block twice, before and
  after its properties and its task marker are removed, and the media must be the same:
  a marker in front of a fence, an image indented by four columns under a property or
  a lone marker that disappears, and an image in the label of an image, whose place
  the cursor would have to go back for, are refused so. `PreviewKeepsItsWord` says that
  nothing else is, but a nesting that is too deep.
* A backup taken, and a restore that follows it, leave the gap data.rs:184 has
  between reading the database and copying its files.
* `install_reader` answers `AlreadyPresent` for a file that is there without
  syncing its directory (notes-blob/src/lib.rs:310), and takes a directory that
  another call has just made as it is (lib.rs:585). If that call was killed before
  its own sync, rows are committed on an entry a power failure can take back, where
  lib.rs:868 speaks of "the crash-durability contract required before committing
  blob metadata". The ghost `relied` marks these calls, and `ReportedStays`
  excepts them; `unlinked` marks those whose file was removed after they saw it.
* A failing `remove_tail` (state.rs:477) leaves rows that every push meets as a
  conflict until a restart replays them.

## 7. Not modelled

OAuth (`server/src/oauth`: single conditional SQL statements on codes and tokens);
MCP (its writes are `UserState::write`, which `SyncServer` has); outliner queries
and markdown (reads and formatting); schema migrations (one transaction, once);
the ink codec; server configuration; the desktop shell and the web client, whose
autosave reaches the core as the commands modelled here. In the modelled parts:
deletion, archives and garbage collection of ink; operations on layouts and styles
in `ApplyEngine`; chat, search and the agent
of `notes-ai`; size limits, warnings, provenance and reports of the import; the
validation of field lengths in `validate_kind`.
