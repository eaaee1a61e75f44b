------------------------------ MODULE Imports ------------------------------
(***************************************************************************)
(* What comes into a workspace from outside: a Logseq graph                *)
(* (src-tauri/src/commands/logseq_import.rs, crates/notes-import,          *)
(* notes-core/src/external_import.rs), a portable archive                  *)
(* (commands/data.rs, notes-core/src/db/archive.rs), attached files and    *)
(* the files of operations that arrive, and the store of content-addressed *)
(* files (crates/notes-blob) they share.                                   *)
(*                                                                         *)
(* The directory of the graph is read file by file while somebody may be   *)
(* writing to it; the store is a directory outside every transaction; and  *)
(* nothing but the database worker puts the jobs in an order.  A file is   *)
(* its version, the hash of an asset is the asset and its version.         *)
(***************************************************************************)
EXTENDS Integers, FiniteSets

CONSTANTS
    Documents, Assets, \* the files of the graph: pages, and media they show
    MaxChanges,        \* bound: writes to the graph during the imports
    MaxDryRuns,        \* bound: imports that are prepared
    MaxEvents,         \* bound: what anybody else begins meanwhile
    None

ASSUME ImportsAssumption ==
    /\ Documents \intersect Assets = {}
    /\ MaxChanges \in Nat /\ MaxDryRuns \in Nat /\ MaxEvents \in Nat

Files == Documents \union Assets
Editions == 0 .. MaxChanges
Graphs == [Files -> Editions]
Unread == -1
Scans == [Files -> Editions \union {Unread}]
NothingRead == [f \in Files |-> Unread]
Blobs == Assets \X Editions

\* Pages are told apart by who wrote them.
Owners == {"local", "remote", "graph", "archive"}
Rows == SUBSET (Owners \X Blobs)

VARIABLES
    graph,     \* the directory
    past,      \* ghost: every state it was in
    stored,    \* the files of the blob store
    present,   \* owners that have a page
    rows,      \* attachments: owner and hash
    fresh,     \* no page, operation or tombstone was ever written
    workspace, \* its identity: of this device or of the foreign archive
    receipt,   \* of the Logseq import
    undoable,  \* attachments whose deletion can be taken back
    backup,    \* the last archive this device wrote
    plan,      \* the import session, and the job that prepares or commits it
    dryRuns,
    attach,    \* attach_file, between the file and the row
    fetch,     \* the sync worker, between a download and the operation
    restore,   \* import_data
    events,    \* how much was begun beside the Logseq import
    taken      \* ghost: files a cleanup took from somebody who counted on them

database == <<present, rows, fresh, workspace, receipt, undoable>>
others == <<attach, fetch, restore, events>>
importVars ==
    <<graph, past, stored, database, backup, plan, dryRuns, others, taken>>

Workspaces == {"here", "there"}
Receipts == [manifest : Graphs, pages : [Documents -> Editions],
             namespace : 1 .. MaxDryRuns, workspace : Workspaces]
Archives == [workspace : Workspaces, notes : SUBSET Owners,
             rows : Rows, receipt : Receipts \union {None}]
PlanStages == {"none", "scan", "read", "verify", "ready", "confirm", "media",
               "reconfirm", "backup", "install", "apply", "clean"}
Plans == [stage : PlanStages, manifest : Scans, again : Scans, pages : Scans,
          known : Receipts \union {None}, clean : BOOLEAN, first : BOOLEAN,
          namespace : 0 .. MaxDryRuns, workspace : Workspaces,
          left : SUBSET Blobs, put : SUBSET Blobs]
Restores == [stage : {"none", "backup", "import", "clean"},
             archive : Archives \union {None}, put : SUBSET Blobs]

NoImport ==
    [stage |-> "none", manifest |-> NothingRead, again |-> NothingRead,
     pages |-> NothingRead, known |-> None, clean |-> FALSE, first |-> FALSE,
     namespace |-> 0, workspace |-> "here", left |-> {}, put |-> {}]
NoRestore == [stage |-> "none", archive |-> None, put |-> {}]

\* An archive somebody exported from another workspace.
Foreign == [workspace |-> "there", notes |-> {"archive"}, receipt |-> None,
            rows |-> {<<"archive", <<a, 0>>>> : a \in Assets}]

ImportInit ==
    /\ graph = [f \in Files |-> 0] /\ past = {graph}
    /\ stored = {} /\ present = {} /\ rows = {} /\ fresh = TRUE
    /\ workspace = "here" /\ receipt = None /\ undoable = {} /\ backup = None
    /\ plan = NoImport /\ dryRuns = 0
    /\ attach = None /\ fetch = None /\ restore = NoRestore
    /\ events = 0 /\ taken = {}

----------------------------------------------------------------------------
(* The directory, and the steps of an import that read it *)

\* Another program writes a file of the graph; nothing it overwrote comes back.
EditGraph ==
    /\ Cardinality(past) <= MaxChanges
    /\ \E f \in Files : graph' = [graph EXCEPT ![f] = @ + 1]
    /\ past' = past \union {graph'}
    /\ UNCHANGED <<stored, database, backup, plan, dryRuns, others, taken>>

Reads(p) == plan' = p /\ UNCHANGED <<graph, past, stored, database, backup,
                                    dryRuns, others, taken>>

Whole(scan, files) == \A f \in files : scan[f] # Unread

\* One job at a time; receipt, identity and emptiness are read before the scan.
BeginPreparing ==
    /\ plan.stage \in {"none", "ready"} /\ dryRuns < MaxDryRuns
    /\ dryRuns' = dryRuns + 1
    /\ plan' = [NoImport EXCEPT
                  !.stage = "scan", !.known = receipt, !.clean = fresh,
                  !.workspace = workspace,
                  !.namespace = IF receipt = None THEN dryRuns'
                                ELSE receipt.namespace]
    /\ UNCHANGED <<graph, past, stored, database, backup, others, taken>>

\* scan_logseq_graph hashes one file after the other.
ScanFile ==
    /\ plan.stage = "scan"
    /\ \E f \in Files :
        LET scan == [plan.manifest EXCEPT ![f] = graph[f]] IN
        /\ plan.manifest[f] = Unread
        /\ Reads([plan EXCEPT !.manifest = scan,
                    !.stage = IF Whole(scan, Files) THEN "read" ELSE "scan"])

\* read_manifest_document compares sizes, so what it reads may be newer.
ReadDocument ==
    /\ plan.stage = "read"
    /\ \E d \in Documents :
        LET read == [plan.pages EXCEPT ![d] = graph[d]] IN
        /\ plan.pages[d] = Unread
        /\ Reads([plan EXCEPT !.pages = read,
                    !.stage = IF Whole(read, Documents) THEN "verify" ELSE "read"])

\* Mutant: a comparison of the names the two scans found.
SameNames(first, again) == DOMAIN again = DOMAIN first
SameManifest(first, again) == again = first

Afterwards == [verify |-> "ready", confirm |-> "media", reconfirm |-> "backup"]

\* verify_logseq_manifest scans everything again; a change ends the job.
VerifyFile ==
    /\ plan.stage \in DOMAIN Afterwards
    /\ \E f \in Files :
        LET scan == [plan.again EXCEPT ![f] = graph[f]] IN
        /\ plan.again[f] = Unread
        /\ Reads(IF ~Whole(scan, Files) THEN [plan EXCEPT !.again = scan]
                 ELSE IF SameManifest(plan.manifest, scan)
                 THEN [plan EXCEPT !.again = NothingRead,
                                   !.stage = Afterwards[plan.stage]]
                 ELSE NoImport)

\* Every reference is read again and must have the hash of the manifest.
ReadMedia ==
    /\ plan.stage = "media"
    /\ Reads(IF \A a \in Assets : graph[a] = plan.manifest[a]
             THEN [plan EXCEPT !.stage = "reconfirm",
                     !.left = {<<a, plan.manifest[a]>> : a \in Assets}]
             ELSE NoImport)

----------------------------------------------------------------------------
(* The commit of a Logseq import *)

\* The dry run found no blocker.
Clear(p) == IF p.known = None THEN p.clean
            ELSE p.known.manifest = p.manifest

OfThisPlan(p) ==
    /\ receipt.manifest = p.manifest
    /\ receipt.namespace = p.namespace /\ receipt.workspace = p.workspace

\* The session is gone once a commit took it, whatever comes of the commit.
BeginCommit ==
    /\ plan.stage = "ready"
    /\ Reads(IF Clear(plan) /\ (IF receipt = None THEN fresh ELSE OfThisPlan(plan))
             THEN [plan EXCEPT !.stage = "confirm", !.first = receipt = None]
             ELSE NoImport)

DiscardSession == plan.stage = "ready" /\ Reads(NoImport)

\* An archive holds the files of its attachments, so each must be there.
Archive == [workspace |-> workspace, notes |-> present, rows |-> rows,
            receipt |-> receipt]
WriteBackup == IF \A r \in rows : r[2] \in stored THEN backup' = Archive
               ELSE UNCHANGED backup

BackUpFirst ==
    /\ plan.stage = "backup"
    /\ IF plan.first THEN WriteBackup ELSE UNCHANGED backup
    /\ plan' = IF plan.first /\ backup' # Archive THEN NoImport
               ELSE [plan EXCEPT !.stage = "install"]
    /\ UNCHANGED <<graph, past, stored, database, dryRuns, others, taken>>

\* install_reader: a file that is there already is not counted as published.
InstallBlob ==
    /\ plan.stage = "install"
    /\ \/ /\ plan.left = {} /\ plan' = [plan EXCEPT !.stage = "apply"]
          /\ UNCHANGED stored
       \/ \E b \in plan.left :
            /\ stored' = stored \union {b}
            /\ plan' = [plan EXCEPT !.left = @ \ {b},
                                    !.put = @ \union ({b} \ stored)]
       \/ plan.left # {} /\ plan' = [plan EXCEPT !.stage = "clean"]
          /\ UNCHANGED stored
    /\ UNCHANGED <<graph, past, database, backup, dryRuns, others, taken>>

Planned(p) == [manifest |-> p.manifest, namespace |-> p.namespace,
               pages |-> [d \in Documents |-> p.pages[d]],
               workspace |-> p.workspace]

\* apply_external_import, one transaction, which decides everything again.
ApplyImport ==
    /\ plan.stage = "apply"
    /\ \/ /\ plan.workspace = workspace /\ receipt = Planned(plan)
          /\ plan' = NoImport /\ UNCHANGED database
       \/ /\ plan.workspace = workspace /\ receipt = None /\ fresh
          /\ present' = {"graph"} /\ fresh' = FALSE /\ receipt' = Planned(plan)
          /\ rows' = {<<"graph", <<a, plan.manifest[a]>>>> : a \in Assets}
          /\ plan' = NoImport /\ UNCHANGED <<workspace, undoable>>
       \/ plan' = [plan EXCEPT !.stage = "clean"] /\ UNCHANGED database
    /\ UNCHANGED <<graph, past, stored, backup, dryRuns, others, taken>>

----------------------------------------------------------------------------
(* Files nobody refers to *)

\* Mutant: the cleanup removes what was published and asks nobody.
AllPut(put) == put
Unreferenced(put) == {b \in put : \A r \in rows : r[2] # b}

\* Who has seen a file in the store and has no row for it yet.
Counted ==
    ({attach, fetch} \ {None})
    \union (IF plan.stage \in {"install", "apply"}
            THEN {<<a, plan.manifest[a]>> : a \in Assets} \ plan.left ELSE {})
    \union {r[2] : r \in undoable}

\* cleanup_unreferenced_attachment_blobs, on the database worker.
CleanUp(put) ==
    \/ /\ stored' = stored \ Unreferenced(put)
       /\ taken' = taken \union (Unreferenced(put) \intersect Counted)
    \/ UNCHANGED <<stored, taken>>

CleanUpImport ==
    /\ plan.stage = "clean" /\ plan' = NoImport /\ CleanUp(plan.put)
    /\ UNCHANGED <<graph, past, database, backup, dryRuns, others>>

----------------------------------------------------------------------------
(* An archive is restored *)

Begin == events < MaxEvents /\ events' = events + 1

StageArchive ==
    /\ Begin /\ restore.stage = "none"
    /\ \E a \in {Foreign, backup} \ {None} :
        restore' = [stage |-> "backup", archive |-> a, put |-> {}]
    /\ UNCHANGED <<graph, past, stored, database, backup, plan, dryRuns,
                   attach, fetch, taken>>

BackUpBeforeRestore ==
    /\ restore.stage = "backup"
    /\ WriteBackup
    /\ restore' = IF backup' # Archive THEN NoRestore
                  ELSE [restore EXCEPT !.stage = "import"]
    /\ UNCHANGED <<graph, past, stored, database, plan, dryRuns, attach, fetch,
                   events, taken>>

\* The files are published inside the transaction that refers to them.
ImportArchive ==
    LET a == restore.archive
        needed == {r[2] : r \in a.rows}
    IN
    /\ restore.stage = "import"
    /\ \/ /\ a.workspace = workspace \/ fresh
          /\ stored' = stored \union needed
          /\ rows' = a.rows /\ present' = a.notes /\ receipt' = a.receipt
          /\ workspace' = a.workspace /\ undoable' = {}
          /\ fresh' = (fresh /\ a.notes = {} /\ a.receipt = None)
          /\ restore' = NoRestore
       \/ /\ \E published \in SUBSET needed :
                /\ stored' = stored \union published
                /\ restore' = [restore EXCEPT !.stage = "clean",
                                              !.put = published \ stored]
          /\ UNCHANGED database
    /\ UNCHANGED <<graph, past, backup, plan, dryRuns, attach, fetch, events,
                   taken>>

CleanUpRestore ==
    /\ restore.stage = "clean" /\ restore' = NoRestore /\ CleanUp(restore.put)
    /\ UNCHANGED <<graph, past, database, backup, plan, dryRuns, attach, fetch,
                   events>>

----------------------------------------------------------------------------
(* Everybody else who writes *)

Writes == UNCHANGED <<graph, past, backup, plan, dryRuns, restore, taken>>

WriteNote ==
    /\ Begin /\ "local" \notin present
    /\ present' = present \union {"local"} /\ fresh' = FALSE
    /\ UNCHANGED <<stored, rows, workspace, receipt, undoable, attach, fetch>>
    /\ Writes

\* attach_file: the file first,
AttachFile ==
    /\ Begin /\ attach = None /\ attach' \in Blobs
    /\ stored' = stored \union {attach'}
    /\ UNCHANGED <<database, fetch>> /\ Writes

\* then its row, if the page is still there.
CreateAttachment ==
    /\ attach # None /\ attach' = None
    /\ rows' = IF "local" \in present THEN rows \union {<<"local", attach>>}
               ELSE rows
    /\ UNCHANGED <<stored, present, fresh, workspace, receipt, undoable, fetch,
                   events>>
    /\ Writes

\* The sync worker downloads what an operation refers to and then applies it.
DownloadBlob ==
    /\ Begin /\ fetch = None /\ fetch' \in Blobs
    /\ stored' = stored \union {fetch'}
    /\ UNCHANGED <<database, attach>> /\ Writes

ApplyRemote ==
    /\ fetch # None /\ fetch' = None
    /\ rows' = rows \union {<<"remote", fetch>>}
    /\ present' = present \union {"remote"} /\ fresh' = FALSE
    /\ UNCHANGED <<stored, workspace, receipt, undoable, attach, events>>
    /\ Writes

\* A backup is written first; the file stays, for the deletion may be undone.
DeleteAttachment ==
    /\ Begin /\ \A r \in rows : r[2] \in stored
    /\ backup' = Archive
    /\ \E r \in rows : rows' = rows \ {r} /\ undoable' = {r}
    /\ UNCHANGED <<graph, past, stored, present, fresh, workspace, receipt, plan,
                   dryRuns, attach, fetch, restore, taken>>

UndoDelete ==
    /\ undoable # {} /\ undoable' = {}
    /\ rows' = rows \union {r \in undoable : r[1] \in present}
    /\ UNCHANGED <<stored, present, fresh, workspace, receipt, attach, fetch, events>>
    /\ Writes

\* The program ends: what is half done is never finished, nor cleaned up.
Quit ==
    /\ Begin /\ plan' = NoImport /\ restore' = NoRestore
    /\ attach' = None /\ fetch' = None
    /\ UNCHANGED <<graph, past, stored, database, backup, dryRuns, taken>>

ImportNext ==
    \/ EditGraph \/ BeginPreparing \/ ScanFile \/ ReadDocument \/ VerifyFile
    \/ ReadMedia \/ BeginCommit \/ DiscardSession \/ BackUpFirst
    \/ InstallBlob \/ ApplyImport \/ CleanUpImport
    \/ StageArchive \/ BackUpBeforeRestore \/ ImportArchive \/ CleanUpRestore
    \/ WriteNote \/ AttachFile \/ CreateAttachment \/ DownloadBlob
    \/ ApplyRemote \/ DeleteAttachment \/ UndoDelete \/ Quit

ImportSpec == ImportInit /\ [][ImportNext]_importVars

----------------------------------------------------------------------------

\* Every variable has a value of its kind.
ImportTypeOK ==
    /\ graph \in Graphs /\ past \subseteq Graphs
    /\ stored \subseteq Blobs /\ present \subseteq Owners /\ rows \in Rows
    /\ fresh \in BOOLEAN /\ workspace \in Workspaces
    /\ receipt \in Receipts \union {None} /\ undoable \in Rows
    /\ backup \in Archives \union {None}
    /\ plan \in Plans /\ dryRuns \in 0 .. MaxDryRuns
    /\ attach \in Blobs \union {None} /\ fetch \in Blobs \union {None}
    /\ restore \in Restores /\ events \in 0 .. MaxEvents /\ taken \subseteq Blobs

\* An imported graph is one the directory really held at some moment: its pages
\* and its media belong together although the files were read one by one, pages
\* before the verification and media long after it.
ImportIsOneMoment ==
    receipt # None =>
        /\ receipt.manifest \in past
        /\ \A d \in Documents : receipt.pages[d] = receipt.manifest[d]

\* A cleanup never takes a file an attachment refers to, whatever imports,
\* restores, downloads and attached files overlap.  Exempt are the files that
\* were removed while somebody had found them in the store and had no row yet,
\* or could still take the deletion of the row back.
RowsHaveFiles == \A r \in rows : r[2] \in stored \union taken
=============================================================================
