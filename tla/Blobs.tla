-------------------------------- MODULE Blobs --------------------------------
(***************************************************************************)
(* The bytes of attachments and drawings, which travel apart from the      *)
(* operations that name them: server/src/api.rs (put_blob, get_blob),      *)
(* server/src/api/ink.rs, server/src/blob_ownership.rs, and on the device  *)
(* upload_operation_blobs and download_operation_blob of src-tauri/src/    *)
(* sync.rs.                                                                *)
(*                                                                         *)
(* A device uploads what a batch names and then pushes the batch; another  *)
(* device downloads what a page names before it applies the page.  On the  *)
(* server the files belong to all users and a table says who owns what: an *)
(* upload claims a row, installs the file, and takes the row back if that  *)
(* fails.  The worker of a device and its upload at exit run beside each   *)
(* other, and devices may hold the same content.                           *)
(*                                                                         *)
(* All devices are of one user; the files of others may be there already.  *)
(***************************************************************************)
EXTENDS Naturals, Sequences, FiniteSets, SequencesExt

CONSTANTS
    Hosts,       \* the devices of the user
    Uploads,     \* the operations that name blobs
    HostOf,      \* HostOf[o]: the device that writes o
    BlobsOf,     \* BlobsOf[o]: an attachment's blob, or the graph of a drawing
    Drawings,    \* the operations that publish a drawing
    Quotas,      \* how many blobs the user may own: one of these
    MaxFailures, \* bound: failing installs and connections
    Exiting      \* bound: the devices that upload at exit

NamedBlobs == UNION {BlobsOf[o] : o \in Uploads}

ASSUME BlobsAssumption ==
    /\ HostOf \in [Uploads -> Hosts]
    /\ DOMAIN BlobsOf = Uploads
    /\ Drawings \subseteq Uploads
    /\ Exiting \subseteq Hosts
    /\ Quotas \subseteq Nat /\ MaxFailures \in Nat

VARIABLES
    installed,  \* the server's blob store
    quota,      \* how many of them the user may own
    owned,      \* blob_ownership: the rows of this user
    accepted,   \* what the server's workspace names, oldest first
    host,       \* host[d]: the replica and the blob store of a device
    pass,       \* pass[d, by]: what the worker, or the upload at exit, is doing
    failures,
    crossed     \* ghost: blobs released by one pass of a device beside another,
                \* or after all its operations that name them had been accepted

blobVars == <<installed, quota, owned, accepted, host, pass, failures, crossed>>

Passes == Hosts \X {"worker"} \union Exiting \X {"exit"}

\* queue: written here and not known to have reached the server, oldest first;
\* held: those of them that are quarantined; has: the local blob store.
NewHost == [bound |-> FALSE, queue |-> <<>>, held |-> {}, has |-> {}, cursor |-> 0]

IdlePass == [at |-> "idle", batch |-> <<>>, todo |-> <<>>, wanted |-> {}, blob |-> {},
             claimed |-> FALSE, taken |-> {}]

Resting(u) == pass[u].at = "idle"
SetPass(u, p) == pass' = [pass EXCEPT ![u] = p]
StopPass(u) == SetPass(u, IdlePass)

\* A pass that failed; failures are bounded.
MayFail == failures < MaxFailures
Fail == MayFail /\ failures' = failures + 1

BlobInit ==
    /\ installed \in SUBSET NamedBlobs
    /\ quota \in Quotas
    /\ owned = {} /\ accepted = <<>>
    /\ host = [d \in Hosts |-> NewHost]
    /\ pass = [u \in Passes |-> IdlePass]
    /\ failures = 0 /\ crossed = {}

----------------------------------------------------------------------------
(* What the server accepts *)

Fetchable(h) == h \in owned \cap installed

\* validate_operation_blobs looks for the file, ink::validate for the rows too.
Valid(o) == IF o \in Drawings THEN \A h \in BlobsOf[o] : Fetchable(h)
            ELSE BlobsOf[o] \subseteq installed

\* A row of operations without some of them.
Without(ops, gone) ==
    LET kept[i \in 0 .. Len(ops)] ==
            IF i = 0 THEN <<>>
            ELSE IF ops[i] \in gone THEN kept[i - 1] ELSE Append(kept[i - 1], ops[i])
    IN  kept[Len(ops)]

\* The log takes an operation once.
Taken(ops) == accepted \o Without(ops, ToSet(accepted))

----------------------------------------------------------------------------
(* Uploading *)

\* AttachmentAdd and InkPublish: the bytes are in the local store by then.
Attach(o) ==
    LET d == HostOf[o]
    IN  /\ o \notin ToSet(host[d].queue) \union ToSet(accepted)
        /\ host' = [host EXCEPT ![d].queue = Append(@, o), ![d].has = @ \union BlobsOf[o]]
        /\ UNCHANGED <<installed, quota, owned, accepted, pass, failures, crossed>>

Pending(d) == Without(host[d].queue, host[d].held)

\* A snapshot lists its drawings before its attachments.
SnapshotOrder(ops) == Without(ops, Uploads \ Drawings) \o Without(ops, Drawings)

\* sync_once, the drain timer of a session, or finish_before_exit; a worker
\* that is not bound and finds the server empty offers its whole workspace.
StartUpload(u) ==
    LET d == u[1]
    IN  /\ Resting(u) /\ Pending(d) # <<>>
        /\ ~host[d].bound => u[2] = "worker" /\ accepted = <<>>
        /\ SetPass(u, [IdlePass EXCEPT !.at = "upload", !.batch = Pending(d),
                        !.todo = IF host[d].bound THEN Pending(d) ELSE SnapshotOrder(Pending(d))])
        /\ UNCHANGED <<installed, quota, owned, accepted, host, failures, crossed>>

\* POST /v1/ink/missing: what the user does not own or the store does not hold.
Missing(o) == {h \in BlobsOf[o] : ~Fetchable(h)}

NextUpload(u) ==
    LET p == pass[u]
    IN  /\ p.at = "upload" /\ p.wanted = {}
        /\ SetPass(u, IF p.todo = <<>> THEN [p EXCEPT !.at = "push"]
                     ELSE LET o == Head(p.todo)
                          IN  [p EXCEPT !.todo = Tail(@), !.wanted =
                                            IF o \in Drawings THEN Missing(o) ELSE BlobsOf[o]])
        /\ UNCHANGED <<installed, quota, owned, accepted, host, failures, crossed>>

\* BlobOwnership::claim
ClaimBlob(u, h) ==
    LET p == pass[u]
    IN  /\ p.at = "upload" /\ h \in p.wanted
        /\ IF h \in owned \/ Cardinality(owned) < quota
           THEN /\ owned' = owned \union {h}
                /\ SetPass(u, [p EXCEPT !.at = "install", !.wanted = @ \ {h}, !.blob = {h},
                                       !.claimed = h \notin owned])
           ELSE owned' = owned /\ StopPass(u)
        /\ UNCHANGED <<installed, quota, accepted, host, failures, crossed>>

\* BlobStore::install_file publishes a whole verified file, or finds it there.
PublishFile(u) ==
    /\ pass[u].at = "install"
    /\ installed' = installed \union pass[u].blob
    /\ SetPass(u, [pass[u] EXCEPT !.at = "upload", !.blob = {}, !.claimed = FALSE])
    /\ UNCHANGED <<quota, owned, accepted, host, failures, crossed>>

\* Only who made the row takes it back, in a transaction of its own.
InstallFails(u) ==
    /\ pass[u].at = "install" /\ Fail
    /\ IF pass[u].claimed THEN SetPass(u, [pass[u] EXCEPT !.at = "release"]) ELSE StopPass(u)
    /\ UNCHANGED <<installed, quota, owned, accepted, host, crossed>>

Alone(u) == \A v \in Passes : v[1] = u[1] /\ v # u => Resting(v)

\* Mutant: the device goes on with its batch as if nothing had failed.
ReleaseAndGoOn(u) ==
    /\ pass[u].at = "release"
    /\ owned' = owned \ pass[u].blob
    /\ SetPass(u, [pass[u] EXCEPT !.at = "upload"])
    /\ UNCHANGED <<installed, quota, accepted, host, failures, crossed>>

\* What the next pass of a device uploads, if anything, and the part of it that
\* it will upload before an operation of its own that names it is accepted.
Owed(d) == UNION {BlobsOf[o] : o \in ToSet(Pending(d))}
Unsent(d) == UNION {BlobsOf[o] : o \in ToSet(Pending(d)) \ ToSet(accepted)}

\* The answer is an error, and the device gives its pass up.
ReleaseBlob(u) ==
    /\ pass[u].at = "release"
    /\ owned' = owned \ pass[u].blob
    /\ crossed' = IF Alone(u) /\ pass[u].blob \subseteq Unsent(u[1]) THEN crossed
                  ELSE crossed \union pass[u].blob
    /\ StopPass(u)
    /\ UNCHANGED <<installed, quota, accepted, host, failures>>

\* The connection, the device or the server goes away: a handler that was
\* installing may or may not have published the file, one that was to release
\* does not, and a row that was claimed stays.
Cut(u) ==
    /\ ~Resting(u) /\ Fail
    /\ installed' \in {installed, installed \union pass[u].blob}
    /\ pass[u].at # "install" => installed' = installed
    /\ StopPass(u)
    /\ UNCHANGED <<quota, owned, accepted, host, crossed>>

----------------------------------------------------------------------------
(* Pushing *)

WithoutOps(d, ops) == [host EXCEPT ![d].queue = Without(@, ops), ![d].held = @ \ ops]

\* POST /v1/ops judges a batch as a whole; the worker then sends its operations
\* one by one, the upload at exit gives up.
Push(u) ==
    LET p == pass[u]
        d == u[1]
    IN  /\ p.at = "push" /\ host[d].bound
        /\ IF \A o \in ToSet(p.batch) : Valid(o)
           THEN /\ accepted' = Taken(p.batch)
                /\ host' = WithoutOps(d, ToSet(p.batch))
                /\ StopPass(u)
           ELSE /\ UNCHANGED <<accepted, host>>
                /\ IF u[2] = "exit" THEN StopPass(u)
                   ELSE SetPass(u, [p EXCEPT !.at = "isolate", !.todo = p.batch])
        /\ UNCHANGED <<installed, quota, owned, failures, crossed>>

\* The answer to a push is lost.
PushUnanswered(u) ==
    LET p == pass[u]
    IN  /\ p.at = "push" /\ host[u[1]].bound /\ Fail
        /\ \A o \in ToSet(p.batch) : Valid(o)
        /\ accepted' = Taken(p.batch)
        /\ StopPass(u)
        /\ UNCHANGED <<installed, quota, owned, host, crossed>>

\* isolate_rejected_batch: what is refused (409) is held at once, what is
\* accepted is acknowledged at the end.
PushAlone(u) ==
    LET p == pass[u]
        o == Head(p.todo)
    IN  /\ p.at = "isolate" /\ p.todo # <<>>
        /\ IF Valid(o)
           THEN /\ accepted' = Taken(<<o>>)
                /\ host' = host
                /\ SetPass(u, [p EXCEPT !.todo = Tail(@), !.taken = @ \union {o}])
           ELSE /\ host' = [host EXCEPT ![u[1]].held =
                                IF o \in ToSet(host[u[1]].queue) THEN @ \union {o} ELSE @]
                /\ accepted' = accepted
                /\ SetPass(u, [p EXCEPT !.todo = Tail(@)])
        /\ UNCHANGED <<installed, quota, owned, failures, crossed>>

\* The connection breaks in between: the rest stays queued for the next pass.
IsolationBreaks(u) ==
    /\ pass[u].at = "isolate" /\ pass[u].todo # <<>> /\ Fail
    /\ SetPass(u, [pass[u] EXCEPT !.todo = <<>>])
    /\ UNCHANGED <<installed, quota, owned, accepted, host, crossed>>

Isolated(u) ==
    /\ pass[u].at = "isolate" /\ pass[u].todo = <<>>
    /\ host' = WithoutOps(u[1], pass[u].taken)
    /\ StopPass(u)
    /\ UNCHANGED <<installed, quota, owned, accepted, failures, crossed>>

\* retry_rejected_changes
RetryHeld(d) ==
    /\ host[d].held # {}
    /\ host' = [host EXCEPT ![d].held = {}]
    /\ UNCHANGED <<installed, quota, owned, accepted, pass, failures, crossed>>

----------------------------------------------------------------------------
(* Joining and downloading *)

\* POST /v1/bootstrap: refused if the server's workspace is in use by now, or
\* names a blob that is not there.
OfferWorkspace(u) ==
    LET d == u[1]
    IN  /\ pass[u].at = "push" /\ ~host[d].bound
        /\ IF accepted = <<>> /\ \A o \in ToSet(pass[u].batch) : Valid(o)
           THEN /\ accepted' = pass[u].batch
                /\ host' = [WithoutOps(d, ToSet(pass[u].batch)) EXCEPT
                              ![d].bound = TRUE, ![d].cursor = Len(pass[u].batch)]
           ELSE UNCHANGED <<accepted, host>>
        /\ StopPass(u)
        /\ UNCHANGED <<installed, quota, owned, failures, crossed>>

\* What is there already is not asked for.
MayHave(d, blobs) == \A h \in blobs \ host[d].has : Fetchable(h)

\* download_snapshot_blobs; a device with a workspace of its own does not join
\* one that is in use.
JoinWorkspace(d) ==
    LET blobs == UNION {BlobsOf[o] : o \in ToSet(accepted)}
    IN  /\ ~host[d].bound /\ host[d].queue = <<>> /\ Resting(<<d, "worker">>)
        /\ MayHave(d, blobs)
        /\ host' = [host EXCEPT ![d].bound = TRUE, ![d].cursor = Len(accepted),
                                ![d].has = @ \union blobs]
        /\ UNCHANGED <<installed, quota, owned, accepted, pass, failures, crossed>>

\* prepare_pull, then the operation itself.
PullUpload(d) ==
    LET o == accepted[host[d].cursor + 1]
    IN  /\ host[d].bound /\ Resting(<<d, "worker">>)
        /\ host[d].cursor < Len(accepted)
        /\ MayHave(d, BlobsOf[o])
        /\ host' = [WithoutOps(d, {o}) EXCEPT ![d].cursor = @ + 1, ![d].has = @ \union BlobsOf[o]]
        /\ UNCHANGED <<installed, quota, owned, accepted, pass, failures, crossed>>

BlobNext ==
    \/ \E o \in Uploads : Attach(o)
    \/ \E d \in Hosts : RetryHeld(d) \/ JoinWorkspace(d) \/ PullUpload(d)
    \/ \E u \in Passes :
        \/ StartUpload(u) \/ NextUpload(u) \/ PublishFile(u)
        \/ \E h \in NamedBlobs : ClaimBlob(u, h)
        \/ InstallFails(u) \/ ReleaseBlob(u) \/ Cut(u)
        \/ Push(u) \/ PushUnanswered(u) \/ PushAlone(u)
        \/ IsolationBreaks(u) \/ Isolated(u) \/ OfferWorkspace(u)

BlobSpec == BlobInit /\ [][BlobNext]_blobVars

----------------------------------------------------------------------------
(* What an accepted operation promises *)

\* The bytes that an accepted operation names can be downloaded, or some device
\* that has them will upload them again: two devices with the same content, a
\* file of another user, a failing install, a quota or a lost connection never
\* leave the others with an operation they cannot fetch (put_blob,
\* validate_operation_blobs, ink::validate, upload_operation_blobs).  Excepted
\* is content released beside a second pass of the device that holds it, or
\* when all its operations that name it are accepted and it does not know yet:
\* a pull then takes them out of its outbox without another upload.
FetchableOrOwed ==
    \A i \in DOMAIN accepted : \A h \in BlobsOf[accepted[i]] \ crossed :
        Fetchable(h) \/ \E d \in Hosts : h \in Owed(d)
=============================================================================
