---------------------------- MODULE SyncProtocol ----------------------------
(***************************************************************************)
(* Devices that keep their replica in step with the server over HTTP: the  *)
(* pass SyncClient::sync_once of crates/notes-sync/src/machine.rs (catch   *)
(* up, push the outbox, isolate what the server refuses, catch up again),  *)
(* the upload at exit of src-tauri/src/sync.rs that runs beside it, local  *)
(* edits at any moment, and lost answers, killed processes and a crashing  *)
(* server.                                                                 *)
(***************************************************************************)
EXTENDS SyncServer

VARIABLES
    rep,   \* rep[c]: the replica of device c, durable
    cl,    \* cl[c]: where its sync worker is inside a pass, volatile
    ex     \* ex[c]: its exit-time upload

clientVars == <<rep, cl, ex>>
vars == <<serverVars, clientVars>>

\* page: the catch-up page being applied; batch: the operations of the push;
\* accepted: what isolation has got through, acknowledged only at its end.
Stages == {"idle", "pull1", "apply1", "push", "pushing", "isolate", "isolating",
           "pull2", "apply2"}
Workers == [stage : Stages, page : SUBSET SequencedOp, batch : SUBSET Ops,
            accepted : SUBSET SequencedOp, progressed : BOOLEAN]
IdleWorker == [stage |-> "idle", page |-> {}, batch |-> {}, accepted |-> {},
               progressed |-> FALSE]

At(stage) == [IdleWorker EXCEPT !.stage = stage]

\* A push sent by caller k; nobody listens to an answer to an abandoned one.
SendPush(k, ops) ==
    /\ requests' = requests \union {[to |-> k, ops |-> ops]}
    /\ replies' = [replies EXCEPT ![k] = NoReply]

Abandoned(callers) ==
    {IF q.to \in callers THEN [q EXCEPT !.to = Nobody] ELSE q : q \in requests}

\* The callers of one process stop waiting: their pushes go on without them.
Abandon(callers) ==
    /\ requests' = Abandoned(callers)
    /\ actor' = IF actor.to \in callers THEN [actor EXCEPT !.to = Nobody]
                ELSE actor
    /\ replies' = [k \in Callers |-> IF k \in callers THEN NoReply ELSE replies[k]]

\* The request of caller k is gone and no answer to it is coming.
Unanswered(k) ==
    /\ actor.to # k
    /\ \A q \in requests : q.to # k
    /\ replies[k].status = "none"

Worker(c) == <<c, "worker">>
Exit(c) == <<c, "exit">>

SetRep(c, r) == rep' = [rep EXCEPT ![c] = r]
SetCl(c, w) == cl' = [cl EXCEPT ![c] = w]

Init ==
    /\ ServerInit
    /\ rep = [c \in Clients |-> EmptyReplica]
    /\ cl = [c \in Clients |-> IdleWorker]
    /\ ex = [c \in Clients |-> "off"]

----------------------------------------------------------------------------
(* The user *)

AuthorLocal(c, o) ==
    /\ AuthorOf[o] = c /\ row[o] = 0 /\ CanAuthor(rep[c], o)
    /\ SetRep(c, AuthorOp(rep[c], o))
    /\ row' = [row EXCEPT ![o] = NextRow]
    /\ UNCHANGED <<disk, up, actor, requests, replies, faults, history,
                   cl, ex>>

\* The "send held changes again" command.
ReleaseHeld(c) ==
    /\ rep[c].held # {}
    /\ SetRep(c, ReleaseQuarantined(rep[c]))
    /\ UNCHANGED <<serverVars, cl, ex>>

----------------------------------------------------------------------------
(* catch_up *)

StartPass(c) ==
    /\ cl[c].stage = "idle"
    /\ SetCl(c, At("pull1"))
    /\ UNCHANGED <<serverVars, rep, ex>>

\* What follows catch_up in sync_once.
AfterPull(stage) == IF stage \in {"pull1", "apply1"} THEN At("push") ELSE IdleWorker

\* GET /v1/ops reads the oplog directly, past the actor.
FetchPage(c) ==
    /\ up
    /\ cl[c].stage \in {"pull1", "pull2"}
    /\ LET page == OpsSince(rep[c].cursor, BatchSize)
       IN  SetCl(c, IF page = {} THEN AfterPull(cl[c].stage)
                    ELSE [At(IF cl[c].stage = "pull1" THEN "apply1" ELSE "apply2")
                             EXCEPT !.page = page])
    /\ UNCHANGED <<serverVars, rep, ex>>

\* The page is applied; a full page means there may be another.
ApplyPage(c) ==
    /\ cl[c].stage \in {"apply1", "apply2"}
    /\ ApplyFault(rep[c], cl[c].page) = "none"
    /\ SetRep(c, ApplySequencedBatch(rep[c], cl[c].page))
    /\ SetCl(c, IF Cardinality(cl[c].page) < BatchSize
                THEN AfterPull(cl[c].stage)
                ELSE At(IF cl[c].stage = "apply1" THEN "pull1" ELSE "pull2"))
    /\ UNCHANGED <<serverVars, ex>>

\* The replica refuses the page and the pass ends in an error.
RefusePage(c) ==
    /\ cl[c].stage \in {"apply1", "apply2"}
    /\ ApplyFault(rep[c], cl[c].page) # "none"
    /\ SetCl(c, IdleWorker)
    /\ UNCHANGED <<serverVars, rep, ex>>

----------------------------------------------------------------------------
(* push_batch *)

SendOutbox(c) ==
    /\ up
    /\ cl[c].stage = "push"
    /\ LET batch == PendingOutbox(rep[c], row)
       IN  IF batch = {}
           THEN SetCl(c, At("pull2")) /\ UNCHANGED <<requests, replies>>
           ELSE /\ SendPush(Worker(c), batch)
                /\ SetCl(c, [At("pushing") EXCEPT !.batch = batch])
    /\ UNCHANGED <<row, disk, up, actor, faults, history, rep, ex>>

\* acknowledge_server_ops, then the second catch_up.
Acknowledge(c, ops) ==
    IF AckFault(rep[c], ops)
    THEN SetCl(c, IdleWorker) /\ rep' = rep
    ELSE SetRep(c, AcknowledgeServerOps(rep[c], ops)) /\ SetCl(c, At("pull2"))

PushAccepted(c) ==
    LET reply == replies[Worker(c)]
    IN  /\ cl[c].stage = "pushing" /\ reply.status = "ok"
        /\ Acknowledge(c, reply.ops)
        /\ replies' = [replies EXCEPT ![Worker(c)] = NoReply]
        /\ UNCHANGED <<row, disk, up, actor, requests, faults, history, ex>>

\* The server judged the batch as a whole: find out which operation it was.
PushRejected(c) ==
    /\ cl[c].stage = "pushing" /\ replies[Worker(c)].status = "terminal"
    /\ SetCl(c, [At("isolate") EXCEPT !.batch = cl[c].batch])
    /\ replies' = [replies EXCEPT ![Worker(c)] = NoReply]
    /\ UNCHANGED <<row, disk, up, actor, requests, faults, history, rep, ex>>

----------------------------------------------------------------------------
(* isolate_rejected_batch *)

SendOne(c) ==
    /\ up
    /\ cl[c].stage = "isolate"
    /\ \E o \in cl[c].batch :
        IsOldest(o, cl[c].batch) /\ SendPush(Worker(c), {o})
    /\ SetCl(c, [cl[c] EXCEPT !.stage = "isolating"])
    /\ UNCHANGED <<row, disk, up, actor, faults, history, rep, ex>>

OneAccepted(c) ==
    LET reply == replies[Worker(c)]
    IN  /\ cl[c].stage = "isolating" /\ reply.status = "ok"
        /\ \E o \in cl[c].batch :
            /\ IsOldest(o, cl[c].batch)
            /\ SetCl(c, [cl[c] EXCEPT !.stage = "isolate",
                                      !.batch = @ \ {o},
                                      !.accepted = @ \union reply.ops,
                                      !.progressed = TRUE])
        /\ replies' = [replies EXCEPT ![Worker(c)] = NoReply]
        /\ UNCHANGED <<row, disk, up, actor, requests, faults, history, rep, ex>>

OneRejected(c) ==
    /\ cl[c].stage = "isolating" /\ replies[Worker(c)].status = "terminal"
    /\ \E o \in cl[c].batch :
        /\ IsOldest(o, cl[c].batch)
        /\ SetRep(c, QuarantineOp(rep[c], o))
        /\ SetCl(c, [cl[c] EXCEPT !.stage = "isolate", !.batch = @ \ {o},
                                  !.progressed = TRUE])
    /\ replies' = [replies EXCEPT ![Worker(c)] = NoReply]
    /\ UNCHANGED <<row, disk, up, actor, requests, faults, history, ex>>

\* Every operation was tried: acknowledge the accepted ones.
FinishIsolation(c) ==
    /\ cl[c].stage = "isolate" /\ cl[c].batch = {}
    /\ Acknowledge(c, cl[c].accepted)
    /\ UNCHANGED <<serverVars, ex>>

----------------------------------------------------------------------------
(* Transient failures: 404, 5xx, no connection, a timeout *)

\* Isolation that has got anywhere keeps it and stops; anything else ends the
\* pass.
GiveUp(c) ==
    IF cl[c].stage \in {"isolate", "isolating"} /\ cl[c].progressed
    THEN Acknowledge(c, cl[c].accepted)
    ELSE SetCl(c, IdleWorker) /\ rep' = rep

PushFailed(c) ==
    /\ cl[c].stage \in {"pushing", "isolating"}
    /\ replies[Worker(c)].status = "transient"
    /\ GiveUp(c)
    /\ replies' = [replies EXCEPT ![Worker(c)] = NoReply]
    /\ UNCHANGED <<row, disk, up, actor, requests, faults, history, ex>>

\* The request died with the server, or the server cannot be reached.
Unreachable(c) ==
    /\ \/ ~up /\ cl[c].stage \in {"pull1", "pull2", "push"}
       \/ ~up /\ cl[c].stage = "isolate" /\ cl[c].batch # {}
       \/ cl[c].stage \in {"pushing", "isolating"} /\ Unanswered(Worker(c))
    /\ GiveUp(c)
    /\ UNCHANGED <<serverVars, ex>>

\* The connection breaks, before a request, while its answer is outstanding or
\* on its way, or while prepare_pull and prepare_push move the blobs the
\* operations refer to: the server goes on with a push it has.
Timeout(c) ==
    /\ cl[c].stage # "idle"
    /\ Spend("network")
    /\ GiveUp(c)
    /\ Abandon({Worker(c)})
    /\ UNCHANGED <<row, disk, up, history, ex>>

\* The app is killed: only the replica survives.
Kill(c) ==
    /\ Spend("kill")
    /\ cl[c].stage # "idle" \/ ex[c] # "off"
    /\ SetCl(c, IdleWorker)
    /\ ex' = [ex EXCEPT ![c] = "off"]
    /\ Abandon({Worker(c), Exit(c)})
    /\ UNCHANGED <<row, disk, up, history, rep>>

----------------------------------------------------------------------------
(* finish_before_exit: uploads the outbox beside the worker, then the app ends *)

StartExit(c) ==
    /\ ex[c] = "off"
    /\ Spend("exit")
    /\ ex' = [ex EXCEPT ![c] = "ready"]
    /\ UNCHANGED <<row, disk, up, actor, requests, replies, history, rep, cl>>

ExitSend(c) ==
    /\ up
    /\ ex[c] = "ready" /\ PendingOutbox(rep[c], row) # {}
    /\ SendPush(Exit(c), PendingOutbox(rep[c], row))
    /\ ex' = [ex EXCEPT ![c] = "waiting"]
    /\ UNCHANGED <<row, disk, up, actor, faults, history, rep, cl>>

ExitAccepted(c) ==
    LET reply == replies[Exit(c)]
    IN  /\ ex[c] = "waiting" /\ reply.status = "ok"
        /\ ~ AckFault(rep[c], reply.ops)
        /\ SetRep(c, AcknowledgeServerOps(rep[c], reply.ops))
        /\ ex' = [ex EXCEPT ![c] = "ready"]
        /\ replies' = [replies EXCEPT ![Exit(c)] = NoReply]
        /\ UNCHANGED <<row, disk, up, actor, requests, faults, history, cl>>

\* Done, refused, failed or out of its three seconds: the process ends.
ExitEnds(c) ==
    /\ ex[c] # "off"
    /\ ex' = [ex EXCEPT ![c] = "off"]
    /\ SetCl(c, IdleWorker)
    /\ Abandon({Worker(c), Exit(c)})
    /\ UNCHANGED <<row, disk, up, faults, history, rep>>

----------------------------------------------------------------------------

ClientStep(c) ==
    \/ \E o \in Ops : AuthorLocal(c, o)
    \/ ReleaseHeld(c)
    \/ StartPass(c) \/ FetchPage(c) \/ ApplyPage(c) \/ RefusePage(c)
    \/ SendOutbox(c) \/ PushAccepted(c) \/ PushRejected(c)
    \/ SendOne(c) \/ OneAccepted(c) \/ OneRejected(c) \/ FinishIsolation(c)
    \/ PushFailed(c) \/ Unreachable(c) \/ Timeout(c) \/ Kill(c)
    \/ StartExit(c) \/ ExitSend(c) \/ ExitAccepted(c) \/ ExitEnds(c)

Next ==
    \/ ServerStep /\ UNCHANGED clientVars
    \/ \E c \in Clients : ClientStep(c)

Spec == Init /\ [][Next]_vars

----------------------------------------------------------------------------
(* Fairness *)

IngestStep ==
    AppendNext \/ ApplyIngested \/ RejectIngested \/ RemoveTail \/ FailIngest

Serve(k) == \E q \in requests : q.to = k /\ (RefusePush(q) \/ StartIngest(q))

\* The actor never stops in the middle of a batch, commands are a FIFO channel,
\* and the process supervisor restarts a server that died.
ServerFairness ==
    /\ WF_vars(IngestStep /\ UNCHANGED clientVars)
    /\ WF_vars(PublishAuthored /\ UNCHANGED clientVars)
    /\ WF_vars(ServerStart /\ UNCHANGED clientVars)
    /\ \A k \in Callers \union {Nobody} : SF_vars(Serve(k) /\ UNCHANGED clientVars)

\* The worker loop of a device starts another pass for as long as the app runs,
\* and an exit-time upload is cut off after three seconds.
WorkerStep(c) ==
    \/ StartPass(c) \/ FetchPage(c) \/ ApplyPage(c) \/ RefusePage(c)
    \/ SendOutbox(c) \/ PushAccepted(c) \/ PushRejected(c)
    \/ SendOne(c) \/ OneAccepted(c) \/ OneRejected(c) \/ FinishIsolation(c)
    \/ PushFailed(c) \/ Unreachable(c)

FairSpec ==
    /\ Spec
    /\ ServerFairness
    /\ \A c \in Clients : WF_vars(WorkerStep(c)) /\ WF_vars(ExitEnds(c))

----------------------------------------------------------------------------
(* What the protocol promises *)

\* Every variable holds what the code keeps in it.
TypeOK ==
    /\ row \in [Ops -> Nat]
    /\ oplog \in Seq(Ops)
    /\ srv \in Replicas
    /\ up \in BOOLEAN
    /\ actor \in Actors
    /\ requests \subseteq Requests
    /\ replies \in [Callers -> Replies]
    /\ faults \in 0 .. MaxFaults
    /\ history \in [removed : BOOLEAN, left : BOOLEAN]
    /\ rep \in [Clients -> Replicas]
    /\ cl \in [Clients -> Workers]
    /\ ex \in [Clients -> {"off", "ready", "waiting"}]

\* Every sequence a replica has noted is the one the log gives that operation.
Numbered(log, r) ==
    \A o \in Ops : r.seq[o] # 0 => r.seq[o] \in DOMAIN log /\ log[r.seq[o]] = o

\* The cursor covers a prefix of the log, all of it applied and numbered.
CaughtUp(log, r) ==
    /\ r.cursor <= Len(log)
    /\ \A i \in 1 .. r.cursor : log[i] \in r.applied /\ r.seq[log[i]] = i

Agrees(log, r) == Numbered(log, r) /\ CaughtUp(log, r)

\* Every device holds the log's operation at every sequence up to its cursor
\* and knows no operation under a sequence the log does not give it, however
\* pages, acknowledgements and echoes of its own pushes were interleaved
\* (apply_sequenced_batch, acknowledge_server_ops, Oplog::ops_since).
SequencesAgree == \A c \in Clients : Agrees(oplog, rep[c])

\* SequencesAgree for as long as ingest_operations has not taken a row back out
\* of the log with remove_tail, through crashes, lost answers and kills.
SequencesAgreeIfAppendOnly == history.removed \/ SequencesAgree

OutboxOf(a) == IF a = Server THEN srv.outbox ELSE rep[a].outbox

\* An operation somebody authored is in the log or still in its author's outbox
\* (sync_outbox, quarantined or not): no acknowledgement, echo, crash or kill
\* takes it out of the outbox before the log has it.
NoLostOps ==
    \A o \in Ops : row[o] > 0 => o \in Logged \union OutboxOf(AuthorOf[o])

\* NoLostOps for as long as remove_tail has not run.
NoLostOpsIfAppendOnly == history.removed \/ NoLostOps

\* Between two batches the server's replica is the log plus its own unpublished
\* writes and nothing else, after rollbacks and restarts too: the rows that
\* audit_unpublished_ops counts do not exist.  Only a rollback that failed
\* itself can leave rows behind.
ServerMaterializesLog ==
    actor.phase = "idle" /\ up /\ ~history.left =>
        /\ srv.cursor = Len(oplog)
        /\ srv.applied = Logged \union srv.outbox

\* In the part of the log the server has applied, an operation comes after
\* everything it needs, and nothing is in the log twice: neither retries nor
\* isolation nor concurrent publishers reorder or repeat it (Oplog::append).
\* Once remove_tail has run, a device may have built on a server write it read
\* from the rows that were taken back: the server has that write in its own
\* outbox and accepts the operation, however late the write gets its row.
CausalLog ==
    \A i \in DOMAIN oplog :
        /\ \A j \in DOMAIN oplog : oplog[i] = oplog[j] => i = j
        /\ i <= srv.cursor =>
            \A p \in Needs[oplog[i]] :
                \/ \E j \in 1 .. (i - 1) : oplog[j] = p
                \/ /\ history.removed
                   /\ AuthorOf[p] = Server /\ AuthorOf[oplog[i]] # Server

\* Operations the server can accept, everything they need included.
Unacceptable == Refused \union Clashing
Sound(o) == ({o} \union Needs[o]) \intersect Unacceptable = {}

\* One device's operations enter the log in the order they were made; only one
\* the server will not take is overtaken (pending_outbox, isolate_rejected_batch).
AuthorOrder ==
    history.removed \/
    \A i \in DOMAIN oplog, o \in Ops :
        /\ AuthorOf[o] = AuthorOf[oplog[i]]
        /\ row[o] > 0 /\ row[o] < row[oplog[i]]
        /\ Sound(o)
        => \E j \in 1 .. (i - 1) : oplog[j] = o

\* Isolation holds back only what the server will not take: a dropped
\* connection, a storage error or a missing dependency quarantines nothing
\* (terminal_rejection, isolate_rejected_batch).
HeldAreUnacceptable ==
    history.left \/ \A c \in Clients : rep[c].held \subseteq Unacceptable

\* Rows of the log that the server's replica has applied stay where they are:
\* remove_tail only reaches rows of the batch it rolls back.
CommittedRowsStay ==
    [][/\ Len(oplog') >= srv.cursor
       /\ \A i \in 1 .. srv.cursor : oplog'[i] = oplog[i]]_vars

\* Without a rollback the protocol is a shared log: appending to oplog.db
\* sequences an operation and a page moves one device's position.
Abstract == INSTANCE SharedLog WITH
    Op <- Ops, Reader <- Clients,
    written <- {o \in Ops : row[o] > 0},
    log <- oplog,
    position <- [c \in Clients |-> rep[c].cursor]

ImplementsSharedLog == Abstract!Spec

\* Every operation the server can accept reaches the log and from there every
\* device, once the faults of the behaviour are over: nothing in the same
\* outbox holds it up (isolate_rejected_batch).
SoundOpsArrive ==
    \A o \in Ops : Sound(o) =>
        (row[o] > 0 ~> (o \in Logged /\ \A c \in Clients : o \in rep[c].applied))
=============================================================================
