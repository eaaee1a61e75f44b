----------------------------- MODULE SyncServer -----------------------------
(***************************************************************************)
(* The server half of the sync: one user's oplog (oplog.db), the user's    *)
(* materialized replica (notes.db) and the actor that serialises ingestion *)
(* (server/src/state.rs, server/src/oplog.rs, POST /v1/ops of              *)
(* server/src/api.rs).                                                     *)
(*                                                                         *)
(* oplog.db and notes.db are two databases, so ingesting a batch is not    *)
(* atomic: every append is a transaction of its own, then the batch is     *)
(* applied to notes.db, and when that fails the appended tail is removed   *)
(* row by row.  Each of those steps is an action, and readers of the oplog *)
(* (GET /v1/ops does not go through the actor) may run between any two.    *)
(*                                                                         *)
(* The module has no Next of its own: SyncProtocol composes it with the    *)
(* devices.                                                                *)
(***************************************************************************)
EXTENDS Replica, Sequences

CONSTANTS
    Clients,   \* devices of the user
    Server,    \* the server as an author of operations (AI and MCP writes)
    AuthorOf,  \* AuthorOf[o]: the replica that authors o
    Refused,   \* operations POST /v1/ops answers with a terminal status before
               \* it touches the log (missing blob, incomplete ink, too large)
    FaultKinds,\* what may go wrong: any of "storage", "snapshot", "crash",
               \* "network", "kill", "exit" and "retry"
    MaxFaults  \* how many times, in one behaviour

ASSUME ServerAssumption == Server \notin Clients
ASSUME AuthorAssumption == AuthorOf \in [Ops -> Clients \union {Server}]
ASSUME RefusedAssumption ==
    Refused \subseteq {o \in Ops : AuthorOf[o] # Server}
ASSUME MaxFaultsAssumption == MaxFaults \in Nat

VARIABLES
    row,       \* row[o]: when o was queued in its author's outbox; 0: not yet
    oplog,     \* rows of oplog.db in seq order
    srv,       \* the server's own replica
    up,        \* the server process is running
    actor,     \* the user actor and the batch it is ingesting
    requests,  \* pushes that have reached the server and are not answered
    replies,   \* replies[k]: the answer waiting for caller k
    faults,    \* how many things have gone wrong
    history    \* ghost: whether an oplog row was ever removed again, and
               \* whether a failed removal ever left one behind

disk == <<oplog, srv>>
serverVars == <<row, disk, up, actor, requests, replies, faults, history>>

\* Who waits for a push: the sync worker, the exit-time upload or the live
\* session of a device.
\* Nobody waits for the server's own publications and for abandoned pushes.
Callers == Clients \X {"worker", "exit", "socket"}
Nobody == <<Server, "none">>

Requests == [to : Callers \union {Nobody}, ops : SUBSET Ops]

NoReply == [status |-> "none", ops |-> {}]
Statuses == {"none", "ok", "terminal", "transient"}
Replies == [status : Statuses, ops : SUBSET SequencedOp]

IdleActor == [phase |-> "idle", to |-> Nobody, todo |-> {}, done |-> {},
              inserted |-> {}, status |-> "none"]
Actors == [phase : {"idle", "append", "rollback"}, to : Callers \union {Nobody},
           todo : SUBSET Ops, done : SUBSET SequencedOp,
           inserted : SUBSET (Nat \ {0}), status : Statuses]

Logged == {oplog[i] : i \in DOMAIN oplog}

\* Mutant: sequences that start at zero.
OpsSinceFromZero(since, limit) ==
    {[seq |-> i - 1, op |-> oplog[i]] :
        i \in {j \in DOMAIN oplog : since < j /\ j <= since + limit}}

\* Oplog::ops_since with a limit: rows (since, since + limit].
OpsSince(since, limit) ==
    {[seq |-> i, op |-> oplog[i]] :
        i \in {j \in DOMAIN oplog : since < j /\ j <= since + limit}}

\* Mutant: a batch is worked through in any order.
AnyOf(o, S) == TRUE

\* A batch is worked through in the order its operations were queued.
IsOldest(o, S) == \A p \in S : row[o] <= row[p]

\* The answer to a caller that still waits; an abandoned one hears nothing.
Answer(to, status, ops) ==
    replies' = IF to = Nobody THEN replies
               ELSE [replies EXCEPT ![to] = [status |-> status, ops |-> ops]]

\* Mutant: every refusal is final.
AlwaysFinal(fault) == "terminal"

\* ApiError::from_domain and terminal_rejection together: 409 is final for an
\* operation, 404 and 500 are retried.
StatusOf(fault) == IF fault = "conflict" THEN "terminal" ELSE "transient"

Spend(kind) ==
    kind \in FaultKinds /\ faults < MaxFaults /\ faults' = faults + 1

----------------------------------------------------------------------------
(* Server-authored writes: UserState::write and the outbox publisher *)

NextRow == 1 + Cardinality({o \in Ops : row[o] > 0})

AuthorServer(o) ==
    /\ up
    /\ AuthorOf[o] = Server /\ row[o] = 0 /\ CanAuthor(srv, o)
    /\ srv' = AuthorOp(srv, o)
    /\ row' = [row EXCEPT ![o] = NextRow]
    /\ UNCHANGED <<oplog, up, actor, requests, replies, faults, history>>

\* publish_authored_ops: by the writer itself, by the 30 s sweep after one that
\* failed, or by both at once.
PublishAuthored ==
    /\ up
    /\ PendingOutbox(srv, row) # {}
    /\ requests' = requests \union
                    {[to |-> Nobody, ops |-> PendingOutbox(srv, row)]}
    /\ UNCHANGED <<row, disk, up, actor, replies, faults, history>>

----------------------------------------------------------------------------
(* Ingestion *)

\* push_ops: validation before the batch reaches the actor.
RefusePush(q) ==
    /\ up
    /\ q \in requests /\ q.ops \intersect Refused # {}
    /\ requests' = requests \ {q}
    /\ Answer(q.to, "terminal", {})
    /\ UNCHANGED <<row, disk, up, actor, faults, history>>

\* run_user_actor takes the next command.
StartIngest(q) ==
    /\ up
    /\ actor.phase = "idle"
    /\ q \in requests /\ q.ops \intersect Refused = {}
    /\ requests' = requests \ {q}
    /\ actor' = [IdleActor EXCEPT !.phase = "append", !.to = q.to,
                                  !.todo = q.ops]
    /\ UNCHANGED <<row, disk, up, replies, faults, history>>

\* Mutant: op_id is not looked up before a row is inserted.
NeverLogged(o) == FALSE

AlreadyLogged(o) == o \in Logged

\* Oplog::append of the next operation of the batch: a known op_id returns the
\* row it already has.
AppendNext ==
    /\ up
    /\ actor.phase = "append"
    /\ \E o \in actor.todo :
        /\ IsOldest(o, actor.todo)
        /\ IF AlreadyLogged(o)
           THEN LET i == CHOOSE j \in DOMAIN oplog : oplog[j] = o
                IN  /\ actor' = [actor EXCEPT
                            !.todo = @ \ {o},
                            !.done = @ \union {[seq |-> i, op |-> o]}]
                    /\ oplog' = oplog
           ELSE LET i == Len(oplog) + 1
                IN  /\ actor' = [actor EXCEPT
                            !.todo = @ \ {o},
                            !.done = @ \union {[seq |-> i, op |-> o]},
                            !.inserted = @ \union {i}]
                    /\ oplog' = Append(oplog, o)
    /\ UNCHANGED <<row, srv, up, requests, replies, faults, history>>

\* The whole batch is in the log and applies: the replica and its cursor move
\* in one transaction.
Materialize ==
    /\ up
    /\ actor.phase = "append" /\ actor.todo = {}
    /\ ApplyFault(srv, actor.done) = "none"
    /\ srv' = ApplySequencedBatch(srv, actor.done)
    /\ actor' = IdleActor
    /\ UNCHANGED <<row, oplog, up, requests, history>>

ApplyIngested ==
    /\ Materialize
    /\ Answer(actor.to, "ok", actor.done)
    /\ UNCHANGED faults

\* Every so many new rows a snapshot is written; when that fails the caller is
\* told that the push failed, although it is in the log and stays there.
SnapshotFails ==
    /\ Materialize
    /\ actor.inserted # {}
    /\ Spend("snapshot")
    /\ Answer(actor.to, "transient", {})

\* Mutant: a batch that does not apply is answered and left in the log.
RejectInPlace ==
    /\ up
    /\ actor.phase = "append" /\ actor.todo = {}
    /\ ApplyFault(srv, actor.done) # "none"
    /\ actor' = IdleActor
    /\ Answer(actor.to, StatusOf(ApplyFault(srv, actor.done)), {})
    /\ UNCHANGED <<row, disk, up, requests, faults, history>>

\* The batch is in the log and does not apply.
RejectIngested ==
    /\ up
    /\ actor.phase = "append" /\ actor.todo = {}
    /\ ApplyFault(srv, actor.done) # "none"
    /\ actor' = [actor EXCEPT !.phase = "rollback",
                              !.status = StatusOf(ApplyFault(srv, actor.done))]
    /\ UNCHANGED <<row, disk, up, requests, replies, faults, history>>

\* SQLite fails while a row is appended or while the batch is applied.
StorageFault ==
    /\ up
    /\ actor.phase = "append"
    /\ Spend("storage")
    /\ actor' = [actor EXCEPT !.phase = "rollback", !.status = "transient"]
    /\ UNCHANGED <<row, disk, up, requests, replies, history>>

\* Mutant: the oldest row is deleted.
WithoutOldest(log) == Tail(log)

WithoutTail(log) == SubSeq(log, 1, Len(log) - 1)

\* Oplog::remove_tail of the rows this batch inserted, newest first.
RemoveTail ==
    /\ up
    /\ actor.phase = "rollback"
    /\ Len(oplog) \in actor.inserted
    /\ oplog' = WithoutTail(oplog)
    /\ actor' = [actor EXCEPT !.inserted = @ \ {Len(oplog)}]
    /\ history' = [history EXCEPT !.removed = TRUE]
    /\ UNCHANGED <<row, srv, up, requests, replies, faults>>

\* remove_tail itself fails: the error is returned and the rows stay behind,
\* beyond the replica's cursor.
RemoveTailFails ==
    /\ up
    /\ actor.phase = "rollback" /\ actor.inserted # {}
    /\ Spend("storage")
    /\ actor' = IdleActor
    /\ Answer(actor.to, "transient", {})
    /\ history' = [history EXCEPT !.left = TRUE]
    /\ UNCHANGED <<row, disk, up, requests>>

FailIngest ==
    /\ up
    /\ actor.phase = "rollback" /\ actor.inserted = {}
    /\ actor' = IdleActor
    /\ Answer(actor.to, actor.status, {})
    /\ UNCHANGED <<row, disk, up, requests, faults, history>>

----------------------------------------------------------------------------
(* The server process *)

\* Everything that is not in one of the two databases is gone, answers that had
\* not left yet included.
ServerCrash ==
    /\ up
    /\ Spend("crash")
    /\ up' = FALSE
    /\ actor' = IdleActor
    /\ requests' = {}
    /\ \E lost \in SUBSET Callers :
        replies' = [k \in Callers |-> IF k \in lost THEN NoReply ELSE replies[k]]
    /\ UNCHANGED <<row, disk, history>>

\* replay_oplog: what oplog.db has beyond the replica's cursor.
Unreplayed == OpsSince(srv.cursor, Len(oplog))

\* UserState::open replays the log before anything is served; when that fails
\* the server does not start.
ServerStart ==
    /\ ~up
    /\ ApplyFault(srv, Unreplayed) = "none"
    /\ srv' = ApplySequencedBatch(srv, Unreplayed)
    /\ up' = TRUE
    /\ UNCHANGED <<row, oplog, actor, requests, replies, faults, history>>

ServerInit ==
    /\ row = [o \in Ops |-> 0]
    /\ oplog = <<>>
    /\ srv = EmptyReplica
    /\ up = TRUE
    /\ actor = IdleActor
    /\ requests = {}
    /\ replies = [k \in Callers |-> NoReply]
    /\ faults = 0
    /\ history = [removed |-> FALSE, left |-> FALSE]

ServerStep ==
    \/ \E o \in Ops : AuthorServer(o)
    \/ PublishAuthored
    \/ \E q \in requests : RefusePush(q) \/ StartIngest(q)
    \/ AppendNext
    \/ ApplyIngested
    \/ SnapshotFails
    \/ RejectIngested
    \/ StorageFault
    \/ RemoveTail
    \/ RemoveTailFails
    \/ FailIngest
    \/ ServerCrash
    \/ ServerStart
=============================================================================
