------------------------------ MODULE LiveSync ------------------------------
(***************************************************************************)
(* The live session: after its HTTP passes a device keeps a WebSocket open *)
(* (synchronize_session of src-tauri/src/sync.rs, websocket_session of     *)
(* server/src/api.rs).  The server sends what the device has not seen,     *)
(* then every operation that it sequences, and acknowledges the pushes the *)
(* device drains its outbox with.  All three leave through one socket, and *)
(* the operations come from a bounded broadcast channel.                   *)
(*                                                                         *)
(* A refused push starts an HTTP pass inside the session, every other      *)
(* error ends it, and the worker starts again from the HTTP passes.  The   *)
(* steps of a pass and of the server's actor are those of SyncProtocol and *)
(* SyncServer; the upload at exit and kills of the app are checked there.  *)
(***************************************************************************)
EXTENDS SyncProtocol

CONSTANTS
    BacklogSize,  \* MAX_OPS_PAGE: operations in the first message of a session
    Capacity,     \* operations the broadcast channel keeps for a subscriber
    MaxUnanswered \* bound: pushes of a session the device has no answer to

ASSUME LiveAssumption ==
    /\ BacklogSize \in Nat \ {0} /\ Capacity \in Nat \ {0}
    /\ MaxUnanswered \in Nat \ {0}

VARIABLE
    live  \* live[c]: both ends of the session of device c, volatile

liveVars == <<vars, live>>

\* phase: where synchronize_session of the device is, one of "offline", "pass",
\* "ready", "open", "resync" and "ended"; it runs a pass before it connects
\* ("pass") and within a session ("resync").  server: what the task of the
\* session does on the server, one of "off", "backlog", "serving" and
\* "ingesting".  unread (batches) and inbox (messages of kind "ops", "ack",
\* "reject" or "fail") are the two directions of
\* the socket, feed the receiver of the broadcast channel.  full: the last push of
\* a pass was as large as a push can be.  missed: ghost, the session was opened or
\* fed with a gap nobody has told the device of.
NoSession == [phase |-> "offline", server |-> "off", unread |-> <<>>,
              inbox |-> <<>>, feed |-> <<>>, lagged |-> FALSE,
              full |-> FALSE, missed |-> FALSE]

Message(kind, ops) == [kind |-> kind, ops |-> ops]
Socket(c) == <<c, "socket">>
SetLive(c, s) == live' = [live EXCEPT ![c] = s]

\* The session of device c after the message m was sent to it.
Sending(c, m) == [live[c] EXCEPT !.inbox = Append(@, m)]

LiveInit == Init /\ live = [c \in Clients |-> NoSession]

----------------------------------------------------------------------------
(* The broadcast channel *)

\* The rows the actor's batch has inserted, in the order of the log: nobody else
\* appends, so they are its last ones.
Inserted ==
    LET before == Len(oplog) - Cardinality(actor.inserted)
    IN  [k \in 1 .. Cardinality(actor.inserted) |->
            [seq |-> before + k, op |-> oplog[before + k]]]

\* Mutant: the channel is read only between two pushes.
FedBetween(s, news) ==
    IF s.server # "serving" THEN s ELSE [s EXCEPT !.feed = @ \o news]

\* A receiver that falls more than Capacity behind loses the oldest messages.
Fed(s, news) ==
    LET all == s.feed \o news
        over == Len(all) - Capacity
    IN  IF s.server = "off" THEN s
        ELSE IF over <= 0 THEN [s EXCEPT !.feed = all]
        ELSE [s EXCEPT !.feed = SubSeq(all, over + 1, Len(all)),
                       !.lagged = TRUE]

\* ingest_operations sends each inserted row once the batch is applied, and
\* stops where a snapshot fails: later rows are never sent.
Publish(news) == live' = [c \in Clients |-> Fed(live[c], news)]

PublishSome(news) ==
    \E n \in 1 .. Len(news) :
        live' = [c \in Clients |->
            LET s == Fed(live[c], SubSeq(news, 1, n))
            IN  [s EXCEPT !.missed = @ \/ (s.server # "off" /\ n < Len(news))]]

\* The sessions of a server that dies: nothing more comes through the socket.
Cut(s) == [s EXCEPT !.server = "off", !.unread = <<>>, !.feed = <<>>,
                    !.lagged = FALSE]

\* A batch that was being ingested is now in the replica.
Applied == actor.phase = "append" /\ actor'.phase = "idle" /\ up'

LiveServerStep ==
    /\ UNCHANGED clientVars
    /\ \/ ApplyIngested /\ Publish(Inserted)
       \/ SnapshotFails /\ PublishSome(Inserted)
       \/ ServerCrash /\ live' = [c \in Clients |-> Cut(live[c])]
       \/ ServerStep /\ ~Applied /\ (up => up') /\ live' = live

----------------------------------------------------------------------------
(* The session's task on the server: websocket_session *)

\* One page of what the log has beyond the cursor the device connected with.
SendBacklog(c) ==
    /\ up /\ live[c].server = "backlog"
    /\ LET page == OpsSince(rep[c].cursor, BacklogSize)
           s == [live[c] EXCEPT !.server = "serving",
                    !.missed = @ \/ rep[c].cursor + BacklogSize < Len(oplog)]
       IN  SetLive(c, IF page = {} THEN s
                      ELSE [s EXCEPT !.inbox = Append(@, Message("ops", page))])
    /\ UNCHANGED vars

\* The next push is handed to the actor; until it is answered the task does
\* nothing else.
TakePush(c) ==
    /\ up /\ live[c].server = "serving" /\ live[c].unread # <<>>
    /\ SendPush(Socket(c), Head(live[c].unread))
    /\ SetLive(c, [live[c] EXCEPT !.server = "ingesting", !.unread = Tail(@)])
    /\ UNCHANGED <<row, disk, up, actor, faults, history, clientVars>>

\* socket_rejection
KindOf(status) == CASE status = "ok" -> "ack"
                    [] status = "terminal" -> "reject"
                    [] status = "transient" -> "fail"

AnswerPush(c) ==
    LET reply == replies[Socket(c)]
    IN  /\ live[c].server = "ingesting" /\ reply.status # "none"
        /\ SetLive(c, [Sending(c, Message(KindOf(reply.status), reply.ops))
                        EXCEPT !.server = "serving"])
        /\ replies' = [replies EXCEPT ![Socket(c)] = NoReply]
        /\ UNCHANGED <<row, disk, up, actor, requests, faults, history,
                       clientVars>>

Forward(c) ==
    /\ live[c].server = "serving" /\ ~live[c].lagged /\ live[c].feed # <<>>
    /\ SetLive(c, [Sending(c, Message("ops", {Head(live[c].feed)}))
                    EXCEPT !.feed = Tail(@)])
    /\ UNCHANGED vars

\* RecvError::Lagged: the device is told to come back, and the task ends.
TellLagged(c) ==
    /\ live[c].server = "serving" /\ live[c].lagged
    /\ SetLive(c, Cut(Sending(c, Message("fail", {}))))
    /\ UNCHANGED vars

ServeSession(c) ==
    SendBacklog(c) \/ TakePush(c) \/ AnswerPush(c) \/ Forward(c) \/ TellLagged(c)

----------------------------------------------------------------------------
(* The device: synchronize_session *)

\* The session is over; what it had sent is abandoned, and the server may
\* still find any of the pushes in its socket.
EndSession(c) ==
    /\ live[c].phase = "ended"
    /\ \E n \in 0 .. Len(live[c].unread) :
        requests' = Abandoned({Socket(c)}) \union
            {[to |-> Nobody, ops |-> live[c].unread[i]] : i \in 1 .. n}
    /\ actor' = IF actor.to = Socket(c) THEN [actor EXCEPT !.to = Nobody]
                ELSE actor
    /\ replies' = [replies EXCEPT ![Socket(c)] = NoReply]
    /\ SetLive(c, NoSession)
    /\ UNCHANGED <<row, disk, up, faults, history, clientVars>>

\* Where an error leaves the worker.
Failed(s) ==
    [s EXCEPT !.phase = IF s.phase = "pass" THEN "offline" ELSE "ended"]

\* A step of a pass, before the session or in it.
PassStep(c) ==
    /\ \/ (FetchPage(c) \/ ApplyPage(c)) /\ live' = live
       \/ /\ SendOutbox(c)
          /\ SetLive(c, [live[c] EXCEPT
                !.full = Cardinality(PendingOutbox(rep[c], row)) = BatchSize])
       \/ PushRejected(c) /\ live' = live
       \/ (SendOne(c) \/ OneAccepted(c) \/ OneRejected(c)) /\ live' = live
       \/ /\ PushAccepted(c) \/ FinishIsolation(c) \/ RefusePage(c)
             \/ PushFailed(c) \/ Unreachable(c) \/ Timeout(c)
          /\ SetLive(c, IF cl'[c].stage = "idle" THEN Failed(live[c])
                        ELSE live[c])

StartSession(c) ==
    /\ live[c].phase = "offline"
    /\ StartPass(c)
    /\ SetLive(c, [live[c] EXCEPT !.phase = "pass"])

\* sync_until_idle: a pass that went well is followed by another one after a full
\* push, and then until the log has nothing more.
EndPass(c) ==
    /\ live[c].phase \in {"pass", "resync"} /\ cl[c].stage = "idle"
    /\ IF live[c].full THEN StartPass(c) /\ live' = live
       ELSE IF ~up THEN SetLive(c, Failed(live[c])) /\ UNCHANGED vars
       ELSE IF OpsSince(rep[c].cursor, 1) # {}
       THEN StartPass(c) /\ live' = live
       ELSE /\ SetLive(c, [live[c] EXCEPT
                    !.phase = IF @ = "pass" THEN "ready" ELSE "open"])
            /\ UNCHANGED vars

\* connect: the task subscribes before it reads the backlog.
Connect(c) ==
    /\ live[c].phase = "ready"
    /\ SetLive(c, IF up THEN [live[c] EXCEPT !.phase = "open",
                                             !.server = "backlog"]
                  ELSE NoSession)
    /\ UNCHANGED vars

Waiting(c) ==
    Len(live[c].unread) + (IF live[c].server = "ingesting" THEN 1 ELSE 0)
    + Cardinality({i \in DOMAIN live[c].inbox : live[c].inbox[i].kind # "ops"})

\* The 400 ms tick sends the outbox again whether or not the last push was
\* answered.
Drain(c) ==
    /\ live[c].phase = "open" /\ live[c].server # "off"
    /\ Waiting(c) < MaxUnanswered
    /\ PendingOutbox(rep[c], row) # {}
    /\ SetLive(c, [live[c] EXCEPT
                    !.unread = Append(@, PendingOutbox(rep[c], row))])
    /\ UNCHANGED vars

Received(c) == [live[c] EXCEPT !.inbox = Tail(@)]
Incoming(c) == Head(live[c].inbox)

\* handle_server_message
ReceiveOps(c) ==
    /\ live[c].phase = "open" /\ live[c].inbox # <<>> /\ Incoming(c).kind = "ops"
    /\ IF ApplyFault(rep[c], Incoming(c).ops) = "none"
       THEN /\ SetRep(c, ApplySequencedBatch(rep[c], Incoming(c).ops))
            /\ SetLive(c, Received(c))
       ELSE rep' = rep /\ SetLive(c, Failed(Received(c)))
    /\ UNCHANGED <<serverVars, cl, ex>>

ReceiveAck(c) ==
    /\ live[c].phase = "open" /\ live[c].inbox # <<>> /\ Incoming(c).kind = "ack"
    /\ IF AckFault(rep[c], Incoming(c).ops)
       THEN rep' = rep /\ SetLive(c, Failed(Received(c)))
       ELSE /\ SetRep(c, AcknowledgeServerOps(rep[c], Incoming(c).ops))
            /\ SetLive(c, Received(c))
    /\ UNCHANGED <<serverVars, cl, ex>>

\* Mutant: a refused push is only logged.
IgnoreReject(c) ==
    /\ live[c].phase = "open" /\ live[c].inbox # <<>> /\ Incoming(c).kind = "reject"
    /\ SetLive(c, Received(c))
    /\ UNCHANGED vars

\* A refused push is isolated over HTTP while the session waits.
ReceiveReject(c) ==
    /\ live[c].phase = "open" /\ live[c].inbox # <<>> /\ Incoming(c).kind = "reject"
    /\ StartPass(c)
    /\ SetLive(c, [Received(c) EXCEPT !.phase = "resync"])

ReceiveFailure(c) ==
    /\ live[c].phase = "open" /\ live[c].inbox # <<>> /\ Incoming(c).kind = "fail"
    /\ SetLive(c, Failed(Received(c)))
    /\ UNCHANGED vars

\* The end of the stream, or no answer to a ping for 45 seconds.
NoticeEnd(c) ==
    /\ live[c].phase = "open" /\ live[c].server = "off" /\ live[c].inbox = <<>>
    /\ SetLive(c, Failed(live[c]))
    /\ UNCHANGED vars

\* The connection breaks: what was on its way arrives up to some point, in
\* each direction.
LoseConnection(c) ==
    /\ live[c].server # "off"
    /\ Spend("network")
    /\ \E i \in 0 .. Len(live[c].inbox) :
        SetLive(c, [Cut(live[c]) EXCEPT
                        !.inbox = SubSeq(live[c].inbox, 1, i),
                        !.unread = live[c].unread])
    /\ UNCHANGED <<row, disk, up, actor, requests, replies, history, clientVars>>

\* A retry or changed settings drop the session wherever it is.
Restart(c) ==
    /\ live[c].phase \notin {"offline", "ended"}
    /\ Spend("retry")
    /\ SetCl(c, IdleWorker)
    /\ Abandon({Worker(c)})
    /\ SetLive(c, [live[c] EXCEPT !.phase = "ended"])
    /\ UNCHANGED <<row, disk, up, history, rep, ex>>

RunSession(c) ==
    \/ StartSession(c) \/ PassStep(c) \/ EndPass(c) \/ Connect(c) \/ Drain(c)
    \/ ReceiveOps(c) \/ ReceiveAck(c) \/ ReceiveReject(c) \/ ReceiveFailure(c)
    \/ NoticeEnd(c) \/ EndSession(c)

LiveClientStep(c) ==
    \/ (\E o \in Ops : AuthorLocal(c, o)) /\ live' = live
    \/ ReleaseHeld(c) /\ live' = live
    \/ RunSession(c)
    \/ LoseConnection(c)
    \/ Restart(c)

LiveNext ==
    \/ LiveServerStep
    \/ \E c \in Clients : ServeSession(c) \/ LiveClientStep(c)

LiveSpec == LiveInit /\ [][LiveNext]_liveVars
----------------------------------------------------------------------------
(* Fairness *)

LiveIngest ==
    /\ UNCHANGED clientVars
    /\ \/ ApplyIngested /\ Publish(Inserted)
       \/ IngestStep /\ ~Applied /\ live' = live

LiveWorker(c) ==
    \/ StartSession(c) \/ PassStep(c) \/ EndPass(c) \/ Connect(c)
    \/ NoticeEnd(c) \/ EndSession(c)

Receive(c) ==
    ReceiveOps(c) \/ ReceiveAck(c) \/ ReceiveReject(c) \/ ReceiveFailure(c)

\* That of SyncProtocol, and: each arm of the two select! loops that is ready
\* is taken in the end, and the heartbeat finds a session that is dead.
LiveFairness ==
    /\ WF_liveVars(LiveIngest)
    /\ WF_liveVars(PublishAuthored /\ UNCHANGED <<clientVars, live>>)
    /\ WF_liveVars(ServerStart /\ UNCHANGED <<clientVars, live>>)
    /\ \A k \in Callers \union {Nobody} :
        SF_liveVars(Serve(k) /\ UNCHANGED <<clientVars, live>>)
    /\ \A c \in Clients :
        /\ WF_liveVars(ServeSession(c)) /\ WF_liveVars(LiveWorker(c))
        /\ WF_liveVars(Drain(c)) /\ WF_liveVars(Receive(c))

LiveFairSpec == LiveSpec /\ LiveFairness

----------------------------------------------------------------------------
(* What the session promises *)

\* Nothing is on its way to device c.
Quiet(c) ==
    /\ up /\ actor.phase = "idle"
    /\ live[c].phase = "open" /\ live[c].server = "serving"
    /\ live[c].inbox = <<>> /\ live[c].feed = <<>> /\ ~live[c].lagged

\* A device whose session is open and silent has everything that is in the log:
\* between the backlog, the broadcast channel and the acknowledgements nothing
\* falls through, whatever their order on the socket.  Only a backlog of more
\* than one page, a snapshot that failed half way through a batch and a batch
\* that was rolled back leave a hole, which the next operation shows
\* (websocket_session, ingest_operations).
QuietSessionIsCurrent ==
    \A c \in Clients :
        Quiet(c) /\ ~live[c].missed /\ ~history.removed /\ ~history.left
            => rep[c].cursor = Len(oplog)
=============================================================================
