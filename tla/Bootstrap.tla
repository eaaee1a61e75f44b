------------------------------ MODULE Bootstrap ------------------------------
(***************************************************************************)
(* How a replica and a server first agree on a common baseline             *)
(* (initialize_replica of src-tauri/src/sync.rs, import_sync_snapshot and  *)
(* bind_sync_workspace of crates/notes-core/src/operation.rs,              *)
(* bootstrap_replica of server/src/state.rs).                              *)
(*                                                                         *)
(* One attempt reads the server's snapshot, captures the local state,      *)
(* decides, moves blobs, imports on one side or the other, asks the server *)
(* for its identity again and binds the cursor.  Each of those is a step:  *)
(* the user edits, other devices sync and attempts of other devices run    *)
(* between any two, and an attempt may end after any of them (a lost       *)
(* connection, a retry, the app is killed).                                *)
(*                                                                         *)
(* What a replica contains is the set of the edits it shows.  How bound    *)
(* devices exchange operations is the business of SyncProtocol: here a     *)
(* push and a pull are one step each.                                      *)
(***************************************************************************)
EXTENDS Integers, Sequences, FiniteSets

CONSTANTS
    Machines,
    Server,
    Edits,      \* the operations users make
    EditorOf,   \* EditorOf[e]: the device on which e is made
    NoSpace,    \* not a workspace
    MaxMoves    \* bound: times a device is told another address of the server

ASSUME BootstrapAssumption ==
    /\ Server \notin Machines
    /\ NoSpace \notin Machines \union {Server}
    /\ EditorOf \in [Edits -> Machines]
    /\ IsFiniteSet(Edits)
    /\ MaxMoves \in Nat

VARIABLES
    dev,      \* dev[d]: the replica of device d, durable
    srv,      \* the server's replica and oplog, durable
    attempt,  \* attempt[d]: initialize_replica on device d, volatile
    made,     \* made[e]: the workspace e was made in; NoSpace: not yet
    moves,    \* how many addresses have changed
    again     \* ghost: devices that went through the choice with the identity
              \* of the server already adopted

bootVars == <<dev, srv, attempt, made, moves, again>>

\* Every replica starts with an identity of its own, called by its name.
Spaces == Machines \union {Server}

Replicas == [space : Spaces, shown : SUBSET Edits, queued : SUBSET Edits,
             configured : BOOLEAN, bound : Spaces \union {NoSpace}, cursor : Nat]
Servers == [space : Spaces, base : SUBSET Edits, log : Seq(Edits)]
Snapshots == [space : Spaces, shown : SUBSET Edits, seq : Nat]
AttemptStages == {"idle", "capture", "choose", "bootstrap", "import", "compare",
           "check", "bind", "conflict"}
Attempts == [stage : AttemptStages, remote : Snapshots, local : SUBSET Edits,
             pending : SUBSET Edits]

Logged == {srv.log[i] : i \in DOMAIN srv.log}
ServerShows == srv.base \union Logged
Upto(n) == {srv.log[i] : i \in 1 .. n}

\* export_sync_snapshot on the server, through its actor.
ServerSnapshot ==
    [space |-> srv.space, shown |-> ServerShows, seq |-> Len(srv.log)]

NoAttempt == [stage |-> "idle",
              remote |-> [space |-> Server, shown |-> {}, seq |-> 0],
              local |-> {}, pending |-> {}]

BootInit ==
    /\ dev = [d \in Machines |->
                [space |-> d, shown |-> {}, queued |-> {}, configured |-> FALSE,
                 bound |-> NoSpace, cursor |-> 0]]
    /\ srv = [space |-> Server, base |-> {}, log |-> <<>>]
    /\ attempt = [d \in Machines |-> NoAttempt]
    /\ made = [e \in Edits |-> NoSpace]
    /\ moves = 0
    /\ again = {}

Set(d, r) == dev' = [dev EXCEPT ![d] = r]
Goto(d, stage) == attempt' = [attempt EXCEPT ![d].stage = stage]

----------------------------------------------------------------------------
(* The user *)

\* A write is queued for the server only on a replica that has been told of one
\* (publishes_authored_ops).
Edited(r, e) ==
    [r EXCEPT !.shown = @ \union {e},
              !.queued = IF r.configured THEN @ \union {e} ELSE @]

MakeEdit(e) ==
    LET d == EditorOf[e]
    IN  /\ made[e] = NoSpace
        /\ made' = [made EXCEPT ![e] = dev[d].space]
        /\ Set(d, Edited(dev[d], e))
        /\ UNCHANGED <<srv, attempt, moves, again>>

\* configure_sync when the worker starts with an address it did not have: an
\* older binding is forgotten, whatever runs is restarted.
Configure(d) ==
    /\ dev[d].configured => moves < MaxMoves
    /\ moves' = IF dev[d].configured THEN moves + 1 ELSE moves
    /\ Set(d, [dev[d] EXCEPT !.configured = TRUE, !.bound = NoSpace])
    /\ attempt' = [attempt EXCEPT ![d] = NoAttempt]
    /\ UNCHANGED <<srv, made, again>>

----------------------------------------------------------------------------
(* initialize_replica *)

\* A replica that is bound only checks that all three identities are the same.
CheckBinding(d) ==
    /\ attempt[d].stage = "idle" /\ dev[d].configured
    /\ dev[d].bound # NoSpace
    /\ dev[d].bound # dev[d].space \/ dev[d].bound # srv.space
    /\ Goto(d, "conflict")
    /\ UNCHANGED <<dev, srv, made, moves, again>>

FetchSnapshot(d) ==
    /\ attempt[d].stage = "idle" /\ dev[d].configured
    /\ dev[d].bound = NoSpace
    /\ attempt' = [attempt EXCEPT ![d] = [NoAttempt EXCEPT
                        !.stage = "capture", !.remote = ServerSnapshot]]
    /\ again' = IF dev[d].space # d THEN again \union {d} ELSE again
    /\ UNCHANGED <<dev, srv, made, moves>>

\* capture_local_sync_state: the outbox is the same before and after.
Capture(d) ==
    /\ attempt[d].stage = "capture"
    /\ attempt' = [attempt EXCEPT
            ![d].stage = "choose",
            ![d].local = dev[d].shown, ![d].pending = dev[d].queued]
    /\ UNCHANGED <<dev, srv, made, moves, again>>

\* outbox_explains_snapshot_difference
OutboxExplains(a) ==
    /\ a.pending # {}
    /\ a.remote.shown \union a.pending = a.local

\* The four cases; a workspace of another identity, or with differences the
\* outbox does not explain, parks the worker.
Choose(d) ==
    LET a == attempt[d]
        same == /\ dev[d].space = a.remote.space
                /\ a.local = a.remote.shown \/ OutboxExplains(a)
    IN  /\ a.stage = "choose"
        /\ Goto(d, CASE a.remote.shown = {} /\ a.local # {} -> "bootstrap"
                     [] a.local = {}                        -> "import"
                     [] a.remote.shown # {} /\ a.local # {} ->
                            IF same THEN "check" ELSE "conflict")
        /\ UNCHANGED <<dev, srv, made, moves, again>>

\* bootstrap_replica: refused once the server's workspace is in use.
ServerIsEmpty == srv.log = <<>> /\ srv.base = {}

\* Mutant: the rows are taken over, the identity is not.
AdoptRows(d) ==
    /\ attempt[d].stage = "bootstrap" /\ ServerIsEmpty
    /\ srv' = [srv EXCEPT !.base = attempt[d].local]
    /\ Goto(d, "check")
    /\ UNCHANGED <<dev, made, moves, again>>

\* POST /v1/bootstrap: the server adopts the device's captured workspace.
BootstrapServer(d) ==
    /\ attempt[d].stage = "bootstrap"
    /\ IF ServerIsEmpty
       THEN /\ srv' = [space |-> dev[d].space, base |-> attempt[d].local,
                       log |-> <<>>]
            /\ Goto(d, "check")
       ELSE srv' = srv /\ Goto(d, "idle")
    /\ UNCHANGED <<dev, made, moves, again>>

\* The rows, the outbox and the cursor of replica r are those of a snapshot.
Imported(r, snapshot) ==
    [r EXCEPT !.space = snapshot.space, !.shown = snapshot.shown,
              !.queued = {}, !.cursor = snapshot.seq]

\* Mutant: a different non-empty workspace is replaced.
ImportAnything(d) ==
    /\ attempt[d].stage = "import"
    /\ Set(d, Imported(dev[d], attempt[d].remote))
    /\ Goto(d, "check")
    /\ UNCHANGED <<srv, made, moves, again>>

\* import_sync_snapshot on the device: one transaction, unless it would replace
\* the data of another workspace.
ImportSnapshot(d) ==
    LET snapshot == attempt[d].remote
    IN  /\ attempt[d].stage = "import"
        /\ IF dev[d].space # snapshot.space /\ dev[d].shown # {}
           THEN dev' = dev /\ Goto(d, "idle")
           ELSE Set(d, Imported(dev[d], snapshot)) /\ Goto(d, "check")
        /\ UNCHANGED <<srv, made, moves, again>>

\* The server is asked for its identity once more.
CheckIdentity(d) ==
    /\ attempt[d].stage = "check"
    /\ Goto(d, IF dev[d].space = srv.space THEN "bind" ELSE "conflict")
    /\ UNCHANGED <<dev, srv, made, moves, again>>

\* Mutant: the cursor is taken from the server when the binding is made.
BindAtEnd(d) ==
    /\ attempt[d].stage = "bind"
    /\ Set(d, [dev[d] EXCEPT !.bound = dev[d].space, !.cursor = Len(srv.log)])
    /\ attempt' = [attempt EXCEPT ![d] = NoAttempt]
    /\ UNCHANGED <<srv, made, moves, again>>

\* bind_sync_workspace: the cursor of the snapshot the decision was about.
Bind(d) ==
    /\ attempt[d].stage = "bind"
    /\ Set(d, [dev[d] EXCEPT !.bound = dev[d].space,
                             !.cursor = attempt[d].remote.seq])
    /\ attempt' = [attempt EXCEPT ![d] = NoAttempt]
    /\ UNCHANGED <<srv, made, moves, again>>

\* An error, a retry or the end of the process; the parked worker starts again
\* when the user asks for it.
EndAttempt(d) ==
    /\ attempt[d].stage # "idle"
    /\ attempt' = [attempt EXCEPT ![d] = NoAttempt]
    /\ UNCHANGED <<dev, srv, made, moves, again>>

----------------------------------------------------------------------------
(* Bound devices *)

Joined(d) ==
    /\ attempt[d].stage = "idle" /\ dev[d].configured
    /\ dev[d].bound = dev[d].space /\ dev[d].bound = srv.space

\* The oldest queued operation, or any of them: their order does not matter here.
PushEdit(d) ==
    /\ Joined(d)
    /\ \E e \in dev[d].queued :
        /\ srv' = IF e \in Logged THEN srv
                  ELSE [srv EXCEPT !.log = Append(@, e)]
        /\ Set(d, [dev[d] EXCEPT !.queued = @ \ {e}])
    /\ UNCHANGED <<attempt, made, moves, again>>

PullEdits(d) ==
    /\ Joined(d)
    /\ dev[d].cursor < Len(srv.log)
    /\ LET news == {srv.log[i] : i \in (dev[d].cursor + 1) .. Len(srv.log)}
       IN  Set(d, [dev[d] EXCEPT !.shown = @ \union news,
                    !.queued = @ \ news, !.cursor = Len(srv.log)])
    /\ UNCHANGED <<srv, attempt, made, moves, again>>

BootStep(d) ==
    \/ Configure(d) \/ CheckBinding(d) \/ FetchSnapshot(d) \/ Capture(d)
    \/ Choose(d) \/ BootstrapServer(d) \/ ImportSnapshot(d) \/ CheckIdentity(d)
    \/ Bind(d) \/ EndAttempt(d) \/ PushEdit(d) \/ PullEdits(d)

BootNext == (\E e \in Edits : MakeEdit(e)) \/ \E d \in Machines : BootStep(d)

BootSpec == BootInit /\ [][BootNext]_bootVars

----------------------------------------------------------------------------
(* What binding promises *)

BootTypeOK ==
    /\ dev \in [Machines -> Replicas]
    /\ srv \in Servers
    /\ attempt \in [Machines -> Attempts]
    /\ made \in [Edits -> Spaces \union {NoSpace}]
    /\ moves \in 0 .. MaxMoves
    /\ again \subseteq Machines

\* What a bound device will still be sent: the rest of the log and what some
\* outbox holds for it.
Coming(d) ==
    {srv.log[i] : i \in (dev[d].cursor + 1) .. Len(srv.log)}
        \union UNION {dev[c].queued : c \in Machines}

\* A device that is bound shows the server's baseline and every operation up to
\* its cursor, or will be sent it, and nothing besides what the server has and
\* what it still has to send: whatever happened between the snapshot, the
\* capture, the import and the binding (initialize_replica,
\* bind_sync_workspace).
BaselineHolds ==
    \A d \in Machines : Joined(d) =>
        /\ dev[d].cursor <= Len(srv.log)
        /\ srv.base \union Upto(dev[d].cursor) \subseteq
                dev[d].shown \union Coming(d)
        /\ dev[d].shown \subseteq ServerShows \union dev[d].queued

\* No replica and no log ever holds an edit that was made in a workspace other
\* than its own: identities are adopted, never merged (import_sync_snapshot,
\* bootstrap_replica).
OneWorkspace ==
    /\ \A d \in Machines : \A e \in dev[d].shown : made[e] = dev[d].space
    /\ \A e \in ServerShows : made[e] = srv.space

\* What a user has made is on the device or on the server: choosing between two
\* workspaces never drops an edit, also one made while it goes on.
EditsSurvive ==
    \A e \in Edits : made[e] # NoSpace =>
        e \in dev[EditorOf[e]].shown \union ServerShows

\* EditsSurvive on devices that have gone through the choice as themselves only:
\* not after an attempt that ended between import and binding, and not after the
\* server's address changed.
EditsSurviveFirstChoice ==
    \A e \in Edits : made[e] # NoSpace /\ EditorOf[e] \notin again =>
        e \in dev[EditorOf[e]].shown \union ServerShows
=============================================================================
