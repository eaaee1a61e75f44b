------------------------------ MODULE Replica ------------------------------
(***************************************************************************)
(* The sync bookkeeping that every replica keeps in its own SQLite file,   *)
(* device and server alike (crates/notes-core/src/operation.rs):           *)
(* `applied_ops' with the server sequence of each operation, `sync_outbox' *)
(* with its quarantine marks, and the cursor `last_server_seq'.            *)
(*                                                                         *)
(* Each function of notes-core runs in one SQLite transaction on the one   *)
(* worker thread of its Connection, so each is a pure operator from a      *)
(* replica to a replica here, and the modules that EXTEND this one decide  *)
(* when it happens.  What an operation does to pages and blocks is left    *)
(* to another module: the only thing kept of it is whether applying it     *)
(* can fail.                                                               *)
(***************************************************************************)
EXTENDS Integers, FiniteSets

CONSTANTS
    Ops,       \* the operations that may be authored
    Needs,     \* Needs[o]: the operations whose absence makes applying o fail
               \* with NotFound (a block needs the creation of its page)
    Clashing,  \* operations that only their author's replica can apply: every
               \* other one answers Conflict (identity or kind already taken)
    BatchSize  \* operations per outbox read and per catch-up page

ASSUME OpsAssumption == IsFiniteSet(Ops)
ASSUME NeedsAssumption == Needs \in [Ops -> SUBSET Ops]
ASSUME ClashingAssumption == Clashing \subseteq Ops
ASSUME BatchSizeAssumption == BatchSize \in Nat \ {0}

\* A server-assigned position and the operation in it (SequencedOp).
SequencedOp == [seq : Nat \ {0}, op : Ops]

\* seq[o] = 0 stands for both "no row" and "seq IS NULL": `applied' tells the
\* two apart.  `held' are the outbox rows with quarantined_at set.
Replicas == [applied : SUBSET Ops, seq : [Ops -> Nat], outbox : SUBSET Ops,
             held : SUBSET Ops, cursor : Nat]

EmptyReplica == [applied |-> {}, seq |-> [o \in Ops |-> 0], outbox |-> {},
                 held |-> {}, cursor |-> 0]

OpsOf(batch) == {e.op : e \in batch}
SeqsOf(batch) == {e.seq : e \in batch}

----------------------------------------------------------------------------
(* Local authorship *)

\* apply_local_kinds_with_policy: apply, record with a NULL seq, queue.
AuthorOp(r, o) ==
    [r EXCEPT !.applied = @ \union {o}, !.outbox = @ \union {o}]

\* A local write goes through the same engine, so it fails the same way.
CanAuthor(r, o) == o \notin r.applied /\ Needs[o] \subseteq r.applied

\* pending_outbox: the rows not quarantined, first BatchSize of them in rowid
\* order.  row[o] is the order in which operations were queued.
PendingOutbox(r, row) ==
    LET queued == r.outbox \ r.held
    IN  {o \in queued :
            Cardinality({p \in queued : row[p] < row[o]}) < BatchSize}

\* quarantine_outbox_op: a no-op on a row that has left the outbox.
QuarantineOp(r, o) ==
    [r EXCEPT !.held = IF o \in r.outbox THEN @ \union {o} ELSE @]

\* release_quarantined_outbox
ReleaseQuarantined(r) == [r EXCEPT !.held = {}]

----------------------------------------------------------------------------
(* Operations that come back from the server *)

Stale(r, batch) == {e \in batch : e.seq <= r.cursor}
Fresh(r, batch) == {e \in batch : e.seq > r.cursor}

\* A sequence at or below the cursor already belongs to another operation.
SeqReassigned(r, batch) ==
    \E e \in Stale(r, batch) : \E o \in Ops : o # e.op /\ r.seq[o] = e.seq

\* The new sequences do not continue the cursor without a hole.
SeqGap(r, batch) ==
    \E e \in Fresh(r, batch) :
        \E s \in (r.cursor + 1) .. e.seq : s \notin SeqsOf(batch)

\* The operation is known under another sequence, or (unique index on
\* applied_ops.seq) the sequence under another operation.
OpReassigned(r, batch) ==
    \E e \in Fresh(r, batch) :
        \/ r.seq[e.op] \notin {0, e.seq}
        \/ \E o \in Ops : o # e.op /\ r.seq[o] = e.seq

\* An operation applied here for the first time whose application fails; the
\* operations that come earlier in the batch count as applied by then.
Before(batch, e) == {d.op : d \in {x \in batch : x.seq < e.seq}}

Failing(r, batch) ==
    {e \in Fresh(r, batch) :
        /\ e.op \notin r.applied
        /\ \/ e.op \in Clashing
           \/ ~ Needs[e.op] \subseteq (r.applied \union Before(batch, e))}

\* apply_sequenced_batch is one transaction: an error leaves no trace of it.
\* The first operation that cannot be applied decides which error it is.
ApplyFault(r, batch) ==
    LET bad == Failing(r, batch)
        first == CHOOSE e \in bad : \A d \in bad : e.seq <= d.seq
    IN  CASE \/ SeqReassigned(r, batch)
             \/ SeqGap(r, batch)
             \/ OpReassigned(r, batch) -> "conflict"
          [] bad # {} /\ first.op \in Clashing -> "conflict"
          [] bad # {} /\ first.op \notin Clashing -> "notfound"
          [] OTHER -> "none"

\* The sequence an operation of the batch ends up with.
NewSeq(r, batch, o) ==
    IF o \in OpsOf(Fresh(r, batch))
    THEN (CHOOSE e \in Fresh(r, batch) : e.op = o).seq
    ELSE r.seq[o]

\* The cursor moves one step per new operation: they are consecutive.
NewCursor(r, batch) == r.cursor + Cardinality(Fresh(r, batch))

\* ... and its effect when there is none: applied_ops, outbox and cursor move
\* together.
ApplySequencedBatch(r, batch) ==
    [applied |-> r.applied \union OpsOf(Fresh(r, batch)),
     seq     |-> [o \in Ops |-> NewSeq(r, batch, o)],
     outbox  |-> r.outbox \ OpsOf(Fresh(r, batch)),
     held    |-> r.held \ OpsOf(Fresh(r, batch)),
     cursor  |-> NewCursor(r, batch)]

\* acknowledge_server_ops: stamps the sequence and empties the outbox, and
\* leaves the cursor where it is.  It fails on the unique index alone.
AckFault(r, batch) ==
    \E e \in batch : e.op \in r.applied
                     /\ \E o \in Ops : o # e.op /\ r.seq[o] = e.seq

AckSeq(r, batch, o) ==
    IF o \in OpsOf(batch) /\ o \in r.applied
    THEN (CHOOSE e \in batch : e.op = o).seq
    ELSE r.seq[o]

\* Mutant: the cursor follows the acknowledged sequences.
AckAndAdvance(r, batch) ==
    [r EXCEPT !.seq = [o \in Ops |-> AckSeq(r, batch, o)],
              !.outbox = @ \ OpsOf(batch), !.held = @ \ OpsOf(batch),
              !.cursor = CHOOSE n \in SeqsOf(batch) \union {r.cursor} :
                             \A m \in SeqsOf(batch) \union {r.cursor} : m <= n]

\* Mutant: the acknowledgement empties the outbox.
AckEverything(r, batch) ==
    [r EXCEPT !.seq = [o \in Ops |-> AckSeq(r, batch, o)],
              !.outbox = {}, !.held = {}]

AcknowledgeServerOps(r, batch) ==
    [applied |-> r.applied,
     seq     |-> [o \in Ops |-> AckSeq(r, batch, o)],
     outbox  |-> r.outbox \ OpsOf(batch),
     held    |-> r.held \ OpsOf(batch),
     cursor  |-> r.cursor]
=============================================================================
