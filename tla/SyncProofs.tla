----------------------------- MODULE SyncProofs -----------------------------
(***************************************************************************)
(* Safety of SyncProtocol for every number of devices and operations, every *)
(* dependency relation, batch size and budget of faults.  It begins with   *)
(* what the operators of Replica return, and that applying a page or an    *)
(* acknowledgement read from a log keeps a replica in agreement with it.   *)
(***************************************************************************)
EXTENDS SyncProtocol, FiniteSetTheorems, SequenceTheorems, WellFoundedInduction,
        TLAPS, Induction

----------------------------------------------------------------------------
(* The operators of Replica return replicas *)

\* Queueing a local operation leaves a replica.
LEMMA AuthorOpType ==
    ASSUME NEW r \in Replicas, NEW o \in Ops PROVE AuthorOp(r, o) \in Replicas
  BY DEF AuthorOp, Replicas

\* So does quarantine_outbox_op.
LEMMA QuarantineOpType ==
    ASSUME NEW r \in Replicas, NEW o \in Ops PROVE QuarantineOp(r, o) \in Replicas
  BY DEF QuarantineOp, Replicas

\* So does release_quarantined_outbox.
LEMMA ReleaseQuarantinedType ==
    ASSUME NEW r \in Replicas PROVE ReleaseQuarantined(r) \in Replicas
  BY DEF ReleaseQuarantined, Replicas

\* pending_outbox returns operations.
LEMMA PendingOutboxType ==
    ASSUME NEW r \in Replicas, NEW rows
    PROVE  PendingOutbox(r, rows) \in SUBSET Ops
  BY DEF PendingOutbox, Replicas

\* The new part of a finite batch is finite and names operations.
LEMMA FreshType ==
    ASSUME NEW r \in Replicas, NEW b \in SUBSET SequencedOp, IsFiniteSet(b)
    PROVE  /\ Fresh(r, b) \in SUBSET SequencedOp
           /\ IsFiniteSet(Fresh(r, b))
           /\ OpsOf(Fresh(r, b)) \subseteq Ops
           /\ Cardinality(Fresh(r, b)) \in Nat
  <1>1. Fresh(r, b) \in SUBSET b BY DEF Fresh
  <1>2. IsFiniteSet(Fresh(r, b)) BY <1>1, FS_Subset
  <1>3. Cardinality(Fresh(r, b)) \in Nat BY <1>2, FS_CardinalityType
  <1> QED BY <1>1, <1>2, <1>3 DEF OpsOf, SequencedOp

\* apply_sequenced_batch leaves a replica.
LEMMA ApplySequencedBatchType ==
    ASSUME NEW r \in Replicas, NEW b \in SUBSET SequencedOp, IsFiniteSet(b)
    PROVE  ApplySequencedBatch(r, b) \in Replicas
  <1>1. \A o \in Ops : NewSeq(r, b, o) \in Nat
    <2> TAKE o \in Ops
    <2>1. CASE o \in OpsOf(Fresh(r, b))
      <3>1. \E e \in Fresh(r, b) : e.op = o BY <2>1 DEF OpsOf
      <3>2. (CHOOSE e \in Fresh(r, b) : e.op = o) \in Fresh(r, b) BY <3>1
      <3> QED BY <2>1, <3>2, FreshType DEF NewSeq, SequencedOp
    <2>2. CASE o \notin OpsOf(Fresh(r, b)) BY <2>2 DEF NewSeq, Replicas
    <2> QED BY <2>1, <2>2
  <1>2. NewCursor(r, b) \in Nat BY FreshType DEF NewCursor, Replicas
  <1> QED BY <1>1, <1>2, FreshType DEF ApplySequencedBatch, Replicas

\* acknowledge_server_ops leaves a replica.
LEMMA AcknowledgeServerOpsType ==
    ASSUME NEW r \in Replicas, NEW b \in SUBSET SequencedOp
    PROVE  AcknowledgeServerOps(r, b) \in Replicas
  <1>1. \A o \in Ops : AckSeq(r, b, o) \in Nat
    <2> TAKE o \in Ops
    <2>1. CASE o \in OpsOf(b)
      <3>1. \E e \in b : e.op = o BY <2>1 DEF OpsOf
      <3>2. (CHOOSE e \in b : e.op = o) \in b BY <3>1
      <3>3. (CHOOSE e \in b : e.op = o).seq \in Nat BY <3>2 DEF SequencedOp
      <3> QED BY <3>3 DEF AckSeq, Replicas
    <2>2. CASE o \notin OpsOf(b) BY <2>2 DEF AckSeq, Replicas
    <2> QED BY <2>1, <2>2
  <1> QED BY <1>1 DEF AcknowledgeServerOps, Replicas

----------------------------------------------------------------------------
(* What is read from the log *)

\* Each pair of the batch is a row of the log.
BackedBy(log, b) == \A e \in b : e.seq \in DOMAIN log /\ log[e.seq] = e.op

\* A page of Oplog::ops_since is a finite set of rows of the log.
LEMMA OpsSinceRows ==
    ASSUME oplog \in Seq(Ops), NEW since \in Nat, NEW limit \in Nat
    PROVE  /\ OpsSince(since, limit) \in SUBSET SequencedOp
           /\ IsFiniteSet(OpsSince(since, limit))
           /\ BackedBy(oplog, OpsSince(since, limit))
  <1> DEFINE D == {j \in DOMAIN oplog : since < j /\ j <= since + limit}
             f == [i \in D |-> [seq |-> i, op |-> oplog[i]]]
  <1>1. D \in SUBSET (1 .. Len(oplog)) /\ Len(oplog) \in Nat BY LenProperties
  <1>2. IsFiniteSet(D) BY <1>1, FS_Interval, FS_Subset
  <1>3. OpsSince(since, limit) = {[seq |-> i, op |-> oplog[i]] : i \in D}
    BY DEF OpsSince
  <1>4. f \in Surjection(D, OpsSince(since, limit)) BY <1>3 DEF Surjection
  <1>5. IsFiniteSet(OpsSince(since, limit)) BY <1>2, <1>4, FS_Surjection
  <1>6. \A i \in D : i \in Nat \ {0} /\ oplog[i] \in Ops BY <1>1, ElementOfSeq
  <1> QED BY <1>3, <1>5, <1>6 DEF SequencedOp, BackedBy

----------------------------------------------------------------------------
(* Agreement with the log *)

Injective(log) == \A i, j \in DOMAIN log : log[i] = log[j] => i = j

\* The new sequences of a batch without a hole are the ones that follow the
\* cursor, as many as there are new operations.
LEMMA FreshIsInterval ==
    ASSUME NEW log \in Seq(Ops), NEW r \in Replicas,
           NEW b \in SUBSET SequencedOp, IsFiniteSet(b),
           BackedBy(log, b), r.cursor <= Len(log), ~ SeqGap(r, b)
    PROVE  /\ SeqsOf(Fresh(r, b)) = (r.cursor + 1) .. NewCursor(r, b)
           /\ NewCursor(r, b) \in Nat
           /\ r.cursor <= NewCursor(r, b)
           /\ NewCursor(r, b) <= Len(log)
  <1> DEFINE F == Fresh(r, b)
             S == SeqsOf(F)
             U == {n \in Nat : n > r.cursor /\ n \notin S}
             number == [e \in F |-> e.seq]
  <1>1. r.cursor \in Nat /\ Len(log) \in Nat /\ DOMAIN log = 1 .. Len(log)
    BY LenProperties DEF Replicas
  <1>2. \A s \in S : s \in Nat /\ r.cursor < s /\ s <= Len(log)
    BY <1>1 DEF SeqsOf, Fresh, BackedBy, SequencedOp
  <1>3. \A s \in S : \A n \in (r.cursor + 1) .. s : n \in S
    BY <1>1 DEF SeqGap, SeqsOf, Fresh
  <1>4. PICK u \in U : \A n \in U : ~ (n < u)
    <2>1. Len(log) + 1 \in U BY <1>1, <1>2
    <2>2. PICK u \in U : \A n \in U : <<n, u>> \notin OpToRel(<, Nat)
      <3> HIDE DEF U
      <3>1. U \subseteq Nat BY DEF U
      <3> QED BY <2>1, <3>1, NatLessThanWellFounded, WFMin
    <2>3. \A n \in Nat : n < u => <<n, u>> \in OpToRel(<, Nat) BY DEF OpToRel
    <2> QED BY <2>2, <2>3
  <1>5. u \in Nat /\ u > r.cursor /\ u \notin S BY DEF U
  <1>6. \A n \in (r.cursor + 1) .. (u - 1) : n \in S BY <1>1, <1>4, <1>5
  <1>7. \A s \in S : s < u
    BY <1>1, <1>2, <1>3, <1>5
  <1>8. S = (r.cursor + 1) .. (u - 1)
    <2>1. \A n \in S : n \in (r.cursor + 1) .. (u - 1) BY <1>1, <1>2, <1>5, <1>7
    <2> HIDE DEF S
    <2> QED BY <1>6, <2>1
  <1>9. Cardinality(F) = Cardinality(S)
    <2>1. \A d, e \in F : d.seq = e.seq => d = e
      BY DEF Fresh, BackedBy, SequencedOp
    <2>2. number \in Bijection(F, S)
      BY <2>1 DEF SeqsOf, Bijection, Injection, Surjection, IsInjective
    <2>3. ExistsBijection(F, S) BY <2>2 DEF ExistsBijection
    <2> HIDE DEF F, S
    <2> QED BY <2>3, FreshType, FS_Bijection DEF F
  <1>10. Cardinality(S) = u - 1 - r.cursor
    <2> DEFINE lo == r.cursor + 1
               hi == u - 1
    <2>1. lo \in Int /\ hi \in Int /\ lo <= hi + 1 BY <1>1, <1>5
    <2>2. Cardinality(S) = Cardinality(lo .. hi) BY <1>8, Zenon
    <2>3. hi - lo + 1 = u - 1 - r.cursor BY <1>1, <1>5
    <2> HIDE DEF lo, hi
    <2>4. Cardinality(lo .. hi) = hi - lo + 1 BY <2>1, FS_Interval
    <2> QED BY <2>2, <2>3, <2>4
  <1>11. NewCursor(r, b) = u - 1 BY <1>1, <1>5, <1>9, <1>10 DEF NewCursor
  <1>12. u - 1 <= Len(log)
    <2>1. CASE u - 1 = r.cursor BY <2>1
    <2>2. CASE u - 1 # r.cursor BY <1>1, <1>2, <1>5, <1>6, <2>2
    <2> QED BY <2>1, <2>2
  <1> QED BY <1>1, <1>5, <1>8, <1>11, <1>12

\* A page of the log leaves the replica in agreement with it.
LEMMA ApplyAgrees ==
    ASSUME NEW log \in Seq(Ops), Injective(log), NEW r \in Replicas, Agrees(log, r),
           NEW b \in SUBSET SequencedOp, IsFiniteSet(b), BackedBy(log, b),
           ApplyFault(r, b) = "none"
    PROVE  Agrees(log, ApplySequencedBatch(r, b))
  <1> DEFINE q == ApplySequencedBatch(r, b)
  <1>1. ~ SeqGap(r, b) BY DEF ApplyFault
  <1>2. r.cursor \in Nat /\ Len(log) \in Nat /\ DOMAIN log = 1 .. Len(log)
    BY LenProperties DEF Replicas
  <1>3. /\ SeqsOf(Fresh(r, b)) = (r.cursor + 1) .. q.cursor
        /\ q.cursor \in Nat
        /\ q.cursor <= Len(log)
    BY <1>1, FreshIsInterval DEF Agrees, CaughtUp, ApplySequencedBatch
  <1>4. \A o \in OpsOf(Fresh(r, b)) :
           NewSeq(r, b, o) \in DOMAIN log /\ log[NewSeq(r, b, o)] = o
    <2> TAKE o \in OpsOf(Fresh(r, b))
    <2>1. \E e \in Fresh(r, b) : e.op = o BY DEF OpsOf
    <2> DEFINE d == CHOOSE e \in Fresh(r, b) : e.op = o
    <2>2. d \in Fresh(r, b) /\ d.op = o BY <2>1
    <2>3. d \in b BY <2>2 DEF Fresh
    <2> QED BY <2>2, <2>3 DEF NewSeq, BackedBy
  <1>5. Numbered(log, q)
    <2> SUFFICES ASSUME NEW o \in Ops, q.seq[o] # 0
                 PROVE  q.seq[o] \in DOMAIN log /\ log[q.seq[o]] = o
      BY DEF Numbered
    <2>1. q.seq[o] = NewSeq(r, b, o) BY DEF ApplySequencedBatch
    <2>2. CASE o \in OpsOf(Fresh(r, b)) BY <1>4, <2>1, <2>2
    <2>3. CASE o \notin OpsOf(Fresh(r, b))
      BY <2>1, <2>3 DEF NewSeq, Agrees, Numbered
    <2> QED BY <2>2, <2>3
  <1>6. ASSUME NEW i \in 1 .. q.cursor PROVE log[i] \in q.applied /\ q.seq[log[i]] = i
    <2>1. i \in DOMAIN log /\ log[i] \in Ops BY <1>2, <1>3, ElementOfSeq
    <2>2. q.seq[log[i]] = NewSeq(r, b, log[i]) BY <2>1 DEF ApplySequencedBatch
    <2>3. q.applied = r.applied \union OpsOf(Fresh(r, b)) BY DEF ApplySequencedBatch
    <2>4. CASE log[i] \in OpsOf(Fresh(r, b))
      BY <1>4, <2>1, <2>2, <2>3, <2>4 DEF Injective
    <2>5. CASE log[i] \notin OpsOf(Fresh(r, b))
      <3>1. i \notin SeqsOf(Fresh(r, b))
        BY <2>5 DEF SeqsOf, OpsOf, Fresh, BackedBy
      <3>2. i \in 1 .. r.cursor BY <1>2, <1>3, <3>1
      <3> QED BY <2>2, <2>3, <2>5, <3>2 DEF NewSeq, Agrees, CaughtUp
    <2> QED BY <2>4, <2>5
  <1> QED BY <1>3, <1>5, <1>6 DEF Agrees, CaughtUp

\* So does an acknowledgement, wherever in the log its operations are.
LEMMA AcknowledgeAgrees ==
    ASSUME NEW log \in Seq(Ops), Injective(log), NEW r \in Replicas, Agrees(log, r),
           NEW b \in SUBSET SequencedOp, BackedBy(log, b)
    PROVE  Agrees(log, AcknowledgeServerOps(r, b))
  <1> DEFINE q == AcknowledgeServerOps(r, b)
  <1>1. \A o \in OpsOf(b) : (CHOOSE e \in b : e.op = o) \in b
                            /\ (CHOOSE e \in b : e.op = o).op = o
    BY DEF OpsOf
  <1>2. \A o \in Ops : \/ AckSeq(r, b, o) = r.seq[o]
                       \/ /\ AckSeq(r, b, o) \in DOMAIN log
                          /\ log[AckSeq(r, b, o)] = o
    BY <1>1 DEF AckSeq, BackedBy
  <1>3. \A o \in Ops : q.seq[o] = AckSeq(r, b, o) BY DEF AcknowledgeServerOps
  <1>4. Numbered(log, q) BY <1>2, <1>3 DEF Agrees, Numbered
  <1>5. q.cursor = r.cursor /\ q.applied = r.applied BY DEF AcknowledgeServerOps
  <1>6. r.cursor \in Nat /\ Len(log) \in Nat /\ DOMAIN log = 1 .. Len(log)
    BY LenProperties DEF Replicas
  <1>7. ASSUME NEW i \in 1 .. r.cursor PROVE q.seq[log[i]] = i
    <2>1. i \in DOMAIN log BY <1>6 DEF Agrees, CaughtUp
    <2>2. log[i] \in Ops BY <1>6, <2>1, ElementOfSeq
    <2> QED BY <1>2, <1>3, <2>1, <2>2 DEF Agrees, CaughtUp, Injective
  <1> QED BY <1>4, <1>5, <1>7 DEF Agrees, CaughtUp
----------------------------------------------------------------------------
(* One operation of Replica at a time *)

\* q is r after one of the transactions of notes-core, or r itself.
Moves(log, r, q) ==
    \/ q = r
    \/ \E o \in Ops : q = AuthorOp(r, o) \/ q = QuarantineOp(r, o)
    \/ q = ReleaseQuarantined(r)
    \/ \E b \in SUBSET SequencedOp :
        /\ BackedBy(log, b)
        /\ \/ IsFiniteSet(b) /\ ApplyFault(r, b) = "none"
              /\ q = ApplySequencedBatch(r, b)
           \/ q = AcknowledgeServerOps(r, b)

\* Each transaction of notes-core is one of the allowed moves.
LEMMA MovesForms ==
    ASSUME NEW log, NEW r
    PROVE  /\ Moves(log, r, r)
           /\ \A o \in Ops : Moves(log, r, AuthorOp(r, o))
           /\ \A o \in Ops : Moves(log, r, QuarantineOp(r, o))
           /\ Moves(log, r, ReleaseQuarantined(r))
           /\ \A b \in SUBSET SequencedOp : BackedBy(log, b) =>
                Moves(log, r, AcknowledgeServerOps(r, b))
           /\ \A b \in SUBSET SequencedOp :
                BackedBy(log, b) /\ IsFiniteSet(b) /\ ApplyFault(r, b) = "none" =>
                Moves(log, r, ApplySequencedBatch(r, b))
  <1>1. Moves(log, r, r) BY DEF Moves
  <1>2. \A o \in Ops : Moves(log, r, AuthorOp(r, o)) BY DEF Moves
  <1>3. \A o \in Ops : Moves(log, r, QuarantineOp(r, o)) BY DEF Moves
  <1>4. Moves(log, r, ReleaseQuarantined(r)) BY DEF Moves
  <1>5. \A b \in SUBSET SequencedOp : BackedBy(log, b) =>
           Moves(log, r, AcknowledgeServerOps(r, b))
    BY DEF Moves
  <1>6. \A b \in SUBSET SequencedOp :
           BackedBy(log, b) /\ IsFiniteSet(b) /\ ApplyFault(r, b) = "none" =>
           Moves(log, r, ApplySequencedBatch(r, b))
    BY DEF Moves
  <1> QED BY <1>1, <1>2, <1>3, <1>4, <1>5, <1>6

\* A move fed with rows of the log keeps replica and log in agreement.
LEMMA MovesAgree ==
    ASSUME NEW log \in Seq(Ops), Injective(log), NEW r \in Replicas, Agrees(log, r),
           NEW q, Moves(log, r, q)
    PROVE  Agrees(log, q)
  <1>1. CASE q = r BY <1>1
  <1>2. ASSUME NEW o \in Ops, q = AuthorOp(r, o) \/ q = QuarantineOp(r, o)
        PROVE  Agrees(log, q)
    <2>1. q.seq = r.seq /\ q.cursor = r.cursor /\ r.applied \subseteq q.applied
      BY <1>2 DEF AuthorOp, QuarantineOp, Replicas
    <2> QED BY <2>1 DEF Agrees, Numbered, CaughtUp
  <1>3. CASE q = ReleaseQuarantined(r)
    <2>1. q.seq = r.seq /\ q.cursor = r.cursor /\ r.applied = q.applied
      BY <1>3 DEF ReleaseQuarantined, Replicas
    <2> QED BY <2>1 DEF Agrees, Numbered, CaughtUp
  <1>4. ASSUME NEW b \in SUBSET SequencedOp, BackedBy(log, b),
               \/ IsFiniteSet(b) /\ ApplyFault(r, b) = "none"
                  /\ q = ApplySequencedBatch(r, b)
               \/ q = AcknowledgeServerOps(r, b)
        PROVE  Agrees(log, q)
    BY <1>4, ApplyAgrees, AcknowledgeAgrees
  <1> QED BY <1>1, <1>2, <1>3, <1>4 DEF Moves

\* An operation leaves the outbox only when the log has it.
LEMMA MovesKeepOutbox ==
    ASSUME NEW log, NEW r \in Replicas, NEW q, Moves(log, r, q)
    PROVE  \A o \in r.outbox : o \in q.outbox \/ \E i \in DOMAIN log : log[i] = o
  <1>1. CASE q = r BY <1>1
  <1>2. ASSUME NEW o \in Ops, q = AuthorOp(r, o) \/ q = QuarantineOp(r, o)
        PROVE  r.outbox \subseteq q.outbox
    BY <1>2 DEF AuthorOp, QuarantineOp, Replicas
  <1>3. CASE q = ReleaseQuarantined(r) BY <1>3 DEF ReleaseQuarantined, Replicas
  <1>4. ASSUME NEW b \in SUBSET SequencedOp, BackedBy(log, b),
               q = ApplySequencedBatch(r, b) \/ q = AcknowledgeServerOps(r, b)
        PROVE  \A o \in r.outbox : o \in q.outbox \/ \E i \in DOMAIN log : log[i] = o
    <2>1. \A o \in r.outbox \ q.outbox : \E e \in b : e.op = o
      BY <1>4 DEF ApplySequencedBatch, AcknowledgeServerOps, OpsOf, Fresh
    <2> QED BY <1>4, <2>1 DEF BackedBy
  <1> QED BY <1>1, <1>2, <1>3, <1>4 DEF Moves

----------------------------------------------------------------------------
(* A log that grows *)

Grows(log, longer) ==
    longer = log \/ \E o \in Ops : longer = Append(log, o)

\* A log that grows keeps the rows and agreements it had.
LEMMA GrowsKeeps ==
    ASSUME NEW log \in Seq(Ops), NEW longer, Grows(log, longer)
    PROVE  /\ DOMAIN log \subseteq DOMAIN longer
           /\ Len(log) <= Len(longer)
           /\ \A i \in DOMAIN log : longer[i] = log[i]
           /\ \A b : BackedBy(log, b) => BackedBy(longer, b)
           /\ \A r \in Replicas : Agrees(log, r) => Agrees(longer, r)
  <1>1. longer \in Seq(Ops) BY AppendProperties DEF Grows
  <1>2. /\ Len(log) \in Nat /\ Len(longer) \in Nat
        /\ DOMAIN log = 1 .. Len(log) /\ DOMAIN longer = 1 .. Len(longer)
    BY <1>1, LenProperties
  <1>3. Len(log) <= Len(longer) /\ \A i \in 1 .. Len(log) : longer[i] = log[i]
    <2>1. CASE longer = log BY <1>2, <2>1
    <2>2. ASSUME NEW o \in Ops, longer = Append(log, o)
          PROVE  Len(log) <= Len(longer) /\ \A i \in 1 .. Len(log) : longer[i] = log[i]
      BY <1>2, <2>2, AppendProperties
    <2> QED BY <2>1, <2>2 DEF Grows
  <1>4. DOMAIN log \subseteq DOMAIN longer BY <1>2, <1>3
  <1>5. \A b : BackedBy(log, b) => BackedBy(longer, b)
    BY <1>2, <1>3, <1>4 DEF BackedBy
  <1>6. ASSUME NEW r \in Replicas, Agrees(log, r) PROVE Agrees(longer, r)
    <2>1. Numbered(longer, r) BY <1>2, <1>3, <1>4, <1>6 DEF Agrees, Numbered
    <2>2. r.cursor \in Nat /\ r.cursor <= Len(log)
      BY <1>6 DEF Replicas, Agrees, CaughtUp
    <2>3. \A i \in 1 .. r.cursor : i \in 1 .. Len(log) BY <1>2, <2>2
    <2>4. CaughtUp(longer, r) BY <1>2, <1>3, <1>6, <2>2, <2>3 DEF Agrees, CaughtUp
    <2> QED BY <2>1, <2>4 DEF Agrees
  <1> QED BY <1>2, <1>3, <1>4, <1>5, <1>6

\* Appending an operation the log lacks repeats nothing.
LEMMA AppendKeepsInjective ==
    ASSUME NEW log \in Seq(Ops), Injective(log),
           NEW o \in Ops, \A i \in DOMAIN log : log[i] # o
    PROVE  Injective(Append(log, o))
  <1> DEFINE longer == Append(log, o)
  <1>1. Len(log) \in Nat /\ DOMAIN log = 1 .. Len(log) BY LenProperties
  <1>2. /\ longer \in Seq(Ops)
        /\ Len(longer) = Len(log) + 1
        /\ \A i \in 1 .. Len(log) : longer[i] = log[i]
        /\ longer[Len(log) + 1] = o
    BY AppendProperties
  <1>3. DOMAIN longer = 1 .. (Len(log) + 1) BY <1>2, LenProperties
  <1> HIDE DEF longer
  <1>4. ASSUME NEW i \in DOMAIN longer, NEW j \in DOMAIN longer,
               longer[i] = longer[j]
        PROVE  i = j
    BY <1>1, <1>2, <1>3, <1>4 DEF Injective
  <1>5. Injective(longer) BY <1>4 DEF Injective
  <1> QED BY <1>5 DEF longer

\* Without its last row a log has the rows it had.
LEMMA FrontKeeps ==
    ASSUME NEW log \in Seq(Ops), Len(log) # 0,
           NEW front, front = SubSeq(log, 1, Len(log) - 1)
    PROVE  /\ front \in Seq(Ops) /\ Len(front) = Len(log) - 1
           /\ DOMAIN front = 1 .. (Len(log) - 1)
           /\ \A i \in 1 .. (Len(log) - 1) : front[i] = log[i]
  <1>1. Len(log) \in Nat /\ DOMAIN log = 1 .. Len(log) BY LenProperties
  <1>2. \A i \in 1 .. (Len(log) - 1) : log[i] \in Ops BY <1>1, ElementOfSeq
  <1>3. /\ front \in Seq(Ops)
        /\ Len(front) = Len(log) - 1
        /\ \A i \in 1 .. (Len(log) - 1) : front[i] = log[i]
    BY <1>1, <1>2, SubSeqProperties
  <1> QED BY <1>3, LenProperties

\* And it repeats nothing.
LEMMA FrontInjective ==
    ASSUME NEW log \in Seq(Ops), Injective(log), Len(log) # 0
    PROVE  /\ SubSeq(log, 1, Len(log) - 1) \in Seq(Ops)
           /\ Injective(SubSeq(log, 1, Len(log) - 1))
  <1>1. Len(log) \in Nat /\ DOMAIN log = 1 .. Len(log) BY LenProperties
  <1> QED BY <1>1, FrontKeeps DEF Injective

----------------------------------------------------------------------------
(* The batches under way *)

\* Batches that move a cursor are finite.
FiniteBatches ==
    /\ IsFiniteSet(actor.done)
    /\ \A c \in Clients : IsFiniteSet(cl[c].page)

----------------------------------------------------------------------------
(* Type correctness *)

\* The fault budget stays inside its bound.
LEMMA SpendType ==
    ASSUME faults \in 0 .. MaxFaults, NEW k, Spend(k)
    PROVE  faults' \in 0 .. MaxFaults
  BY MaxFaultsAssumption DEF Spend

\* The next outbox row is a positive number.
LEMMA NextRowType == NextRow \in Nat \ {0}
  <1>1. {o \in Ops : row[o] > 0} \in SUBSET Ops OBVIOUS
  <1>2. Cardinality({o \in Ops : row[o] > 0}) \in Nat
    BY <1>1, OpsAssumption, FS_Subset, FS_CardinalityType
  <1> QED BY <1>2 DEF NextRow

\* Every step of the server keeps every variable's type.
LEMMA ServerTypes ==
    ASSUME TypeOK, FiniteBatches, ServerStep, UNCHANGED clientVars
    PROVE  TypeOK'
  <1> USE DEF clientVars, disk, Requests, Replies, Statuses, Actors
  <1>1. ASSUME NEW o \in Ops, AuthorServer(o) PROVE TypeOK'
    BY <1>1, NextRowType, AuthorOpType DEF AuthorServer, TypeOK
  <1>2. CASE PublishAuthored
    BY <1>2, PendingOutboxType DEF PublishAuthored, TypeOK, Nobody
  <1>3. ASSUME NEW q \in requests, RefusePush(q) PROVE TypeOK'
    BY <1>3 DEF RefusePush, Answer, TypeOK
  <1>4. ASSUME NEW q \in requests, StartIngest(q) PROVE TypeOK'
    BY <1>4 DEF StartIngest, IdleActor, TypeOK
  <1>5. CASE AppendNext
    <2>1. DOMAIN oplog \subseteq Nat \ {0} /\ Len(oplog) + 1 \in Nat \ {0}
      BY LenProperties DEF TypeOK
    <2>2. PICK o \in actor.todo, i \in Nat \ {0} :
            \/ /\ actor' = [actor EXCEPT !.todo = @ \ {o},
                               !.done = @ \union {[seq |-> i, op |-> o]}]
               /\ oplog' = oplog
            \/ /\ actor' = [actor EXCEPT !.todo = @ \ {o},
                               !.done = @ \union {[seq |-> i, op |-> o]},
                               !.inserted = @ \union {i}]
               /\ oplog' = Append(oplog, o)
      BY <1>5, <2>1 DEF AppendNext, AlreadyLogged, Logged
    <2>3. actor \in Actors /\ oplog \in Seq(Ops) BY DEF TypeOK
    <2>4. o \in Ops BY <2>3
    <2>5. [seq |-> i, op |-> o] \in SequencedOp BY <2>4 DEF SequencedOp
    <2>6. actor' \in Actors
      <3> DEFINE item == [seq |-> i, op |-> o]
      <3>1. item \in SequencedOp BY <2>5
      <3> HIDE DEF item
      <3>2. \/ actor' = [actor EXCEPT !.todo = @ \ {o}, !.done = @ \union {item}]
            \/ actor' = [actor EXCEPT !.todo = @ \ {o}, !.done = @ \union {item},
                                     !.inserted = @ \union {i}]
        BY <2>2 DEF item
      <3>3. CASE actor' = [actor EXCEPT !.todo = @ \ {o}, !.done = @ \union {item}]
        BY <2>3, <3>1, <3>3
      <3>4. CASE actor' = [actor EXCEPT !.todo = @ \ {o}, !.done = @ \union {item},
                                        !.inserted = @ \union {i}]
        BY <2>3, <3>1, <3>4
      <3> QED BY <3>2, <3>3, <3>4
    <2>7. oplog' \in Seq(Ops) BY <2>2, <2>3, <2>4
    <2> QED BY <1>5, <2>6, <2>7 DEF AppendNext, TypeOK
  <1>6. CASE ApplyIngested
    BY <1>6, ApplySequencedBatchType
       DEF ApplyIngested, Materialize, Answer, TypeOK, IdleActor, FiniteBatches
  <1>7. CASE RejectIngested
    BY <1>7 DEF RejectIngested, StatusOf, TypeOK
  <1>8. CASE StorageFault
    BY <1>8, SpendType DEF StorageFault, TypeOK
  <1>9. CASE RemoveTail
    <2>1. oplog \in Seq(Ops) /\ Len(oplog) \in Nat BY LenProperties DEF TypeOK
    <2>2. \A i \in 1 .. (Len(oplog) - 1) : oplog[i] \in Ops BY <2>1, ElementOfSeq
    <2>3. oplog' \in Seq(Ops) BY <1>9, <2>1, <2>2, SubSeqProperties DEF RemoveTail, WithoutTail
    <2>4. actor' \in Actors BY <1>9 DEF RemoveTail, TypeOK
    <2> QED BY <1>9, <2>3, <2>4 DEF RemoveTail, TypeOK
  <1>10. CASE RemoveTailFails
    BY <1>10, SpendType DEF RemoveTailFails, Answer, TypeOK, IdleActor
  <1>11. CASE FailIngest
    BY <1>11 DEF FailIngest, Answer, TypeOK, IdleActor
  <1>12. CASE ServerCrash
    <2>1. NoReply \in Replies BY DEF NoReply
    <2>2. replies' \in [Callers -> Replies] BY <1>12, <2>1 DEF ServerCrash, TypeOK
    <2> QED BY <1>12, <2>2, SpendType DEF ServerCrash, TypeOK, IdleActor
  <1>13. CASE ServerStart
    BY <1>13, ApplySequencedBatchType, OpsSinceRows, LenProperties DEF ServerStart, Unreplayed, TypeOK, Replicas
  <1>14. CASE SnapshotFails
    BY <1>14, ApplySequencedBatchType, SpendType
       DEF SnapshotFails, Materialize, Answer, TypeOK, IdleActor, FiniteBatches
  <1> QED BY <1>1, <1>2, <1>3, <1>4, <1>5, <1>6, <1>7, <1>8, <1>9, <1>10,
             <1>11, <1>12, <1>13, <1>14 DEF ServerStep

\* A caller that stops waiting leaves typed requests and answers.
LEMMA AbandonType ==
    ASSUME TypeOK, NEW callers, Abandon(callers)
    PROVE  /\ requests' \subseteq Requests
           /\ actor' \in Actors
           /\ replies' \in [Callers -> Replies]
  <1>1. \A q \in Requests : [q EXCEPT !.to = Nobody] \in Requests BY DEF Requests
  <1>2. requests' \subseteq Requests BY <1>1 DEF Abandon, Abandoned, TypeOK
  <1>3. actor' \in Actors BY DEF Abandon, TypeOK, Actors
  <1>4. NoReply \in Replies BY DEF NoReply, Replies, Statuses
  <1> QED BY <1>2, <1>3, <1>4 DEF Abandon, TypeOK

\* The worker and the exit upload of a device are callers.
LEMMA WorkerIsCaller ==
    ASSUME NEW c \in Clients
    PROVE  Worker(c) \in Callers /\ Exit(c) \in Callers
  BY DEF Worker, Exit, Callers

\* Fresh workers and absent answers are typed.
LEMMA IdleTypes ==
    /\ IdleWorker \in Workers /\ NoReply \in Replies
    /\ \A stage \in Stages : At(stage) \in Workers
  BY DEF IdleWorker, Workers, NoReply, Replies, Statuses, At, Stages

\* So are the requests after a push was sent.
LEMMA SendPushType ==
    ASSUME TypeOK, NEW k \in Callers, NEW ops \in SUBSET Ops, SendPush(k, ops)
    PROVE  requests' \subseteq Requests /\ replies' \in [Callers -> Replies]
  BY IdleTypes DEF SendPush, TypeOK, Requests

\* And the replica and worker after an acknowledgement.
LEMMA AcknowledgeType ==
    ASSUME TypeOK, NEW c \in Clients, NEW ops \in SUBSET SequencedOp,
           Acknowledge(c, ops)
    PROVE  rep' \in [Clients -> Replicas] /\ cl' \in [Clients -> Workers]
  <1>1. At("pull2") \in Workers BY IdleTypes DEF Stages
  <1>2. rep \in [Clients -> Replicas] /\ cl \in [Clients -> Workers] BY DEF TypeOK
  <1>3. AcknowledgeServerOps(rep[c], ops) \in Replicas
    BY <1>2, AcknowledgeServerOpsType
  <1>4. CASE cl' = [cl EXCEPT ![c] = IdleWorker] /\ rep' = rep
    BY <1>2, <1>4, IdleTypes
  <1>5. CASE /\ rep' = [rep EXCEPT ![c] = AcknowledgeServerOps(rep[c], ops)]
             /\ cl' = [cl EXCEPT ![c] = At("pull2")]
    BY <1>1, <1>2, <1>3, <1>5
  <1> QED BY <1>4, <1>5 DEF Acknowledge, SetRep, SetCl

\* And those after a transient failure.
LEMMA GiveUpType ==
    ASSUME TypeOK, NEW c \in Clients, GiveUp(c)
    PROVE  rep' \in [Clients -> Replicas] /\ cl' \in [Clients -> Workers]
  <1>1. cl[c].accepted \in SUBSET SequencedOp BY DEF TypeOK, Workers
  <1>2. CASE Acknowledge(c, cl[c].accepted) BY <1>1, <1>2, AcknowledgeType
  <1>3. CASE SetCl(c, IdleWorker) /\ rep' = rep
    BY <1>3, IdleTypes DEF SetCl, TypeOK
  <1> QED BY <1>2, <1>3 DEF GiveUp

\* The forms in which a worker is left by a step.
LEMMA WorkerForms ==
    ASSUME NEW w \in Workers, NEW stage \in Stages
    PROVE  /\ [w EXCEPT !.stage = stage] \in Workers
           /\ \A page \in SUBSET SequencedOp : [At(stage) EXCEPT !.page = page] \in Workers
           /\ \A batch \in SUBSET Ops : [At(stage) EXCEPT !.batch = batch] \in Workers
           /\ \A o : [w EXCEPT !.stage = stage, !.batch = @ \ {o},
                              !.progressed = TRUE] \in Workers
           /\ \A o : \A ops \in SUBSET SequencedOp :
                 [w EXCEPT !.stage = stage, !.batch = @ \ {o},
                           !.accepted = @ \union ops, !.progressed = TRUE] \in Workers
  <1>1. At(stage) \in Workers BY IdleTypes
  <1> QED BY <1>1 DEF Workers

\* And the worker after catch_up.
LEMMA AfterPullType ==
    ASSUME NEW stage PROVE AfterPull(stage) \in Workers
  BY IdleTypes DEF AfterPull, Stages

\* Every step of a device keeps every variable's type.
LEMMA ClientTypes ==
    ASSUME TypeOK, FiniteBatches, NEW c \in Clients, ClientStep(c)
    PROVE  TypeOK'
  <1> USE IdleTypes, WorkerIsCaller DEF disk, serverVars, clientVars, SetRep, SetCl
  <1>1. ASSUME NEW o \in Ops, AuthorLocal(c, o) PROVE TypeOK'
    BY <1>1, NextRowType, AuthorOpType DEF AuthorLocal, TypeOK
  <1>2. CASE ReleaseHeld(c)
    BY <1>2, ReleaseQuarantinedType DEF ReleaseHeld, TypeOK
  <1>3. CASE StartPass(c)
    <2>1. At("pull1") \in Workers BY DEF Stages
    <2> QED BY <1>3, <2>1 DEF StartPass, TypeOK
  <1>4. CASE FetchPage(c)
    <2> DEFINE page == OpsSince(rep[c].cursor, BatchSize)
    <2>1. page \in SUBSET SequencedOp
      BY OpsSinceRows, BatchSizeAssumption DEF TypeOK, Replicas
    <2> HIDE DEF page
    <2> DEFINE w1 == [At("apply1") EXCEPT !.page = page]
               w2 == [At("apply2") EXCEPT !.page = page]
    <2>2. w1 \in Workers /\ w2 \in Workers BY <2>1, WorkerForms DEF Stages
    <2>3. \E w \in {AfterPull(cl[c].stage), w1, w2} : cl' = [cl EXCEPT ![c] = w]
      BY <1>4 DEF FetchPage, page
    <2> HIDE DEF w1, w2
    <2>4. cl' \in [Clients -> Workers] BY <2>2, <2>3, AfterPullType DEF TypeOK
    <2> QED BY <1>4, <2>4 DEF FetchPage, TypeOK
  <1>5. CASE ApplyPage(c)
    <2>1. ApplySequencedBatch(rep[c], cl[c].page) \in Replicas
      BY ApplySequencedBatchType DEF TypeOK, FiniteBatches, Workers
    <2>2. rep' \in [Clients -> Replicas] BY <1>5, <2>1 DEF ApplyPage, TypeOK
    <2>3. At("pull1") \in Workers /\ At("pull2") \in Workers BY DEF Stages
    <2>4. \E w \in {AfterPull(cl[c].stage), At("pull1"), At("pull2")} :
             cl' = [cl EXCEPT ![c] = w]
      BY <1>5 DEF ApplyPage
    <2>5. cl' \in [Clients -> Workers] BY <2>3, <2>4, AfterPullType DEF TypeOK
    <2> QED BY <1>5, <2>2, <2>5 DEF ApplyPage, TypeOK
  <1>6. CASE RefusePage(c)
    BY <1>6 DEF RefusePage, TypeOK
  <1>7. CASE SendOutbox(c)
    <2> DEFINE batch == PendingOutbox(rep[c], row)
    <2>1. batch \in SUBSET Ops BY PendingOutboxType DEF TypeOK
    <2> HIDE DEF batch
    <2> DEFINE w == [At("pushing") EXCEPT !.batch = batch]
    <2>2. w \in Workers /\ At("pull2") \in Workers BY <2>1, WorkerForms DEF Stages
    <2>3. CASE SetCl(c, At("pull2")) /\ UNCHANGED <<requests, replies>>
      BY <1>7, <2>2, <2>3 DEF SendOutbox, TypeOK
    <2>4. CASE SendPush(Worker(c), batch) /\ SetCl(c, w)
      <3> HIDE DEF w
      <3>1. requests' \subseteq Requests /\ replies' \in [Callers -> Replies]
        BY <2>1, <2>4, SendPushType
      <3> QED BY <1>7, <2>2, <2>4, <3>1 DEF SendOutbox, TypeOK
    <2> QED BY <1>7, <2>3, <2>4 DEF SendOutbox, batch
  <1>8. CASE PushAccepted(c)
    <2>1. replies[Worker(c)].ops \in SUBSET SequencedOp BY DEF TypeOK, Replies
    <2>2. rep' \in [Clients -> Replicas] /\ cl' \in [Clients -> Workers]
      BY <1>8, <2>1, AcknowledgeType DEF PushAccepted
    <2> QED BY <1>8, <2>2 DEF PushAccepted, TypeOK
  <1>9. CASE PushRejected(c)
    <2>1. cl[c].batch \in SUBSET Ops BY DEF TypeOK, Workers
    <2>2. [At("isolate") EXCEPT !.batch = cl[c].batch] \in Workers
      BY <2>1, WorkerForms DEF Stages
    <2> QED BY <1>9, <2>2 DEF PushRejected, TypeOK
  <1>10. CASE SendOne(c)
    <2>1. PICK o \in cl[c].batch : SendPush(Worker(c), {o}) BY <1>10 DEF SendOne
    <2>2. {o} \in SUBSET Ops BY DEF TypeOK, Workers
    <2>3. requests' \subseteq Requests /\ replies' \in [Callers -> Replies]
      BY <2>1, <2>2, SendPushType
    <2>4. [cl[c] EXCEPT !.stage = "isolating"] \in Workers
      BY WorkerForms DEF TypeOK, Stages
    <2> QED BY <1>10, <2>3, <2>4 DEF SendOne, TypeOK
  <1>11. CASE OneAccepted(c)
    <2> DEFINE ops == replies[Worker(c)].ops
    <2>1. ops \in SUBSET SequencedOp BY DEF TypeOK, Replies
    <2> HIDE DEF ops
    <2>2. PICK o : cl' = [cl EXCEPT ![c] =
                     [cl[c] EXCEPT !.stage = "isolate", !.batch = @ \ {o},
                                   !.accepted = @ \union ops, !.progressed = TRUE]]
      BY <1>11 DEF OneAccepted, ops
    <2> DEFINE w == [cl[c] EXCEPT !.stage = "isolate", !.batch = @ \ {o},
                                  !.accepted = @ \union ops, !.progressed = TRUE]
    <2>3. w \in Workers BY <2>1, WorkerForms DEF TypeOK, Stages
    <2> HIDE DEF w
    <2>4. cl' \in [Clients -> Workers] BY <2>2, <2>3 DEF TypeOK, w
    <2> QED BY <1>11, <2>4 DEF OneAccepted, TypeOK
  <1>12. CASE OneRejected(c)
    <2>1. PICK o \in cl[c].batch :
             /\ rep' = [rep EXCEPT ![c] = QuarantineOp(rep[c], o)]
             /\ cl' = [cl EXCEPT ![c] =
                          [cl[c] EXCEPT !.stage = "isolate", !.batch = @ \ {o},
                                        !.progressed = TRUE]]
      BY <1>12 DEF OneRejected
    <2>2. QuarantineOp(rep[c], o) \in Replicas
      BY QuarantineOpType DEF TypeOK, Workers
    <2> DEFINE w == [cl[c] EXCEPT !.stage = "isolate", !.batch = @ \ {o},
                                  !.progressed = TRUE]
    <2>3. w \in Workers BY WorkerForms DEF TypeOK, Stages
    <2> HIDE DEF w
    <2>4. cl' \in [Clients -> Workers] BY <2>1, <2>3 DEF TypeOK, w
    <2>5. rep' \in [Clients -> Replicas] BY <2>1, <2>2 DEF TypeOK
    <2> QED BY <1>12, <2>4, <2>5 DEF OneRejected, TypeOK
  <1>13. CASE FinishIsolation(c)
    <2>1. cl[c].accepted \in SUBSET SequencedOp BY DEF TypeOK, Workers
    <2>2. rep' \in [Clients -> Replicas] /\ cl' \in [Clients -> Workers]
      BY <1>13, <2>1, AcknowledgeType DEF FinishIsolation
    <2> QED BY <1>13, <2>2 DEF FinishIsolation, TypeOK
  <1>14. CASE PushFailed(c)
    BY <1>14, GiveUpType DEF PushFailed, TypeOK
  <1>15. CASE Unreachable(c)
    BY <1>15, GiveUpType DEF Unreachable, TypeOK
  <1>16. CASE Timeout(c)
    BY <1>16, GiveUpType, AbandonType, SpendType DEF Timeout, TypeOK
  <1>17. CASE Kill(c)
    BY <1>17, AbandonType, SpendType DEF Kill, TypeOK
  <1>18. CASE StartExit(c)
    BY <1>18, SpendType DEF StartExit, TypeOK
  <1>19. CASE ExitSend(c)
    BY <1>19, SendPushType, PendingOutboxType DEF ExitSend, TypeOK
  <1>20. CASE ExitAccepted(c)
    BY <1>20, AcknowledgeServerOpsType DEF ExitAccepted, TypeOK, Replies
  <1>21. CASE ExitEnds(c)
    BY <1>21, AbandonType DEF ExitEnds, TypeOK
  <1> QED BY <1>1, <1>2, <1>3, <1>4, <1>5, <1>6, <1>7, <1>8, <1>9, <1>10, <1>11,
             <1>12, <1>13, <1>14, <1>15, <1>16, <1>17, <1>18, <1>19, <1>20, <1>21
          DEF ClientStep

\* The initial state is typed.
LEMMA InitTypes ==
    ASSUME Init PROVE TypeOK /\ FiniteBatches
  <1>1. EmptyReplica \in Replicas BY DEF EmptyReplica, Replicas
  <1>2. oplog \in Seq(Ops) BY DEF Init, ServerInit
  <1>3. actor \in Actors
    BY DEF Init, ServerInit, Actors, IdleActor, Statuses
  <1>4. faults \in 0 .. MaxFaults BY MaxFaultsAssumption DEF Init, ServerInit
  <1>5. TypeOK
    BY <1>1, <1>2, <1>3, <1>4, IdleTypes DEF Init, ServerInit, TypeOK
  <1>6. IsFiniteSet({}) BY FS_EmptySet
  <1> QED BY <1>5, <1>6 DEF Init, ServerInit, FiniteBatches, IdleActor, IdleWorker

----------------------------------------------------------------------------
(* What one step does to the batches that are under way *)

\* The actor's batch starts empty and grows by rows of the log.
LEMMA ActorBatch ==
    ASSUME TypeOK, Next
    PROVE  \/ actor'.done \in {actor.done, {}}
           \/ \E e : /\ actor'.done = actor.done \union {e}
                     /\ e.seq \in DOMAIN oplog' /\ oplog'[e.seq] = e.op
  <1> USE DEF TypeOK, Actors, disk, serverVars
  <1>1. CASE AppendNext
    <2>1. PICK o \in actor.todo :
            \/ /\ AlreadyLogged(o) /\ oplog' = oplog
               /\ actor'.done = actor.done \union
                     {[seq |-> CHOOSE j \in DOMAIN oplog : oplog[j] = o, op |-> o]}
            \/ /\ oplog' = Append(oplog, o)
               /\ actor'.done = actor.done \union {[seq |-> Len(oplog) + 1, op |-> o]}
      BY <1>1 DEF AppendNext
    <2>2. o \in Ops /\ oplog \in Seq(Ops) OBVIOUS
    <2>3. ASSUME NEW i, actor'.done = actor.done \union {[seq |-> i, op |-> o]},
                 i \in DOMAIN oplog', oplog'[i] = o
          PROVE  \E e : /\ actor'.done = actor.done \union {e}
                        /\ e.seq \in DOMAIN oplog' /\ oplog'[e.seq] = e.op
      <3> DEFINE e == [seq |-> i, op |-> o]
      <3>1. e.seq = i /\ e.op = o OBVIOUS
      <3>2. actor'.done = actor.done \union {e} BY <2>3
      <3> HIDE DEF e
      <3> QED BY <2>3, <3>1, <3>2
    <2>4. CASE /\ AlreadyLogged(o) /\ oplog' = oplog
               /\ actor'.done = actor.done \union
                     {[seq |-> CHOOSE j \in DOMAIN oplog : oplog[j] = o, op |-> o]}
      <3> DEFINE i == CHOOSE j \in DOMAIN oplog : oplog[j] = o
      <3>1. i \in DOMAIN oplog /\ oplog[i] = o BY <2>4 DEF AlreadyLogged, Logged
      <3>2. actor'.done = actor.done \union {[seq |-> i, op |-> o]} BY <2>4
      <3> HIDE DEF i
      <3> QED BY <2>3, <2>4, <3>1, <3>2
    <2>5. CASE /\ oplog' = Append(oplog, o)
               /\ actor'.done = actor.done \union {[seq |-> Len(oplog) + 1, op |-> o]}
      <3>1. Len(oplog) + 1 \in DOMAIN oplog' /\ oplog'[Len(oplog) + 1] = o
        BY <2>2, <2>5, AppendProperties, LenProperties
      <3> QED BY <2>3, <2>5, <3>1
    <2> QED BY <2>1, <2>4, <2>5
  <1>2. CASE ServerStep /\ ~AppendNext
    <2> SUFFICES actor'.done \in {actor.done, {}} OBVIOUS
    <2> USE DEF IdleActor
    <2>1. ASSUME NEW o \in Ops, AuthorServer(o) PROVE actor' = actor
      BY <2>1 DEF AuthorServer
    <2>2. ASSUME NEW q \in requests, RefusePush(q) \/ StartIngest(q)
          PROVE  actor' = actor \/ actor'.done = {}
      BY <2>2 DEF RefusePush, StartIngest
    <2>3. CASE ApplyIngested \/ SnapshotFails \/ RemoveTailFails \/ FailIngest
               \/ ServerCrash
      BY <2>3 DEF ApplyIngested, SnapshotFails, Materialize, RemoveTailFails,
         FailIngest, ServerCrash
    <2>4. CASE RejectIngested BY <2>4 DEF RejectIngested
    <2>5. CASE StorageFault BY <2>5 DEF StorageFault
    <2>6. CASE RemoveTail BY <2>6 DEF RemoveTail
    <2>7. CASE PublishAuthored \/ ServerStart BY <2>7 DEF PublishAuthored, ServerStart
    <2> QED BY <1>2, <2>1, <2>2, <2>3, <2>4, <2>5, <2>6, <2>7 DEF ServerStep
  <1>3. ASSUME NEW callers, Abandon(callers) PROVE actor'.done = actor.done
    BY <1>3 DEF Abandon
  <1>4. ASSUME NEW c \in Clients, ClientStep(c) PROVE actor'.done = actor.done
    BY <1>3, <1>4 DEF ClientStep, AuthorLocal, ReleaseHeld, StartPass, FetchPage,
       ApplyPage, RefusePage, SendOutbox, PushAccepted, PushRejected, SendOne,
       OneAccepted, OneRejected, FinishIsolation, PushFailed, Unreachable, Timeout,
       Kill, StartExit, ExitSend, ExitAccepted, ExitEnds
  <1> QED BY <1>1, <1>2, <1>4 DEF Next

\* An answer carries the actor's batch or nothing.
LEMMA ReplyBatch ==
    ASSUME TypeOK, Next, NEW k \in Callers
    PROVE  replies'[k].ops \in {replies[k].ops, {}, actor.done}
  <1> USE DEF TypeOK, disk, serverVars, NoReply
  <1>1. ASSUME NEW to, NEW status, NEW ops, Answer(to, status, ops)
        PROVE  replies'[k].ops \in {replies[k].ops, ops}
    BY <1>1 DEF Answer
  <1>2. ASSUME NEW q, NEW ops, SendPush(q, ops)
        PROVE  replies'[k].ops \in {replies[k].ops, {}}
    BY <1>2 DEF SendPush
  <1>3. ASSUME NEW callers, Abandon(callers)
        PROVE  replies'[k].ops \in {replies[k].ops, {}}
    BY <1>3 DEF Abandon
  <1>4. CASE ServerStep
    <2>1. ASSUME NEW o \in Ops, AuthorServer(o) PROVE replies' = replies
      BY <2>1 DEF AuthorServer
    <2>2. ASSUME NEW q \in requests, RefusePush(q)
          PROVE  replies'[k].ops \in {replies[k].ops, {}}
      BY <1>1, <2>2 DEF RefusePush
    <2>3. ASSUME NEW q \in requests, StartIngest(q) PROVE replies' = replies
      BY <2>3 DEF StartIngest
    <2>4. CASE ApplyIngested \/ SnapshotFails
      BY <1>1, <2>4 DEF ApplyIngested, SnapshotFails
    <2>5. CASE RemoveTailFails BY <1>1, <2>5 DEF RemoveTailFails
    <2>6. CASE FailIngest BY <1>1, <2>6 DEF FailIngest
    <2>7. CASE PublishAuthored \/ AppendNext \/ RejectIngested \/ StorageFault
               \/ RemoveTail \/ ServerStart
      BY <2>7 DEF PublishAuthored, AppendNext, RejectIngested, StorageFault,
         RemoveTail, ServerStart
    <2>8. CASE ServerCrash BY <2>8 DEF ServerCrash
    <2> QED BY <1>4, <2>1, <2>2, <2>3, <2>4, <2>5, <2>6, <2>7, <2>8 DEF ServerStep
  <1>5. ASSUME NEW c \in Clients, ClientStep(c)
        PROVE  replies'[k].ops \in {replies[k].ops, {}}
    <2> DEFINE Goal == replies'[k].ops \in {replies[k].ops, {}}
    <2>1. ASSUME NEW o \in Ops, AuthorLocal(c, o) PROVE Goal
      BY <2>1 DEF AuthorLocal
    <2>2. ASSUME replies' = replies PROVE Goal BY <2>2
    <2>3. CASE ReleaseHeld(c) \/ StartPass(c) \/ FetchPage(c) \/ ApplyPage(c)
               \/ RefusePage(c) \/ FinishIsolation(c) \/ Unreachable(c) \/ StartExit(c)
      BY <2>2, <2>3 DEF ReleaseHeld, StartPass, FetchPage, ApplyPage, RefusePage,
         FinishIsolation, Unreachable, StartExit
    <2>4. ASSUME NEW j, replies' = [replies EXCEPT ![j] = NoReply] PROVE Goal
      BY <2>4
    <2>5. CASE PushAccepted(c) \/ PushRejected(c) \/ OneAccepted(c) \/ OneRejected(c)
               \/ PushFailed(c) \/ ExitAccepted(c)
      BY <2>4, <2>5 DEF PushAccepted, PushRejected, OneAccepted, OneRejected,
         PushFailed, ExitAccepted
    <2>6. CASE SendOutbox(c) \/ SendOne(c) \/ ExitSend(c)
      BY <1>2, <2>2, <2>6 DEF SendOutbox, SendOne, ExitSend
    <2>7. CASE Timeout(c) \/ Kill(c) \/ ExitEnds(c)
      BY <1>3, <2>7 DEF Timeout, Kill, ExitEnds
    <2> QED BY <1>5, <2>1, <2>3, <2>5, <2>6, <2>7 DEF ClientStep
  <1> QED BY <1>4, <1>5 DEF Next

\* A worker takes its page from the log and collects what it was answered.
LEMMA WorkerBatches ==
    ASSUME TypeOK, Next, NEW d \in Clients
    PROVE  /\ cl'[d].page \in {cl[d].page, {}, OpsSince(rep[d].cursor, BatchSize)}
           /\ cl'[d].accepted \in {cl[d].accepted, {},
                                   cl[d].accepted \union replies[Worker(d)].ops}
  <1> DEFINE Goal ==
        /\ cl'[d].page \in {cl[d].page, {}, OpsSince(rep[d].cursor, BatchSize)}
        /\ cl'[d].accepted \in {cl[d].accepted, {},
                                cl[d].accepted \union replies[Worker(d)].ops}
  <1>1. \A stage : At(stage).page = {} /\ At(stage).accepted = {}
    BY DEF At, IdleWorker
  <1>2. IdleWorker.page = {} /\ IdleWorker.accepted = {} BY DEF IdleWorker
  <1>3. cl \in [Clients -> Workers] BY DEF TypeOK
  <1>4. ASSUME NEW c \in Clients, NEW w, cl' = [cl EXCEPT ![c] = w],
               w.page \in {cl[c].page, {}, OpsSince(rep[c].cursor, BatchSize)},
               w.accepted \in {cl[c].accepted, {},
                               cl[c].accepted \union replies[Worker(c)].ops}
        PROVE  Goal
    BY <1>3, <1>4
  <1>5. ASSUME NEW c \in Clients, NEW ops, Acknowledge(c, ops) PROVE Goal
    BY <1>1, <1>2, <1>4, <1>5 DEF Acknowledge, SetCl
  <1>6. ASSUME NEW c \in Clients, GiveUp(c) PROVE Goal
    BY <1>2, <1>4, <1>5, <1>6 DEF GiveUp, SetCl
  <1>7. \A stage : AfterPull(stage).page = {} /\ AfterPull(stage).accepted = {}
    BY <1>1, <1>2 DEF AfterPull
  <1>8. CASE UNCHANGED cl BY <1>8
  <1>9. ASSUME NEW c \in Clients, ClientStep(c) PROVE Goal
    <2> USE DEF serverVars, SetCl
    <2>1. ASSUME NEW o \in Ops, AuthorLocal(c, o) PROVE Goal
      BY <1>8, <2>1 DEF AuthorLocal
    <2>2. CASE ReleaseHeld(c) \/ StartExit(c) \/ ExitSend(c) \/ ExitAccepted(c)
      BY <1>8, <2>2 DEF ReleaseHeld, StartExit, ExitSend, ExitAccepted
    <2>3. CASE StartPass(c) BY <1>1, <1>4, <2>3 DEF StartPass
    <2>4. CASE RefusePage(c) \/ Kill(c) \/ ExitEnds(c)
      BY <1>2, <1>4, <2>4 DEF RefusePage, Kill, ExitEnds
    <2>5. CASE FetchPage(c)
      <3> DEFINE page == OpsSince(rep[c].cursor, BatchSize)
                 w(stage) == [At(stage) EXCEPT !.page = page]
      <3>1. \A stage : w(stage).page = page /\ w(stage).accepted = {}
        BY DEF At, IdleWorker
      <3>2. \/ cl' = [cl EXCEPT ![c] = AfterPull(cl[c].stage)]
            \/ \E stage : cl' = [cl EXCEPT ![c] = w(stage)]
        BY <2>5 DEF FetchPage
      <3> HIDE DEF w
      <3> QED BY <1>4, <1>7, <3>1, <3>2
    <2>6. CASE ApplyPage(c)
      BY <1>1, <1>4, <1>7, <2>6 DEF ApplyPage
    <2>7. CASE SendOutbox(c)
      <3> DEFINE w(batch) == [At("pushing") EXCEPT !.batch = batch]
      <3>1. \A batch : w(batch).page = {} /\ w(batch).accepted = {}
        BY DEF At, IdleWorker
      <3>2. \/ cl' = [cl EXCEPT ![c] = At("pull2")]
            \/ \E batch : cl' = [cl EXCEPT ![c] = w(batch)]
        BY <2>7 DEF SendOutbox
      <3> HIDE DEF w
      <3> QED BY <1>1, <1>4, <3>1, <3>2
    <2>8. CASE PushAccepted(c) BY <1>5, <2>8 DEF PushAccepted
    <2>9. CASE PushRejected(c)
      <3> DEFINE w == [At("isolate") EXCEPT !.batch = cl[c].batch]
      <3>1. w.page = {} /\ w.accepted = {} BY DEF At, IdleWorker
      <3>2. cl' = [cl EXCEPT ![c] = w] BY <2>9 DEF PushRejected
      <3> HIDE DEF w
      <3> QED BY <1>4, <3>1, <3>2
    <2>10. CASE SendOne(c)
      <3> DEFINE w == [cl[c] EXCEPT !.stage = "isolating"]
      <3>1. w.page = cl[c].page /\ w.accepted = cl[c].accepted
        BY <1>3 DEF Workers
      <3>2. cl' = [cl EXCEPT ![c] = w] BY <2>10 DEF SendOne
      <3> HIDE DEF w
      <3> QED BY <1>4, <3>1, <3>2
    <2>11. CASE OneAccepted(c)
      <3> DEFINE w(o) == [cl[c] EXCEPT !.stage = "isolate", !.batch = @ \ {o},
                                       !.accepted = @ \union replies[Worker(c)].ops,
                                       !.progressed = TRUE]
      <3>1. ASSUME NEW o
            PROVE  /\ w(o).page = cl[c].page
                   /\ w(o).accepted = cl[c].accepted \union replies[Worker(c)].ops
        BY <1>3 DEF Workers
      <3>2. \E o : cl' = [cl EXCEPT ![c] = w(o)] BY <2>11 DEF OneAccepted
      <3> HIDE DEF w
      <3> QED BY <1>4, <3>1, <3>2
    <2>12. CASE OneRejected(c)
      <3> DEFINE w(o) == [cl[c] EXCEPT !.stage = "isolate", !.batch = @ \ {o},
                                       !.progressed = TRUE]
      <3>1. ASSUME NEW o
            PROVE  w(o).page = cl[c].page /\ w(o).accepted = cl[c].accepted
        BY <1>3 DEF Workers
      <3>2. \E o : cl' = [cl EXCEPT ![c] = w(o)] BY <2>12 DEF OneRejected
      <3> HIDE DEF w
      <3> QED BY <1>4, <3>1, <3>2
    <2>13. CASE FinishIsolation(c) BY <1>5, <2>13 DEF FinishIsolation
    <2>14. CASE PushFailed(c) \/ Unreachable(c) \/ Timeout(c)
      BY <1>6, <2>14 DEF PushFailed, Unreachable, Timeout
    <2> QED BY <1>9, <2>1, <2>2, <2>3, <2>4, <2>5, <2>6, <2>7, <2>8, <2>9, <2>10,
               <2>11, <2>12, <2>13, <2>14 DEF ClientStep
  <1> QED BY <1>8, <1>9 DEF Next, clientVars

\* Batches that move a cursor stay finite.
LEMMA FiniteStep ==
    ASSUME TypeOK, FiniteBatches, Next PROVE FiniteBatches'
  <1>1. IsFiniteSet({}) BY FS_EmptySet
  <1>2. IsFiniteSet(actor'.done) BY <1>1, ActorBatch, FS_AddElement DEF FiniteBatches
  <1>3. ASSUME NEW d \in Clients PROVE IsFiniteSet(cl'[d].page)
    <2>1. IsFiniteSet(OpsSince(rep[d].cursor, BatchSize))
      BY OpsSinceRows, BatchSizeAssumption DEF TypeOK, Replicas
    <2> QED BY <1>1, <2>1, WorkerBatches DEF FiniteBatches
  <1> QED BY <1>2, <1>3 DEF FiniteBatches

\* Every step keeps every variable's type.
LEMMA TypeStep ==
    ASSUME TypeOK, FiniteBatches, [Next]_vars PROVE TypeOK' /\ FiniteBatches'
  <1>1. CASE Next BY <1>1, ServerTypes, ClientTypes, FiniteStep DEF Next
  <1>2. CASE UNCHANGED vars
    BY <1>2 DEF vars, serverVars, clientVars, disk, TypeOK, FiniteBatches
  <1> QED BY <1>1, <1>2

\* Every reachable state is typed: the bookkeeping of every replica, the
\* requests and answers under way and the stages of actor and workers hold
\* what the code keeps in them.
THEOREM TypeCorrect == Spec => []TypeOK
  <1>1. Init => TypeOK /\ FiniteBatches BY InitTypes
  <1>2. TypeOK /\ FiniteBatches /\ [Next]_vars => (TypeOK /\ FiniteBatches)'
    BY TypeStep
  <1> QED BY <1>1, <1>2, PTL DEF Spec

----------------------------------------------------------------------------
(* The log *)

\* Only AppendNext and RemoveTail change the log, one row at a time.
LEMMA LogStep ==
    ASSUME TypeOK, Next
    PROVE  \/ UNCHANGED <<oplog, history.removed>>
           \/ /\ actor.phase = "append" /\ history' = history
              /\ \E o \in Ops : /\ o \in actor.todo /\ IsOldest(o, actor.todo)
                                /\ o \notin Logged /\ oplog' = Append(oplog, o)
           \/ /\ Len(oplog) # 0 /\ oplog' = SubSeq(oplog, 1, Len(oplog) - 1)
              /\ Len(oplog) \in actor.inserted
              /\ history'.removed = TRUE
  <1> USE DEF TypeOK, disk, serverVars
  <1>1. CASE AppendNext BY <1>1 DEF AppendNext, AlreadyLogged, Actors
  <1>2. CASE RemoveTail
    <2>1. actor.inserted \in SUBSET (Nat \ {0}) BY DEF Actors
    <2> QED BY <1>2, <2>1 DEF RemoveTail, WithoutTail
  <1>3. ASSUME NEW o \in Ops, AuthorServer(o)
        PROVE  UNCHANGED <<oplog, history.removed>>
    BY <1>3 DEF AuthorServer
  <1>4. ASSUME NEW q \in requests, RefusePush(q) \/ StartIngest(q)
        PROVE  UNCHANGED <<oplog, history.removed>>
    BY <1>4 DEF RefusePush, StartIngest
  <1>5. CASE PublishAuthored \/ ApplyIngested \/ SnapshotFails \/ RejectIngested
             \/ StorageFault \/ RemoveTailFails \/ FailIngest \/ ServerCrash
             \/ ServerStart
    BY <1>5 DEF PublishAuthored, ApplyIngested, SnapshotFails, Materialize,
       RejectIngested, StorageFault, RemoveTailFails, FailIngest, ServerCrash,
       ServerStart
  <1>6. ASSUME NEW c \in Clients, ClientStep(c)
        PROVE  UNCHANGED <<oplog, history.removed>>
    BY <1>6 DEF ClientStep, AuthorLocal, ReleaseHeld, StartPass, FetchPage,
       ApplyPage, RefusePage, SendOutbox, PushAccepted, PushRejected, SendOne,
       OneAccepted, OneRejected, FinishIsolation, PushFailed, Unreachable, Timeout,
       Kill, StartExit, ExitSend, ExitAccepted, ExitEnds
  <1> QED BY <1>1, <1>2, <1>3, <1>4, <1>5, <1>6 DEF Next, ServerStep

\* Oplog::append never gives one operation two rows.
LEMMA InjectiveStep ==
    ASSUME TypeOK, Injective(oplog), [Next]_vars PROVE Injective(oplog)'
  <1>1. oplog \in Seq(Ops) BY DEF TypeOK
  <1>2. CASE oplog' = oplog BY <1>2 DEF Injective
  <1>3. ASSUME NEW o \in Ops, o \notin Logged, oplog' = Append(oplog, o)
        PROVE  Injective(oplog)'
    BY <1>1, <1>3, AppendKeepsInjective DEF Logged, Injective
  <1>4. CASE Len(oplog) # 0 /\ oplog' = SubSeq(oplog, 1, Len(oplog) - 1)
    BY <1>1, <1>4, FrontInjective DEF Injective
  <1>5. CASE UNCHANGED vars BY <1>2, <1>5 DEF vars, serverVars, disk
  <1> QED BY <1>2, <1>3, <1>4, <1>5, LogStep
----------------------------------------------------------------------------
(* The inductive invariant *)

\* Every pair on its way from the server to a device is a row of the log.
InFlight ==
    /\ BackedBy(oplog, actor.done)
    /\ \A k \in Callers : BackedBy(oplog, replies[k].ops)
    /\ \A c \in Clients : BackedBy(oplog, cl[c].page) /\ BackedBy(oplog, cl[c].accepted)

AppendOnlyInv == InFlight /\ SequencesAgree /\ NoLostOps

IInv ==
    /\ TypeOK
    /\ FiniteBatches
    /\ Injective(oplog)
    /\ history.removed \/ AppendOnlyInv

\* The initial state satisfies the inductive invariant.
LEMMA InitInv == Init => IInv
  <1> SUFFICES ASSUME Init PROVE IInv OBVIOUS
  <1>1. TypeOK /\ FiniteBatches BY InitTypes
  <1>2. oplog = <<>> /\ DOMAIN oplog = {} BY DEF Init, ServerInit
  <1>3. Injective(oplog) BY <1>2 DEF Injective
  <1>4. InFlight
    BY DEF Init, ServerInit, InFlight, BackedBy, IdleActor, NoReply, IdleWorker
  <1>5. ASSUME NEW c \in Clients PROVE Agrees(oplog, rep[c])
    <2>1. rep[c] = EmptyReplica BY DEF Init
    <2>2. Numbered(oplog, rep[c]) BY <2>1 DEF Numbered, EmptyReplica
    <2>3. rep[c].cursor = 0 /\ Len(oplog) = 0 BY <1>2, <2>1 DEF EmptyReplica
    <2>4. CaughtUp(oplog, rep[c]) BY <2>3 DEF CaughtUp
    <2> QED BY <2>2, <2>4 DEF Agrees
  <1>6. NoLostOps BY DEF Init, ServerInit, NoLostOps
  <1> QED BY <1>1, <1>3, <1>4, <1>5, <1>6 DEF IInv, AppendOnlyInv, SequencesAgree

\* The batches under way stay rows of a log that grows.
LEMMA FlightStep ==
    ASSUME TypeOK, InFlight, Next, Grows(oplog, oplog')
    PROVE  InFlight'
  <1>1. oplog \in Seq(Ops) BY DEF TypeOK
  <1>2. \A b : BackedBy(oplog, b) => BackedBy(oplog', b) BY <1>1, GrowsKeeps
  <1>3. BackedBy(oplog, {}) BY DEF BackedBy
  <1>4. BackedBy(oplog', actor'.done)
    <2>1. CASE actor'.done \in {actor.done, {}} BY <1>2, <1>3, <2>1 DEF InFlight
    <2>2. ASSUME NEW e, actor'.done = actor.done \union {e},
                 e.seq \in DOMAIN oplog' /\ oplog'[e.seq] = e.op
          PROVE  BackedBy(oplog', actor'.done)
      <3>1. BackedBy(oplog', actor.done) BY <1>2 DEF InFlight
      <3> QED BY <2>2, <3>1 DEF BackedBy
    <2> QED BY <2>1, <2>2, ActorBatch
  <1>5. ASSUME NEW k \in Callers PROVE BackedBy(oplog', replies'[k].ops)
    BY <1>2, <1>3, ReplyBatch DEF InFlight
  <1>6. ASSUME NEW c \in Clients PROVE BackedBy(oplog', cl'[c].page)
    <2>1. BackedBy(oplog, OpsSince(rep[c].cursor, BatchSize))
      BY <1>1, OpsSinceRows, BatchSizeAssumption DEF TypeOK, Replicas
    <2> QED BY <1>2, <1>3, <2>1, WorkerBatches DEF InFlight
  <1>7. ASSUME NEW c \in Clients PROVE BackedBy(oplog', cl'[c].accepted)
    <2>1. BackedBy(oplog, cl[c].accepted) /\ BackedBy(oplog, replies[Worker(c)].ops)
      BY WorkerIsCaller DEF InFlight
    <2>2. BackedBy(oplog, cl[c].accepted \union replies[Worker(c)].ops)
      BY <2>1 DEF BackedBy
    <2> QED BY <1>2, <1>3, <2>1, <2>2, WorkerBatches
  <1> QED BY <1>4, <1>5, <1>6, <1>7 DEF InFlight

\* Every replica moves by one transaction of notes-core at a time, fed with
\* rows of the log.
LEMMA ReplicaStep ==
    ASSUME TypeOK, FiniteBatches, InFlight, Next
    PROVE  /\ Moves(oplog, srv, srv')
           /\ \A d \in Clients : Moves(oplog, rep[d], rep'[d])
  <1> USE DEF disk, serverVars, clientVars, SetRep
  <1>1. oplog \in Seq(Ops) /\ Len(oplog) \in Nat /\ srv \in Replicas
        /\ rep \in [Clients -> Replicas]
    BY LenProperties DEF TypeOK
  <1>2. \A r : Moves(oplog, r, r) BY DEF Moves
  <1>3. CASE ServerStep /\ UNCHANGED clientVars
    <2> SUFFICES Moves(oplog, srv, srv') BY <1>2, <1>3
    <2>1. ASSUME NEW o \in Ops, AuthorServer(o) PROVE Moves(oplog, srv, srv')
      BY <2>1, MovesForms DEF AuthorServer
    <2>2. CASE ApplyIngested \/ SnapshotFails
      <3>1. actor.done \in SUBSET SequencedOp BY DEF TypeOK, Actors
      <3>2. BackedBy(oplog, actor.done) /\ IsFiniteSet(actor.done)
        BY DEF InFlight, FiniteBatches
      <3> QED BY <2>2, <3>1, <3>2, MovesForms DEF ApplyIngested, SnapshotFails, Materialize
    <2>3. CASE ServerStart
      <3> DEFINE b == OpsSince(srv.cursor, Len(oplog))
      <3>1. b \in SUBSET SequencedOp /\ IsFiniteSet(b) /\ BackedBy(oplog, b)
        BY <1>1, OpsSinceRows DEF Replicas
      <3> HIDE DEF b
      <3>2. ApplyFault(srv, b) = "none" /\ srv' = ApplySequencedBatch(srv, b)
        BY <2>3 DEF ServerStart, Unreplayed, b
      <3> QED BY <3>1, <3>2, MovesForms
    <2>4. ASSUME NEW q \in requests, RefusePush(q) \/ StartIngest(q) PROVE srv' = srv
      BY <2>4 DEF RefusePush, StartIngest
    <2>5. CASE PublishAuthored \/ AppendNext \/ RejectIngested \/ StorageFault
               \/ RemoveTail \/ RemoveTailFails \/ FailIngest \/ ServerCrash
      BY <1>2, <2>5 DEF PublishAuthored, AppendNext, RejectIngested, StorageFault,
         RemoveTail, RemoveTailFails, FailIngest, ServerCrash
    <2> QED BY <1>2, <1>3, <2>1, <2>2, <2>3, <2>4, <2>5 DEF ServerStep
  <1>4. ASSUME NEW c \in Clients, ClientStep(c)
        PROVE  srv' = srv /\ \A d \in Clients : Moves(oplog, rep[d], rep'[d])
    <2>1. srv' = srv
      BY <1>4 DEF ClientStep, AuthorLocal, ReleaseHeld, StartPass, FetchPage,
         ApplyPage, RefusePage, SendOutbox, PushAccepted, PushRejected, SendOne,
         OneAccepted, OneRejected, FinishIsolation, PushFailed, Unreachable, Timeout,
         Kill, StartExit, ExitSend, ExitAccepted, ExitEnds
    <2> DEFINE Goal == \A d \in Clients : Moves(oplog, rep[d], rep'[d])
    <2> SUFFICES Goal BY <2>1
    <2>2. CASE rep' = rep BY <1>2, <2>2
    <2>3. ASSUME NEW q, rep' = [rep EXCEPT ![c] = q], Moves(oplog, rep[c], q)
          PROVE  Goal
      BY <1>1, <1>2, <2>3
    <2>4. ASSUME NEW o \in Ops, AuthorLocal(c, o) PROVE Goal
      <3>1. Moves(oplog, rep[c], AuthorOp(rep[c], o)) BY MovesForms
      <3> QED BY <2>3, <2>4, <3>1 DEF AuthorLocal
    <2>5. CASE ReleaseHeld(c)
      <3>1. Moves(oplog, rep[c], ReleaseQuarantined(rep[c])) BY MovesForms
      <3> QED BY <2>3, <2>5, <3>1 DEF ReleaseHeld
    <2>6. CASE ApplyPage(c)
      <3>1. cl[c].page \in SUBSET SequencedOp BY DEF TypeOK, Workers
      <3>2. BackedBy(oplog, cl[c].page) /\ IsFiniteSet(cl[c].page)
        BY DEF InFlight, FiniteBatches
      <3>3. Moves(oplog, rep[c], ApplySequencedBatch(rep[c], cl[c].page))
        BY <2>6, <3>1, <3>2, MovesForms DEF ApplyPage
      <3> QED BY <2>3, <2>6, <3>3 DEF ApplyPage
    <2>7. CASE OneRejected(c)
      <3>1. PICK o \in cl[c].batch : rep' = [rep EXCEPT ![c] = QuarantineOp(rep[c], o)]
        BY <2>7 DEF OneRejected
      <3>2. o \in Ops BY DEF TypeOK, Workers
      <3>3. Moves(oplog, rep[c], QuarantineOp(rep[c], o)) BY <3>2, MovesForms
      <3> QED BY <2>3, <3>1, <3>3
    <2>8. ASSUME NEW ops \in SUBSET SequencedOp, BackedBy(oplog, ops)
          PROVE  Moves(oplog, rep[c], AcknowledgeServerOps(rep[c], ops))
      BY <2>8, MovesForms
    <2>9. ASSUME NEW ops \in SUBSET SequencedOp, BackedBy(oplog, ops), Acknowledge(c, ops)
          PROVE  Goal
      BY <2>2, <2>3, <2>8, <2>9 DEF Acknowledge
    <2>10. cl[c].accepted \in SUBSET SequencedOp /\ BackedBy(oplog, cl[c].accepted)
      BY DEF TypeOK, Workers, InFlight
    <2>11. ASSUME NEW k \in Callers
           PROVE  replies[k].ops \in SUBSET SequencedOp /\ BackedBy(oplog, replies[k].ops)
      BY DEF TypeOK, Replies, InFlight
    <2>12. CASE PushAccepted(c)
      BY <2>9, <2>11, <2>12, WorkerIsCaller DEF PushAccepted
    <2>13. CASE FinishIsolation(c) BY <2>9, <2>10, <2>13 DEF FinishIsolation
    <2>14. CASE GiveUp(c) BY <2>2, <2>9, <2>10, <2>14 DEF GiveUp
    <2>15. CASE PushFailed(c) \/ Unreachable(c) \/ Timeout(c)
      BY <2>14, <2>15 DEF PushFailed, Unreachable, Timeout
    <2>16. CASE ExitAccepted(c)
      BY <2>3, <2>8, <2>11, <2>16, WorkerIsCaller DEF ExitAccepted
    <2>17. CASE StartPass(c) \/ FetchPage(c) \/ RefusePage(c) \/ SendOutbox(c)
                \/ PushRejected(c) \/ SendOne(c) \/ OneAccepted(c) \/ Kill(c)
                \/ StartExit(c) \/ ExitSend(c) \/ ExitEnds(c)
      BY <2>2, <2>17 DEF StartPass, FetchPage, RefusePage, SendOutbox, PushRejected,
         SendOne, OneAccepted, Kill, StartExit, ExitSend, ExitEnds
    <2> QED BY <1>4, <2>1, <2>4, <2>5, <2>6, <2>7, <2>12, <2>13, <2>15, <2>16, <2>17
            DEF ClientStep
  <1> QED BY <1>2, <1>3, <1>4 DEF Next

\* An operation that is queued for the first time is in its author's outbox.
LEMMA RowStep ==
    ASSUME TypeOK, Next, NEW o \in Ops
    PROVE  row'[o] = row[o] \/ o \in OutboxOf(AuthorOf[o])'
  <1> USE DEF disk, serverVars, clientVars, SetRep
  <1>1. row \in [Ops -> Nat] /\ srv \in Replicas /\ rep \in [Clients -> Replicas]
    BY DEF TypeOK
  <1>2. ASSUME NEW p \in Ops, AuthorServer(p)
        PROVE  row'[o] = row[o] \/ o \in OutboxOf(AuthorOf[o])'
    <2>1. CASE p = o
      <3>1. o \in srv'.outbox BY <1>1, <1>2, <2>1 DEF AuthorServer, AuthorOp, Replicas
      <3>2. AuthorOf[o] = Server BY <1>2, <2>1 DEF AuthorServer
      <3> QED BY <3>1, <3>2 DEF OutboxOf
    <2>2. CASE p # o BY <1>1, <1>2, <2>2 DEF AuthorServer
    <2> QED BY <2>1, <2>2
  <1>3. ASSUME NEW c \in Clients, NEW p \in Ops, AuthorLocal(c, p)
        PROVE  row'[o] = row[o] \/ o \in OutboxOf(AuthorOf[o])'
    <2>1. CASE p = o
      <3>1. rep' = [rep EXCEPT ![c] = AuthorOp(rep[c], o)] /\ AuthorOf[o] = c
        BY <1>3, <2>1 DEF AuthorLocal
      <3>2. o \in AuthorOp(rep[c], o).outbox BY <1>1 DEF AuthorOp, Replicas
      <3>3. o \in rep'[AuthorOf[o]].outbox BY <1>1, <3>1, <3>2
      <3>4. AuthorOf[o] # Server BY <3>1, ServerAssumption
      <3> QED BY <3>3, <3>4 DEF OutboxOf
    <2>2. CASE p # o BY <1>1, <1>3, <2>2 DEF AuthorLocal
    <2> QED BY <2>1, <2>2
  <1>4. ASSUME NEW q \in requests, RefusePush(q) \/ StartIngest(q) PROVE row' = row
    BY <1>4 DEF RefusePush, StartIngest
  <1>5. CASE PublishAuthored \/ AppendNext \/ ApplyIngested \/ SnapshotFails
             \/ RejectIngested \/ StorageFault \/ RemoveTail \/ RemoveTailFails
             \/ FailIngest \/ ServerCrash \/ ServerStart
    BY <1>5 DEF PublishAuthored, AppendNext, ApplyIngested, SnapshotFails, Materialize,
       RejectIngested, StorageFault, RemoveTail, RemoveTailFails, FailIngest,
       ServerCrash, ServerStart
  <1>6. ASSUME NEW c \in Clients, ClientStep(c), \A p \in Ops : ~ AuthorLocal(c, p)
        PROVE  row' = row
    BY <1>6 DEF ClientStep, ReleaseHeld, StartPass, FetchPage,
       ApplyPage, RefusePage, SendOutbox, PushAccepted, PushRejected, SendOne,
       OneAccepted, OneRejected, FinishIsolation, PushFailed, Unreachable, Timeout,
       Kill, StartExit, ExitSend, ExitAccepted, ExitEnds
  <1> QED BY <1>2, <1>3, <1>4, <1>5, <1>6 DEF Next, ServerStep

\* No step takes an operation out of both outbox and log.
LEMMA NoLostStep ==
    ASSUME TypeOK, FiniteBatches, InFlight, NoLostOps, Next, Grows(oplog, oplog')
    PROVE  NoLostOps'
  <1> SUFFICES ASSUME NEW o \in Ops, row'[o] > 0
               PROVE  o \in Logged' \/ o \in OutboxOf(AuthorOf[o])'
    BY DEF NoLostOps
  <1>1. CASE o \in OutboxOf(AuthorOf[o])' BY <1>1
  <1>2. CASE row'[o] = row[o]
    <2>1. o \in Logged \/ o \in OutboxOf(AuthorOf[o]) BY <1>2 DEF NoLostOps
    <2>2. oplog \in Seq(Ops) BY DEF TypeOK
    <2>3. ASSUME NEW i \in DOMAIN oplog PROVE oplog[i] \in Logged'
      BY <2>2, GrowsKeeps DEF Logged
    <2>4. CASE o \in Logged BY <2>3, <2>4 DEF Logged
    <2>5. CASE o \in OutboxOf(AuthorOf[o])
      <3>1. CASE AuthorOf[o] = Server
        <4>1. srv \in Replicas /\ Moves(oplog, srv, srv') BY ReplicaStep DEF TypeOK
        <4>2. o \in srv.outbox BY <2>5, <3>1 DEF OutboxOf
        <4>3. o \in srv'.outbox \/ o \in Logged'
          BY <2>3, <4>1, <4>2, MovesKeepOutbox
        <4> QED BY <3>1, <4>3 DEF OutboxOf
      <3>2. CASE AuthorOf[o] # Server
        <4> DEFINE a == AuthorOf[o]
        <4>1. a \in Clients BY <3>2, AuthorAssumption
        <4>2. rep[a] \in Replicas /\ Moves(oplog, rep[a], rep'[a])
          BY <4>1, ReplicaStep DEF TypeOK
        <4>3. o \in rep[a].outbox BY <2>5, <3>2 DEF OutboxOf
        <4>4. o \in rep'[a].outbox \/ o \in Logged'
          BY <2>3, <4>2, <4>3, MovesKeepOutbox
        <4> QED BY <3>2, <4>4 DEF OutboxOf
      <3> QED BY <3>1, <3>2
    <2> QED BY <2>1, <2>4, <2>5
  <1> QED BY <1>1, <1>2, RowStep

\* No step makes a replica disagree with a log that grows.
LEMMA AgreeStep ==
    ASSUME TypeOK, FiniteBatches, Injective(oplog), InFlight, SequencesAgree, Next,
           Grows(oplog, oplog')
    PROVE  SequencesAgree'
  <1> SUFFICES ASSUME NEW c \in Clients PROVE Agrees(oplog', rep'[c])
    BY DEF SequencesAgree, Agrees, Numbered, CaughtUp
  <1>1. oplog \in Seq(Ops) /\ rep[c] \in Replicas BY DEF TypeOK
  <1>2. rep'[c] \in Replicas
    <2>1. TypeOK' BY TypeStep
    <2> QED BY <2>1 DEF TypeOK
  <1>3. Moves(oplog, rep[c], rep'[c]) BY ReplicaStep
  <1>4. Agrees(oplog, rep[c]) BY DEF SequencesAgree
  <1>5. Agrees(oplog, rep'[c]) BY <1>1, <1>3, <1>4, MovesAgree
  <1> QED BY <1>1, <1>2, <1>5, GrowsKeeps

\* Every step keeps the inductive invariant.
LEMMA InvStep ==
    ASSUME IInv, [Next]_vars PROVE IInv'
  <1> USE DEF IInv
  <1>1. TypeOK' /\ FiniteBatches' BY TypeStep
  <1>2. Injective(oplog)' BY InjectiveStep
  <1>3. (history.removed \/ AppendOnlyInv)'
    <2>1. CASE UNCHANGED vars
      BY <2>1 DEF vars, serverVars, clientVars, disk, AppendOnlyInv, InFlight,
         SequencesAgree, NoLostOps, BackedBy, Agrees, Numbered, CaughtUp, Logged, OutboxOf
    <2>2. CASE Next /\ ~ history'.removed
      <3>1. ~ history.removed /\ Grows(oplog, oplog')
        BY <2>2, LogStep DEF Grows
      <3>2. InFlight /\ SequencesAgree /\ NoLostOps BY <3>1 DEF AppendOnlyInv
      <3>3. InFlight' /\ SequencesAgree' /\ NoLostOps'
        BY <2>2, <3>1, <3>2, FlightStep, AgreeStep, NoLostStep
      <3> QED BY <3>3 DEF AppendOnlyInv
    <2> QED BY <2>1, <2>2
  <1> QED BY <1>1, <1>2, <1>3

\* Every reachable state satisfies the inductive invariant: as long as no row
\* was removed again, whatever is under way between devices and server (pages,
\* answers, the actor's batch) names rows of the log.
THEOREM Invariant == Spec => []IInv
  BY InitInv, InvStep, PTL DEF Spec

\* However pages, acknowledgements and echoes interleave, and through crashes,
\* kills and lost answers, no device files an operation under a sequence the
\* log does not give it (apply_sequenced_batch, acknowledge_server_ops), as
\* long as remove_tail has not run.
THEOREM SequencesAgreeAlways == Spec => []SequencesAgreeIfAppendOnly
  <1>1. IInv => SequencesAgreeIfAppendOnly
    BY DEF IInv, AppendOnlyInv, SequencesAgreeIfAppendOnly
  <1> QED BY <1>1, Invariant, PTL

\* Nothing anybody authored leaves the outbox of its author before the log has
\* it, as long as remove_tail has not run.
THEOREM NoLostOpsAlways == Spec => []NoLostOpsIfAppendOnly
  <1>1. IInv => NoLostOpsIfAppendOnly
    BY DEF IInv, AppendOnlyInv, NoLostOpsIfAppendOnly
  <1> QED BY <1>1, Invariant, PTL

----------------------------------------------------------------------------
(* The server's replica and the log *)

\* The rows the server's replica has applied.
Committed == {oplog[i] : i \in 1 .. srv.cursor}

\* The server's replica holds those rows, numbered, and its own unpublished
\* writes.
ServerHolds ==
    /\ Agrees(oplog, srv)
    /\ \A o \in Ops : srv.seq[o] <= srv.cursor
    /\ srv.applied = Committed \union srv.outbox
    /\ srv.held = {}

\* What the actor has inserted lies beyond the cursor and, unless a removal has
\* failed, is all that does.
ActorOwnsTail ==
    /\ actor.phase = "idle" => actor.inserted = {} /\ actor.todo = {} /\ actor.done = {}
    /\ actor.inserted \subseteq (srv.cursor + 1) .. Len(oplog)
    /\ up /\ ~history.left => actor.inserted = (srv.cursor + 1) .. Len(oplog)
    /\ actor.phase = "append" =>
        BackedBy(oplog, actor.done) /\ actor.inserted \subseteq SeqsOf(actor.done)
    /\ up \/ actor.phase = "idle"

ServerInv == ServerHolds /\ ActorOwnsTail

\* A device changes nothing of the server but who waits for the actor's batch.
LEMMA ClientLeavesServer ==
    ASSUME TypeOK, NEW c \in Clients, ClientStep(c)
    PROVE  /\ UNCHANGED <<oplog, srv, up, history>>
           /\ actor' = actor \/ actor' = [actor EXCEPT !.to = Nobody]
  BY DEF ClientStep, AuthorLocal, ReleaseHeld, StartPass, FetchPage,
     ApplyPage, RefusePage, SendOutbox, PushAccepted, PushRejected, SendOne,
     OneAccepted, OneRejected, FinishIsolation, PushFailed, Unreachable, Timeout,
     Kill, StartExit, ExitSend, ExitAccepted, ExitEnds, Abandon, disk, serverVars

\* The three parts of the actor's batch do not depend on who waits for it.
LEMMA ClientLeavesBatch ==
    ASSUME TypeOK, NEW c \in Clients, ClientStep(c)
    PROVE  /\ actor'.phase = actor.phase /\ actor'.todo = actor.todo
           /\ actor'.done = actor.done /\ actor'.inserted = actor.inserted
           /\ actor'.status = actor.status
  BY ClientLeavesServer DEF TypeOK, Actors

\* Applying rows beyond the cursor moves the server's replica with them.
LEMMA ServerApplies ==
    ASSUME TypeOK, Injective(oplog), ServerHolds, NEW b \in SUBSET SequencedOp,
           IsFiniteSet(b), BackedBy(oplog, b), ApplyFault(srv, b) = "none",
           srv' = ApplySequencedBatch(srv, b), oplog' = oplog
    PROVE  /\ ServerHolds'
           /\ srv'.cursor \in Nat /\ srv'.cursor <= Len(oplog)
           /\ SeqsOf(Fresh(srv, b)) = (srv.cursor + 1) .. srv'.cursor
           /\ srv.cursor <= srv'.cursor
           /\ Committed' = Committed \union OpsOf(Fresh(srv, b))
  <1>1. oplog \in Seq(Ops) /\ srv \in Replicas /\ srv.cursor \in Nat
        /\ Len(oplog) \in Nat /\ DOMAIN oplog = 1 .. Len(oplog)
    BY LenProperties DEF TypeOK, Replicas
  <1>2. ~ SeqGap(srv, b) BY DEF ApplyFault
  <1>3. Agrees(oplog, srv) /\ srv.cursor <= Len(oplog) BY DEF ServerHolds, Agrees, CaughtUp
  <1>4. srv'.cursor = NewCursor(srv, b) BY DEF ApplySequencedBatch
  <1>5. /\ SeqsOf(Fresh(srv, b)) = (srv.cursor + 1) .. srv'.cursor
        /\ srv'.cursor \in Nat /\ srv.cursor <= srv'.cursor /\ srv'.cursor <= Len(oplog)
    BY <1>1, <1>2, <1>3, <1>4, FreshIsInterval
  <1>6. Agrees(oplog, srv') BY <1>1, <1>3, ApplyAgrees
  <1>7. \A e \in Fresh(srv, b) : oplog[e.seq] = e.op BY DEF Fresh, BackedBy
  <1>8. OpsOf(Fresh(srv, b)) = {oplog[i] : i \in (srv.cursor + 1) .. srv'.cursor}
    <2>1. \A i \in SeqsOf(Fresh(srv, b)) : \E e \in Fresh(srv, b) : e.seq = i /\ e.op = oplog[i]
      BY <1>7 DEF SeqsOf
    <2>2. \A e \in Fresh(srv, b) : e.seq \in SeqsOf(Fresh(srv, b)) BY DEF SeqsOf
    <2>3. OpsOf(Fresh(srv, b)) = {oplog[i] : i \in SeqsOf(Fresh(srv, b))}
      BY <1>7, <2>1, <2>2 DEF OpsOf
    <2> QED BY <1>5, <2>3
  <1>9. Committed' = Committed \union OpsOf(Fresh(srv, b))
    <2>1. 1 .. srv'.cursor = (1 .. srv.cursor) \union ((srv.cursor + 1) .. srv'.cursor)
      BY <1>1, <1>5
    <2>2. Committed' = {oplog[i] : i \in 1 .. srv'.cursor} BY DEF Committed
    <2> QED BY <1>8, <2>1, <2>2 DEF Committed
  <1>10. srv'.applied = Committed' \union srv'.outbox
    BY <1>9 DEF ServerHolds, ApplySequencedBatch
  <1>11. srv'.held = {} BY DEF ServerHolds, ApplySequencedBatch
  <1>12. ASSUME NEW o \in Ops PROVE srv'.seq[o] <= srv'.cursor
    <2>1. srv'.seq[o] = NewSeq(srv, b, o) BY DEF ApplySequencedBatch
    <2>2. CASE o \in OpsOf(Fresh(srv, b))
      <3> DEFINE d == CHOOSE e \in Fresh(srv, b) : e.op = o
      <3>1. d \in Fresh(srv, b) BY <2>2 DEF OpsOf
      <3>2. d.seq \in SeqsOf(Fresh(srv, b)) BY <3>1 DEF SeqsOf
      <3>3. NewSeq(srv, b, o) = d.seq BY <2>2 DEF NewSeq
      <3> QED BY <1>1, <1>5, <2>1, <3>2, <3>3
    <2>3. CASE o \notin OpsOf(Fresh(srv, b))
      <3>1. NewSeq(srv, b, o) = srv.seq[o] BY <2>3 DEF NewSeq
      <3>2. srv.seq[o] \in Nat /\ srv.seq[o] <= srv.cursor
        BY <1>1 DEF ServerHolds, Replicas
      <3> QED BY <1>1, <1>5, <2>1, <3>1, <3>2
    <2> QED BY <2>2, <2>3
  <1>13. ServerHolds' BY <1>6, <1>10, <1>11, <1>12 DEF ServerHolds
  <1> QED BY <1>5, <1>9, <1>13

\* Every step keeps what the server's replica and the actor hold.
LEMMA ServerInvStep ==
    ASSUME TypeOK, FiniteBatches, Injective(oplog), ServerInv, [Next]_vars
    PROVE  ServerInv'
  <1> USE DEF disk, serverVars
  <1>1. oplog \in Seq(Ops) /\ srv \in Replicas /\ srv.cursor \in Nat
        /\ Len(oplog) \in Nat /\ DOMAIN oplog = 1 .. Len(oplog) /\ actor \in Actors
    BY LenProperties DEF TypeOK, Replicas
  <1>2. ServerHolds /\ ActorOwnsTail /\ srv.cursor <= Len(oplog)
    BY DEF ServerInv, ServerHolds, Agrees, CaughtUp
  <1>3. ASSUME UNCHANGED <<oplog, srv>> PROVE ServerHolds'
    BY <1>2, <1>3 DEF ServerHolds, Agrees, Numbered, CaughtUp, Committed
  <1>4. ASSUME UNCHANGED <<oplog, srv, up, history>>, actor'.phase = actor.phase,
               actor'.todo = actor.todo, actor'.done = actor.done,
               actor'.inserted = actor.inserted
        PROVE  ServerInv'
    BY <1>2, <1>3, <1>4 DEF ServerInv, ActorOwnsTail, BackedBy
  <1>5. CASE UNCHANGED vars BY <1>4, <1>5 DEF vars
  <1>6. ASSUME NEW c \in Clients, ClientStep(c) PROVE ServerInv'
    BY <1>4, <1>6, ClientLeavesServer, ClientLeavesBatch
  <1>7. ASSUME NEW o \in Ops, AuthorServer(o) PROVE ServerInv'
    <2>1. srv' = AuthorOp(srv, o) /\ UNCHANGED <<oplog, up, actor, history>>
      BY <1>7 DEF AuthorServer
    <2>2. /\ srv'.seq = srv.seq /\ srv'.cursor = srv.cursor /\ srv'.held = srv.held
          /\ srv'.applied = srv.applied \union {o}
          /\ srv'.outbox = srv.outbox \union {o}
      BY <1>1, <2>1 DEF AuthorOp, Replicas
    <2>3. Agrees(oplog, srv)' BY <1>2, <2>1, <2>2 DEF ServerHolds, Agrees, Numbered, CaughtUp
    <2>4. ServerHolds' BY <1>2, <2>1, <2>2, <2>3 DEF ServerHolds, Committed
    <2>5. ActorOwnsTail' BY <1>2, <2>1, <2>2 DEF ActorOwnsTail, BackedBy
    <2> QED BY <2>4, <2>5 DEF ServerInv
  <1>8. CASE PublishAuthored BY <1>4, <1>8 DEF PublishAuthored
  <1>9. ASSUME NEW q \in requests, RefusePush(q) PROVE ServerInv'
    BY <1>4, <1>9 DEF RefusePush
  <1>10. ASSUME NEW q \in requests, StartIngest(q) PROVE ServerInv'
    <2>1. actor'.phase = "append" /\ actor'.done = {} /\ actor'.inserted = {}
      BY <1>10 DEF StartIngest, IdleActor
    <2>2. UNCHANGED <<oplog, srv, up, history>> /\ up /\ actor.inserted = {}
      BY <1>2, <1>10 DEF StartIngest, ActorOwnsTail
    <2>3. ActorOwnsTail' BY <1>2, <2>1, <2>2 DEF ActorOwnsTail, BackedBy
    <2> QED BY <1>3, <2>2, <2>3 DEF ServerInv
  <1>11. CASE AppendNext
    <2>1. /\ actor'.phase = "append" /\ actor.phase = "append"
          /\ UNCHANGED <<srv, up, history>> /\ up
      BY <1>1, <1>11 DEF AppendNext, Actors
    <2>2. \/ oplog' = oplog /\ actor'.inserted = actor.inserted
             /\ SeqsOf(actor.done) \subseteq SeqsOf(actor'.done)
          \/ \E o \in Ops :
             /\ oplog' = Append(oplog, o)
             /\ actor'.inserted = actor.inserted \union {Len(oplog) + 1}
             /\ SeqsOf(actor.done) \union {Len(oplog) + 1} \subseteq SeqsOf(actor'.done)
      <3>1. DOMAIN oplog \subseteq Nat /\ Len(oplog) + 1 \in Nat BY <1>1
      <3>2. PICK o \in actor.todo, i \in Nat :
              \/ /\ actor' = [actor EXCEPT !.todo = @ \ {o},
                                 !.done = @ \union {[seq |-> i, op |-> o]}]
                 /\ oplog' = oplog
              \/ /\ actor' = [actor EXCEPT !.todo = @ \ {o},
                                 !.done = @ \union {[seq |-> i, op |-> o]},
                                 !.inserted = @ \union {i}]
                 /\ oplog' = Append(oplog, o) /\ i = Len(oplog) + 1
        BY <1>11, <3>1 DEF AppendNext, AlreadyLogged, Logged
      <3> DEFINE e == [seq |-> i, op |-> o]
      <3>3. e.seq = i /\ o \in Ops BY <1>1 DEF Actors
      <3> HIDE DEF e
      <3>4. actor'.done = actor.done \union {e} BY <1>1, <3>2 DEF e, Actors
      <3>5. SeqsOf(actor'.done) = SeqsOf(actor.done) \union {i} BY <3>3, <3>4 DEF SeqsOf
      <3>6. \/ oplog' = oplog /\ actor'.inserted = actor.inserted
            \/ /\ oplog' = Append(oplog, o) /\ i = Len(oplog) + 1
               /\ actor'.inserted = actor.inserted \union {i}
        BY <1>1, <3>2 DEF Actors
      <3> QED BY <3>3, <3>5, <3>6
    <2>3. Grows(oplog, oplog') BY <2>2 DEF Grows
    <2>4. ServerHolds'
      <3>1. \A i \in 1 .. srv.cursor : oplog'[i] = oplog[i] BY <1>1, <1>2, <2>3, GrowsKeeps
      <3>2. Committed' = Committed BY <2>1, <3>1 DEF Committed
      <3>3. Agrees(oplog', srv) BY <1>1, <1>2, <2>3, GrowsKeeps DEF ServerHolds
      <3> QED BY <1>2, <2>1, <3>2, <3>3 DEF ServerHolds
    <2>5. BackedBy(oplog', actor'.done)
      <3>1. BackedBy(oplog', actor.done)
        BY <1>1, <1>2, <2>1, <2>3, GrowsKeeps DEF ActorOwnsTail
      <3>2. BackedBy(oplog', {}) BY DEF BackedBy
      <3>3. CASE Next BY <3>1, <3>2, <3>3, ActorBatch DEF BackedBy
      <3>4. CASE UNCHANGED vars BY <3>1, <3>4 DEF vars
      <3> QED BY <3>3, <3>4
    <2>6. CASE oplog' = oplog /\ actor'.inserted = actor.inserted
               /\ SeqsOf(actor.done) \subseteq SeqsOf(actor'.done)
      BY <1>2, <2>1, <2>4, <2>5, <2>6 DEF ServerInv, ActorOwnsTail
    <2>7. ASSUME NEW o \in Ops, oplog' = Append(oplog, o),
                 actor'.inserted = actor.inserted \union {Len(oplog) + 1},
                 SeqsOf(actor.done) \union {Len(oplog) + 1} \subseteq SeqsOf(actor'.done)
          PROVE  ServerInv'
      <3>1. Len(oplog') = Len(oplog) + 1 BY <1>1, <2>7, AppendProperties
      <3>2. (srv.cursor + 1) .. Len(oplog') =
               ((srv.cursor + 1) .. Len(oplog)) \union {Len(oplog) + 1}
        BY <1>1, <1>2, <3>1
      <3> QED BY <1>2, <2>1, <2>4, <2>5, <2>7, <3>2 DEF ServerInv, ActorOwnsTail
    <2> QED BY <2>2, <2>6, <2>7
  <1>12. CASE Materialize
    <2>1. actor.done \in SUBSET SequencedOp /\ IsFiniteSet(actor.done)
      BY <1>1 DEF Actors, FiniteBatches
    <2>2. /\ BackedBy(oplog, actor.done) /\ ApplyFault(srv, actor.done) = "none"
          /\ srv' = ApplySequencedBatch(srv, actor.done) /\ oplog' = oplog
          /\ up /\ up' /\ history' = history /\ actor' = IdleActor
          /\ actor.inserted \subseteq SeqsOf(actor.done)
      BY <1>2, <1>12 DEF Materialize, ActorOwnsTail
    <2>3. /\ ServerHolds' /\ srv'.cursor \in Nat /\ srv'.cursor <= Len(oplog)
          /\ SeqsOf(Fresh(srv, actor.done)) = (srv.cursor + 1) .. srv'.cursor
      BY <1>2, <2>1, <2>2, ServerApplies
    <2>4. ASSUME ~history.left PROVE srv'.cursor = Len(oplog)
      <3>1. actor.inserted = (srv.cursor + 1) .. Len(oplog)
        BY <1>2, <2>2, <2>4 DEF ActorOwnsTail
      <3>2. CASE Len(oplog) = srv.cursor
        <4>1. (srv.cursor + 1) .. srv'.cursor = (srv.cursor + 1) .. srv'.cursor OBVIOUS
        <4> QED BY <1>1, <2>1, <2>2, <2>3, <3>2, ServerApplies, <1>2
      <3>3. CASE Len(oplog) # srv.cursor
        <4>1. Len(oplog) \in actor.inserted BY <1>1, <1>2, <3>1, <3>3
        <4>2. Len(oplog) \in SeqsOf(Fresh(srv, actor.done))
          BY <1>1, <1>2, <2>2, <3>3, <4>1 DEF SeqsOf, Fresh
        <4> QED BY <1>1, <2>3, <4>2
      <3> QED BY <3>2, <3>3
    <2>5. actor'.phase = "idle" /\ actor'.inserted = {} /\ actor'.todo = {} /\ actor'.done = {}
      BY <2>2 DEF IdleActor
    <2>6. ActorOwnsTail'
      BY <1>1, <2>2, <2>3, <2>4, <2>5 DEF ActorOwnsTail
    <2> QED BY <2>3, <2>6 DEF ServerInv
  <1>13. CASE RejectIngested \/ StorageFault
    <2>1. /\ actor'.phase = "rollback" /\ actor'.inserted = actor.inserted
          /\ UNCHANGED <<oplog, srv, up, history>> /\ up
      BY <1>1, <1>13 DEF RejectIngested, StorageFault, Actors
    <2> QED BY <1>2, <1>3, <2>1 DEF ServerInv, ActorOwnsTail
  <1>14. CASE RemoveTail
    <2>1. /\ up /\ UNCHANGED <<srv, up>> /\ actor'.phase = "rollback"
          /\ Len(oplog) \in actor.inserted
          /\ actor'.inserted = actor.inserted \ {Len(oplog)}
          /\ oplog' = SubSeq(oplog, 1, Len(oplog) - 1)
          /\ history'.left = history.left
      BY <1>1, <1>14 DEF RemoveTail, Actors, WithoutTail, TypeOK
    <2>2. srv.cursor < Len(oplog) BY <1>1, <1>2, <2>1 DEF ActorOwnsTail
    <2>3. \A i \in 1 .. (Len(oplog) - 1) : oplog[i] \in Ops BY <1>1, ElementOfSeq
    <2>4. Len(oplog') = Len(oplog) - 1 /\ \A i \in 1 .. (Len(oplog) - 1) : oplog'[i] = oplog[i]
      BY <1>1, <2>1, <2>2, <2>3, SubSeqProperties
    <2>5. DOMAIN oplog' = 1 .. (Len(oplog) - 1)
      <3>1. oplog' \in Seq(Ops) BY <1>1, <2>1, <2>2, <2>3, SubSeqProperties
      <3> QED BY <2>4, <3>1, LenProperties
    <2>6. ServerHolds'
      <3>1. \A i \in 1 .. srv.cursor : i \in 1 .. (Len(oplog) - 1) BY <1>1, <2>2
      <3>2. Committed' = Committed BY <2>1, <2>4, <3>1 DEF Committed
      <3>3. CaughtUp(oplog', srv)
        BY <1>1, <1>2, <2>2, <2>4, <3>1 DEF ServerHolds, Agrees, CaughtUp
      <3>4. \A o \in Ops : srv.seq[o] \in Nat /\ srv.seq[o] <= srv.cursor
        BY <1>1, <1>2 DEF ServerHolds, Replicas
      <3>5. Numbered(oplog', srv)
        BY <1>1, <1>2, <2>4, <2>5, <3>1, <3>4 DEF ServerHolds, Agrees, Numbered
      <3> QED BY <1>2, <2>1, <3>2, <3>3, <3>5 DEF ServerHolds, Agrees
    <2>7. (srv.cursor + 1) .. Len(oplog') = ((srv.cursor + 1) .. Len(oplog)) \ {Len(oplog)}
      BY <1>1, <2>2, <2>4
    <2>8. ActorOwnsTail' BY <1>2, <2>1, <2>7 DEF ActorOwnsTail
    <2> QED BY <2>6, <2>8 DEF ServerInv
  <1>15. CASE RemoveTailFails
    <2>1. /\ actor'.phase = "idle" /\ actor'.inserted = {} /\ actor'.todo = {} /\ actor'.done = {}
          /\ UNCHANGED <<oplog, srv, up>> /\ history'.left
      BY <1>15 DEF RemoveTailFails, IdleActor, TypeOK
    <2> QED BY <1>3, <2>1 DEF ServerInv, ActorOwnsTail
  <1>16. CASE FailIngest
    <2>1. /\ actor'.phase = "idle" /\ actor'.inserted = {} /\ actor'.todo = {} /\ actor'.done = {}
          /\ actor.inserted = {} /\ UNCHANGED <<oplog, srv, up, history>>
      BY <1>16 DEF FailIngest, IdleActor
    <2> QED BY <1>2, <1>3, <2>1 DEF ServerInv, ActorOwnsTail
  <1>17. CASE ServerCrash
    <2>1. /\ actor'.phase = "idle" /\ actor'.inserted = {} /\ actor'.todo = {} /\ actor'.done = {}
          /\ ~up' /\ UNCHANGED <<oplog, srv>>
      BY <1>17 DEF ServerCrash, IdleActor
    <2> QED BY <1>3, <2>1 DEF ServerInv, ActorOwnsTail
  <1>18. CASE ServerStart
    <2> DEFINE b == OpsSince(srv.cursor, Len(oplog))
    <2>1. b \in SUBSET SequencedOp /\ IsFiniteSet(b) /\ BackedBy(oplog, b)
      BY <1>1, OpsSinceRows
    <2>2. \A i \in (srv.cursor + 1) .. Len(oplog) : i \in SeqsOf(Fresh(srv, b))
      <3> TAKE i \in (srv.cursor + 1) .. Len(oplog)
      <3> DEFINE e == [seq |-> i, op |-> oplog[i]]
      <3>1. e \in b BY <1>1 DEF OpsSince
      <3>2. e.seq = i /\ i > srv.cursor BY <1>1
      <3> HIDE DEF e, b
      <3> QED BY <3>1, <3>2 DEF SeqsOf, Fresh
    <2> HIDE DEF b
    <2>3. /\ ApplyFault(srv, b) = "none" /\ srv' = ApplySequencedBatch(srv, b)
          /\ ~up /\ oplog' = oplog /\ actor' = actor
      BY <1>18 DEF ServerStart, Unreplayed, b
    <2>4. /\ ServerHolds' /\ srv'.cursor \in Nat /\ srv'.cursor <= Len(oplog)
          /\ SeqsOf(Fresh(srv, b)) = (srv.cursor + 1) .. srv'.cursor
          /\ srv.cursor <= srv'.cursor
      BY <1>2, <2>1, <2>3, ServerApplies
    <2>5. srv'.cursor = Len(oplog)
      <3>1. CASE srv.cursor = Len(oplog) BY <1>1, <2>4, <3>1
      <3>2. CASE srv.cursor # Len(oplog)
        <4>1. Len(oplog) \in (srv.cursor + 1) .. srv'.cursor BY <1>1, <1>2, <2>2, <2>4, <3>2
        <4> QED BY <1>1, <2>4, <4>1
      <3> QED BY <3>1, <3>2
    <2>6. actor'.phase = "idle" /\ actor'.inserted = {} /\ actor'.todo = {} /\ actor'.done = {}
      BY <1>2, <2>3 DEF ActorOwnsTail
    <2>7. (srv'.cursor + 1) .. Len(oplog') = {} BY <1>1, <2>3, <2>5
    <2>8. ActorOwnsTail' BY <2>6, <2>7 DEF ActorOwnsTail
    <2> QED BY <2>4, <2>8 DEF ServerInv
  <1> QED BY <1>5, <1>6, <1>7, <1>8, <1>9, <1>10, <1>11, <1>12, <1>13, <1>14, <1>15, <1>16,
             <1>17, <1>18 DEF Next, ServerStep, ApplyIngested, SnapshotFails

----------------------------------------------------------------------------
(* Where what is under way comes from *)

\* A request is there already, its caller waiting for it or not, or carries an
\* outbox or the operation isolation tries next.
LEMMA RequestOrigin ==
    ASSUME TypeOK, Next, NEW r \in requests'
    PROVE  \/ \E q \in requests : r.ops = q.ops /\ r.to \in {q.to, Nobody}
           \/ r = [to |-> Nobody, ops |-> PendingOutbox(srv, row)]
           \/ \E c \in Clients :
                \/ /\ r = [to |-> Worker(c), ops |-> PendingOutbox(rep[c], row)]
                   /\ SendOutbox(c)
                \/ r = [to |-> Exit(c), ops |-> PendingOutbox(rep[c], row)]
                \/ \E o \in cl[c].batch : /\ IsOldest(o, cl[c].batch) /\ SendOne(c)
                                          /\ r = [to |-> Worker(c), ops |-> {o}]
  <1> DEFINE Old == \E q \in requests : r.ops = q.ops /\ r.to \in {q.to, Nobody}
  <1> USE DEF disk, serverVars
  <1>1. requests \subseteq Requests BY DEF TypeOK
  <1>2. CASE r \in requests BY <1>2
  <1>3. ASSUME NEW callers, Abandon(callers) PROVE Old
    BY <1>1, <1>3 DEF Abandon, Abandoned, Requests
  <1>4. ASSUME NEW k, NEW ops, SendPush(k, ops)
        PROVE  r \in requests \/ r = [to |-> k, ops |-> ops]
    BY <1>4 DEF SendPush
  <1>5. ASSUME NEW q \in requests, RefusePush(q) \/ StartIngest(q) PROVE r \in requests
    BY <1>5 DEF RefusePush, StartIngest
  <1>6. CASE PublishAuthored BY <1>2, <1>6 DEF PublishAuthored
  <1>7. ASSUME ServerStep, ~ PublishAuthored,
               \A q \in requests : ~ RefusePush(q) /\ ~ StartIngest(q)
        PROVE  r \in requests
    BY <1>7 DEF ServerStep, AuthorServer, AppendNext, ApplyIngested, SnapshotFails,
       Materialize, RejectIngested, StorageFault, RemoveTail, RemoveTailFails, FailIngest,
       ServerCrash, ServerStart
  <1>8. ASSUME NEW c \in Clients, SendOutbox(c)
        PROVE  r \in requests \/ r = [to |-> Worker(c), ops |-> PendingOutbox(rep[c], row)]
    BY <1>4, <1>8 DEF SendOutbox
  <1>9. ASSUME NEW c \in Clients, ExitSend(c)
        PROVE  r \in requests \/ r = [to |-> Exit(c), ops |-> PendingOutbox(rep[c], row)]
    BY <1>4, <1>9 DEF ExitSend
  <1>10. ASSUME NEW c \in Clients, SendOne(c)
         PROVE  r \in requests \/ \E o \in cl[c].batch :
                    IsOldest(o, cl[c].batch) /\ r = [to |-> Worker(c), ops |-> {o}]
    BY <1>4, <1>10 DEF SendOne
  <1>11. ASSUME NEW c \in Clients, Timeout(c) \/ Kill(c) \/ ExitEnds(c) PROVE Old
    BY <1>3, <1>11 DEF Timeout, Kill, ExitEnds
  <1>12. ASSUME NEW c \in Clients, ClientStep(c), ~ SendOutbox(c), ~ ExitSend(c), ~ SendOne(c),
                ~ (Timeout(c) \/ Kill(c) \/ ExitEnds(c))
         PROVE  r \in requests
    BY <1>12 DEF ClientStep, AuthorLocal, ReleaseHeld, StartPass, FetchPage, ApplyPage,
       RefusePage, PushAccepted, PushRejected, OneAccepted, OneRejected, FinishIsolation,
       PushFailed, Unreachable, StartExit, ExitAccepted
  <1>13. CASE ServerStep BY <1>2, <1>5, <1>6, <1>7, <1>13
  <1> QED BY <1>2, <1>8, <1>9, <1>10, <1>11, <1>12, <1>13 DEF Next

\* The actor starts with the operations of a request and works them off oldest
\* first, each of them a row of the log from then on.
LEMMA TodoOrigin ==
    ASSUME TypeOK, Next
    PROVE  \/ /\ actor'.todo = actor.todo
              /\ actor'.phase = "append" => actor.phase = "append" /\ oplog' = oplog
           \/ actor'.todo = {} /\ actor'.phase = "idle"
           \/ /\ oplog' = oplog
              /\ \E q \in requests : StartIngest(q) /\ actor'.todo = q.ops
           \/ /\ actor.phase = "append"
              /\ \E o \in actor.todo :
                    /\ IsOldest(o, actor.todo) /\ actor'.todo = actor.todo \ {o}
                    /\ \/ o \in Logged /\ oplog' = oplog
                       \/ o \notin Logged /\ oplog' = Append(oplog, o)
  <1> USE DEF disk, serverVars
  <1>1. actor \in Actors BY DEF TypeOK
  <1>2. CASE AppendNext
    <2>1. PICK o \in actor.todo :
            /\ IsOldest(o, actor.todo)
            /\ \/ o \in Logged /\ oplog' = oplog
               \/ o \notin Logged /\ oplog' = Append(oplog, o)
            /\ actor'.todo = actor.todo \ {o}
      BY <1>1, <1>2 DEF AppendNext, AlreadyLogged, Actors
    <2> QED BY <1>2, <2>1 DEF AppendNext
  <1>3. ASSUME NEW q \in requests, StartIngest(q)
        PROVE  actor'.todo = q.ops /\ oplog' = oplog
    BY <1>3 DEF StartIngest, IdleActor
  <1>4. ASSUME NEW q \in requests, RefusePush(q) PROVE UNCHANGED <<actor, oplog>>
    BY <1>4 DEF RefusePush
  <1>5. ASSUME NEW o \in Ops, AuthorServer(o) PROVE UNCHANGED <<actor, oplog>>
    BY <1>5 DEF AuthorServer
  <1>6. CASE PublishAuthored \/ ServerStart
    BY <1>6 DEF PublishAuthored, ServerStart
  <1>7. CASE ApplyIngested \/ SnapshotFails \/ RemoveTailFails \/ FailIngest \/ ServerCrash
    <2>1. actor' = IdleActor
      BY <1>7 DEF ApplyIngested, SnapshotFails, Materialize, RemoveTailFails, FailIngest,
         ServerCrash
    <2> QED BY <2>1 DEF IdleActor
  <1>8. CASE RejectIngested \/ StorageFault
    <2>1. actor'.todo = actor.todo /\ actor'.phase = "rollback"
      BY <1>1, <1>8 DEF RejectIngested, StorageFault, Actors
    <2> QED BY <2>1
  <1>9. CASE RemoveTail
    <2>1. actor'.todo = actor.todo /\ actor'.phase = "rollback"
      BY <1>1, <1>9 DEF RemoveTail, Actors
    <2> QED BY <2>1
  <1>10. ASSUME NEW c \in Clients, ClientStep(c)
         PROVE  actor'.todo = actor.todo /\ actor'.phase = actor.phase /\ oplog' = oplog
    BY <1>10, ClientLeavesBatch, ClientLeavesServer
  <1> QED BY <1>2, <1>3, <1>4, <1>5, <1>6, <1>7, <1>8, <1>9, <1>10 DEF Next, ServerStep

\* A replica moves by one transaction of notes-core: a local edit, the page of
\* its worker, an answer, what isolation has collected, or an operation that was
\* refused on its own.
LEMMA ReplicaOrigin ==
    ASSUME TypeOK, Next, NEW d \in Clients
    PROVE  \/ rep'[d] = rep[d]
           \/ \E o \in Ops : AuthorLocal(d, o) /\ rep'[d] = AuthorOp(rep[d], o)
           \/ rep'[d] = ReleaseQuarantined(rep[d])
           \/ /\ ApplyFault(rep[d], cl[d].page) = "none"
              /\ rep'[d] = ApplySequencedBatch(rep[d], cl[d].page)
           \/ \E ops \in {replies[Worker(d)].ops, replies[Exit(d)].ops, cl[d].accepted} :
                rep'[d] = AcknowledgeServerOps(rep[d], ops)
           \/ \E o \in cl[d].batch :
                /\ OneRejected(d) /\ IsOldest(o, cl[d].batch)
                /\ rep'[d] = QuarantineOp(rep[d], o)
                /\ cl'[d].batch = cl[d].batch \ {o}
  <1> USE DEF disk, serverVars, clientVars, SetRep, SetCl
  <1>1. rep \in [Clients -> Replicas] /\ cl \in [Clients -> Workers] BY DEF TypeOK
  <1>2. ASSUME NEW c \in Clients, ClientStep(c), c # d PROVE rep'[d] = rep[d]
    BY <1>1, <1>2 DEF ClientStep, AuthorLocal, ReleaseHeld, StartPass, FetchPage,
       ApplyPage, RefusePage, SendOutbox, PushAccepted, PushRejected, SendOne,
       OneAccepted, OneRejected, FinishIsolation, PushFailed, Unreachable, Timeout,
       Kill, StartExit, ExitSend, ExitAccepted, ExitEnds, GiveUp, Acknowledge
  <1>3. ASSUME NEW ops, Acknowledge(d, ops)
        PROVE  rep'[d] = rep[d] \/ rep'[d] = AcknowledgeServerOps(rep[d], ops)
    BY <1>1, <1>3 DEF Acknowledge
  <1>4. ASSUME GiveUp(d)
        PROVE  rep'[d] = rep[d] \/ rep'[d] = AcknowledgeServerOps(rep[d], cl[d].accepted)
    BY <1>3, <1>4 DEF GiveUp
  <1>5. ASSUME NEW o \in Ops, AuthorLocal(d, o) PROVE rep'[d] = AuthorOp(rep[d], o)
    BY <1>1, <1>5 DEF AuthorLocal
  <1>6. CASE ReleaseHeld(d) BY <1>1, <1>6 DEF ReleaseHeld
  <1>7. CASE ApplyPage(d) BY <1>1, <1>7 DEF ApplyPage
  <1>8. CASE PushAccepted(d) BY <1>3, <1>8 DEF PushAccepted
  <1>9. CASE FinishIsolation(d) BY <1>3, <1>9 DEF FinishIsolation
  <1>10. CASE PushFailed(d) \/ Unreachable(d) \/ Timeout(d)
    BY <1>4, <1>10 DEF PushFailed, Unreachable, Timeout
  <1>11. CASE ExitAccepted(d) BY <1>1, <1>11 DEF ExitAccepted
  <1>12. CASE OneRejected(d)
    <2>1. PICK o \in cl[d].batch :
            /\ IsOldest(o, cl[d].batch)
            /\ rep' = [rep EXCEPT ![d] = QuarantineOp(rep[d], o)]
            /\ cl' = [cl EXCEPT ![d] = [cl[d] EXCEPT !.stage = "isolate",
                        !.batch = @ \ {o}, !.progressed = TRUE]]
      BY <1>12 DEF OneRejected
    <2>2. rep'[d] = QuarantineOp(rep[d], o) /\ cl'[d].batch = cl[d].batch \ {o}
      BY <1>1, <2>1 DEF Workers
    <2> QED BY <1>12, <2>1, <2>2
  <1>13. CASE \/ StartPass(d) \/ FetchPage(d) \/ RefusePage(d) \/ SendOutbox(d)
              \/ PushRejected(d) \/ SendOne(d) \/ OneAccepted(d) \/ Kill(d)
              \/ StartExit(d) \/ ExitSend(d) \/ ExitEnds(d)
    BY <1>13 DEF StartPass, FetchPage, RefusePage, SendOutbox, PushRejected, SendOne,
       OneAccepted, Kill, StartExit, ExitSend, ExitEnds
  <1>14. CASE ClientStep(d)
    BY <1>5, <1>6, <1>7, <1>8, <1>9, <1>10, <1>11, <1>12, <1>13, <1>14 DEF ClientStep
  <1> QED BY <1>2, <1>14 DEF Next

\* A worker's batch is the outbox when it is sent; isolation takes one operation
\* after the other out of it.
LEMMA BatchOrigin ==
    ASSUME TypeOK, Next, NEW d \in Clients
    PROVE  \/ /\ cl'[d].batch = cl[d].batch
              /\ \/ cl'[d].stage = cl[d].stage
                 \/ PushRejected(d) /\ cl[d].stage = "pushing" /\ cl'[d].stage = "isolate"
                 \/ SendOne(d) /\ cl[d].stage = "isolate" /\ cl'[d].stage = "isolating"
           \/ /\ cl'[d].batch = {}
              /\ cl'[d].stage \notin {"pushing", "isolate", "isolating"}
           \/ /\ SendOutbox(d) /\ cl'[d].batch = PendingOutbox(rep[d], row)
              /\ cl'[d].stage = "pushing"
           \/ \E o \in cl[d].batch :
                /\ IsOldest(o, cl[d].batch)
                /\ OneAccepted(d) \/ OneRejected(d)
                /\ cl'[d].batch = cl[d].batch \ {o} /\ cl'[d].stage = "isolate"
  <1> DEFINE Rest == /\ cl'[d].batch = {}
                     /\ cl'[d].stage \notin {"pushing", "isolate", "isolating"}
             Same == cl'[d].batch = cl[d].batch /\ cl'[d].stage = cl[d].stage
  <1> USE DEF disk, serverVars, clientVars, SetCl
  <1>1. cl \in [Clients -> Workers] BY DEF TypeOK
  <1>2. ASSUME NEW stage
        PROVE  /\ At(stage).batch = {} /\ At(stage).stage = stage
               /\ IdleWorker.batch = {} /\ IdleWorker.stage = "idle"
               /\ AfterPull(stage).batch = {} /\ AfterPull(stage).stage \in {"push", "idle"}
    BY DEF At, IdleWorker, AfterPull
  <1>3. ASSUME NEW w, cl' = [cl EXCEPT ![d] = w], w.batch = {},
               w.stage \notin {"pushing", "isolate", "isolating"}
        PROVE  Rest
    BY <1>1, <1>3
  <1>4. ASSUME NEW c \in Clients, ClientStep(c), c # d PROVE Same
    BY <1>1, <1>4 DEF ClientStep, AuthorLocal, ReleaseHeld, StartPass, FetchPage,
       ApplyPage, RefusePage, SendOutbox, PushAccepted, PushRejected, SendOne,
       OneAccepted, OneRejected, FinishIsolation, PushFailed, Unreachable, Timeout,
       Kill, StartExit, ExitSend, ExitAccepted, ExitEnds, GiveUp, Acknowledge
  <1>5. ASSUME NEW ops, Acknowledge(d, ops) PROVE Rest
    BY <1>2, <1>3, <1>5 DEF Acknowledge
  <1>6. ASSUME GiveUp(d) PROVE Rest BY <1>2, <1>3, <1>5, <1>6 DEF GiveUp
  <1>7. CASE (\E o \in Ops : AuthorLocal(d, o)) \/ ReleaseHeld(d) \/ StartExit(d)
              \/ ExitSend(d) \/ ExitAccepted(d)
    BY <1>7 DEF AuthorLocal, ReleaseHeld, StartExit, ExitSend, ExitAccepted
  <1>8. CASE StartPass(d) BY <1>2, <1>3, <1>8 DEF StartPass
  <1>9. CASE RefusePage(d) \/ Kill(d) \/ ExitEnds(d)
    BY <1>2, <1>3, <1>9 DEF RefusePage, Kill, ExitEnds
  <1>10. CASE FetchPage(d)
    <2> DEFINE page == OpsSince(rep[d].cursor, BatchSize)
               w(stage) == [At(stage) EXCEPT !.page = page]
    <2>1. \A stage : w(stage).batch = {} /\ w(stage).stage = stage
      BY DEF At, IdleWorker
    <2>2. \/ cl' = [cl EXCEPT ![d] = AfterPull(cl[d].stage)]
          \/ \E stage \in {"apply1", "apply2"} : cl' = [cl EXCEPT ![d] = w(stage)]
      BY <1>10 DEF FetchPage
    <2> HIDE DEF w
    <2> QED BY <1>2, <1>3, <2>1, <2>2
  <1>11. CASE ApplyPage(d) BY <1>2, <1>3, <1>11 DEF ApplyPage
  <1>12. CASE SendOutbox(d)
    <2> DEFINE batch == PendingOutbox(rep[d], row)
               w == [At("pushing") EXCEPT !.batch = batch]
    <2>1. w.batch = batch /\ w.stage = "pushing" BY DEF At, IdleWorker
    <2>2. cl' = [cl EXCEPT ![d] = At("pull2")] \/ cl' = [cl EXCEPT ![d] = w]
      BY <1>12 DEF SendOutbox
    <2> HIDE DEF w
    <2> QED BY <1>1, <1>2, <1>3, <1>12, <2>1, <2>2
  <1>13. CASE PushAccepted(d) BY <1>5, <1>13 DEF PushAccepted
  <1>14. CASE FinishIsolation(d) BY <1>5, <1>14 DEF FinishIsolation
  <1>15. CASE PushFailed(d) \/ Unreachable(d) \/ Timeout(d)
    BY <1>6, <1>15 DEF PushFailed, Unreachable, Timeout
  <1>16. CASE PushRejected(d)
    <2> DEFINE w == [At("isolate") EXCEPT !.batch = cl[d].batch]
    <2>1. w.batch = cl[d].batch /\ w.stage = "isolate" BY DEF At, IdleWorker
    <2>2. cl' = [cl EXCEPT ![d] = w] /\ cl[d].stage = "pushing"
      BY <1>16 DEF PushRejected
    <2> HIDE DEF w
    <2> QED BY <1>1, <1>16, <2>1, <2>2
  <1>17. CASE SendOne(d)
    <2> DEFINE w == [cl[d] EXCEPT !.stage = "isolating"]
    <2>1. w.batch = cl[d].batch /\ w.stage = "isolating" BY <1>1 DEF Workers
    <2>2. cl' = [cl EXCEPT ![d] = w] /\ cl[d].stage = "isolate"
      BY <1>17 DEF SendOne
    <2> HIDE DEF w
    <2> QED BY <1>1, <1>17, <2>1, <2>2
  <1>18. CASE OneAccepted(d)
    <2> DEFINE w(o) == [cl[d] EXCEPT !.stage = "isolate", !.batch = @ \ {o},
                                    !.accepted = @ \union replies[Worker(d)].ops,
                                    !.progressed = TRUE]
    <2>1. \A o : w(o).batch = cl[d].batch \ {o} /\ w(o).stage = "isolate"
      BY <1>1 DEF Workers
    <2>2. PICK o \in cl[d].batch :
            IsOldest(o, cl[d].batch) /\ cl' = [cl EXCEPT ![d] = w(o)]
      BY <1>18 DEF OneAccepted
    <2> HIDE DEF w
    <2> QED BY <1>1, <1>18, <2>1, <2>2
  <1>19. CASE OneRejected(d)
    <2> DEFINE w(o) == [cl[d] EXCEPT !.stage = "isolate", !.batch = @ \ {o},
                                    !.progressed = TRUE]
    <2>1. \A o : w(o).batch = cl[d].batch \ {o} /\ w(o).stage = "isolate"
      BY <1>1 DEF Workers
    <2>2. PICK o \in cl[d].batch :
            IsOldest(o, cl[d].batch) /\ cl' = [cl EXCEPT ![d] = w(o)]
      BY <1>19 DEF OneRejected
    <2> HIDE DEF w
    <2> QED BY <1>1, <1>19, <2>1, <2>2
  <1>20. CASE ClientStep(d)
    BY <1>7, <1>8, <1>9, <1>10, <1>11, <1>12, <1>13, <1>14, <1>15, <1>16, <1>17, <1>18,
       <1>19, <1>20 DEF ClientStep
  <1> QED BY <1>4, <1>20 DEF Next

\* The server's replica moves by a write of its own or by rows of the log.
LEMMA ServerReplicaOrigin ==
    ASSUME TypeOK, FiniteBatches, ActorOwnsTail, Next
    PROVE  \/ srv' = srv
           \/ \E o \in Ops : /\ AuthorServer(o) /\ srv' = AuthorOp(srv, o)
                             /\ oplog' = oplog
           \/ \E b \in SUBSET SequencedOp :
                /\ IsFiniteSet(b) /\ BackedBy(oplog, b) /\ ApplyFault(srv, b) = "none"
                /\ srv' = ApplySequencedBatch(srv, b) /\ oplog' = oplog
  <1> USE DEF disk, serverVars
  <1>1. oplog \in Seq(Ops) /\ srv.cursor \in Nat /\ Len(oplog) \in Nat /\ actor \in Actors
    BY LenProperties DEF TypeOK, Replicas
  <1>2. ASSUME NEW o \in Ops, AuthorServer(o) PROVE srv' = AuthorOp(srv, o) /\ oplog' = oplog
    BY <1>2 DEF AuthorServer
  <1>3. CASE ApplyIngested \/ SnapshotFails
    <2>1. actor.done \in SUBSET SequencedOp /\ IsFiniteSet(actor.done)
      BY <1>1 DEF Actors, FiniteBatches
    <2> QED BY <1>3, <2>1 DEF ApplyIngested, SnapshotFails, Materialize, ActorOwnsTail
  <1>4. CASE ServerStart
    BY <1>1, <1>4, OpsSinceRows DEF ServerStart, Unreplayed
  <1>5. ASSUME NEW q \in requests, RefusePush(q) \/ StartIngest(q) PROVE srv' = srv
    BY <1>5 DEF RefusePush, StartIngest
  <1>6. CASE PublishAuthored \/ AppendNext \/ RejectIngested \/ StorageFault
             \/ RemoveTail \/ RemoveTailFails \/ FailIngest \/ ServerCrash
    BY <1>6 DEF PublishAuthored, AppendNext, RejectIngested, StorageFault,
       RemoveTail, RemoveTailFails, FailIngest, ServerCrash
  <1>7. ASSUME NEW c \in Clients, ClientStep(c) PROVE srv' = srv
    BY <1>7, ClientLeavesServer
  <1> QED BY <1>2, <1>3, <1>4, <1>5, <1>6, <1>7 DEF Next, ServerStep

----------------------------------------------------------------------------
(* The order of authorship *)

\* The operations somebody has made.
Authored == {o \in Ops : row[o] > 0}

\* Operations are numbered in the order they were made, after all they need.
RowsInOrder ==
    /\ \A o \in Ops : row[o] <= Cardinality(Authored)
    /\ \A o, p \in Authored : row[o] = row[p] => o = p
    /\ \A o \in Authored : \A p \in Needs[o] : p \in Authored /\ row[p] < row[o]

\* Nothing is known, stored or under way that nobody has made, and outboxes and
\* batches hold operations of their own author.
KnownAuthored ==
    /\ Logged \subseteq Authored
    /\ srv.applied \subseteq Authored
    /\ \A o \in srv.outbox : AuthorOf[o] = Server
    /\ actor.todo \subseteq Authored
    /\ \A q \in requests : q.ops \subseteq Authored
    /\ \A c \in Clients :
        /\ rep[c].applied \subseteq Authored
        /\ rep[c].outbox \subseteq rep[c].applied
        /\ \A o \in rep[c].outbox \union cl[c].batch : AuthorOf[o] = c
        /\ cl[c].batch \subseteq Authored
        /\ OpsOf(cl[c].page) \subseteq Authored

\* A step makes at most one operation, with what it needs at hand.
LEMMA RowOrigin ==
    ASSUME TypeOK, KnownAuthored, Next
    PROVE  \/ row' = row
           \/ \E o \in Ops :
                /\ row[o] = 0 /\ row' = [row EXCEPT ![o] = NextRow]
                /\ Needs[o] \subseteq Authored
                /\ AuthorServer(o) \/ \E c \in Clients : AuthorLocal(c, o)
  <1> USE DEF disk, serverVars, clientVars
  <1>1. ASSUME NEW o \in Ops, AuthorServer(o)
        PROVE  row[o] = 0 /\ row' = [row EXCEPT ![o] = NextRow] /\ Needs[o] \subseteq Authored
    BY <1>1 DEF AuthorServer, CanAuthor, KnownAuthored
  <1>2. ASSUME NEW c \in Clients, NEW o \in Ops, AuthorLocal(c, o)
        PROVE  row[o] = 0 /\ row' = [row EXCEPT ![o] = NextRow] /\ Needs[o] \subseteq Authored
    BY <1>2 DEF AuthorLocal, CanAuthor, KnownAuthored
  <1>3. ASSUME NEW q \in requests, RefusePush(q) \/ StartIngest(q) PROVE row' = row
    BY <1>3 DEF RefusePush, StartIngest
  <1>4. CASE PublishAuthored \/ AppendNext \/ ApplyIngested \/ SnapshotFails
             \/ RejectIngested \/ StorageFault \/ RemoveTail \/ RemoveTailFails
             \/ FailIngest \/ ServerCrash \/ ServerStart
    BY <1>4 DEF PublishAuthored, AppendNext, ApplyIngested, SnapshotFails, Materialize,
       RejectIngested, StorageFault, RemoveTail, RemoveTailFails, FailIngest,
       ServerCrash, ServerStart
  <1>5. ASSUME NEW c \in Clients, ClientStep(c), \A p \in Ops : ~ AuthorLocal(c, p)
        PROVE  row' = row
    BY <1>5 DEF ClientStep, ReleaseHeld, StartPass, FetchPage,
       ApplyPage, RefusePage, SendOutbox, PushAccepted, PushRejected, SendOne,
       OneAccepted, OneRejected, FinishIsolation, PushFailed, Unreachable, Timeout,
       Kill, StartExit, ExitSend, ExitAccepted, ExitEnds
  <1> QED BY <1>1, <1>2, <1>3, <1>4, <1>5 DEF Next, ServerStep

\* What was made stays made, in the order it was made in.
LEMMA AuthoredStays ==
    ASSUME TypeOK, KnownAuthored, [Next]_vars
    PROVE  /\ Authored \subseteq Authored'
           /\ \A o \in Authored : row'[o] = row[o]
  <1>1. row \in [Ops -> Nat] BY DEF TypeOK
  <1>2. CASE row' = row BY <1>2 DEF Authored
  <1>3. ASSUME NEW o \in Ops, row[o] = 0, row' = [row EXCEPT ![o] = NextRow]
        PROVE  /\ Authored \subseteq Authored'
               /\ \A p \in Authored : row'[p] = row[p]
    <2>1. \A p \in Authored : p # o /\ row'[p] = row[p] BY <1>1, <1>3 DEF Authored
    <2> QED BY <1>1, <1>3, <2>1 DEF Authored
  <1>4. CASE UNCHANGED vars BY <1>2, <1>4 DEF vars, serverVars
  <1> QED BY <1>2, <1>3, <1>4, RowOrigin

\* Every step keeps the order of authorship.
LEMMA RowsStep ==
    ASSUME TypeOK, KnownAuthored, RowsInOrder, [Next]_vars PROVE RowsInOrder'
  <1>1. row \in [Ops -> Nat] /\ IsFiniteSet(Authored) /\ Cardinality(Authored) \in Nat
    BY OpsAssumption, FS_Subset, FS_CardinalityType DEF TypeOK, Authored
  <1>2. CASE row' = row BY <1>2 DEF RowsInOrder, Authored
  <1>3. ASSUME NEW o \in Ops, row[o] = 0, row' = [row EXCEPT ![o] = NextRow],
               Needs[o] \subseteq Authored
        PROVE  RowsInOrder'
    <2>1. NextRow = 1 + Cardinality(Authored) BY DEF NextRow, Authored
    <2>2. row'[o] = 1 + Cardinality(Authored) /\ \A p \in Ops \ {o} : row'[p] = row[p]
      BY <1>1, <1>3, <2>1
    <2>3. Authored' = Authored \union {o} /\ o \notin Authored
      BY <1>1, <1>3, <2>2 DEF Authored
    <2>4. Cardinality(Authored') = Cardinality(Authored) + 1
      BY <1>1, <2>3, FS_AddElement
    <2>5. \A p \in Ops : row[p] \in Nat /\ row[p] <= Cardinality(Authored)
      BY <1>1 DEF RowsInOrder
    <2>6. \A p \in Ops : row'[p] <= Cardinality(Authored')
      BY <1>1, <2>2, <2>4, <2>5
    <2>7. \A p \in Authored : p \in Ops \ {o} BY <2>3 DEF Authored
    <2>8. \A p, q \in Authored' : row'[p] = row'[q] => p = q
      BY <1>1, <2>2, <2>3, <2>5, <2>7 DEF RowsInOrder
    <2>9. \A p \in Authored' : \A q \in Needs[p] : q \in Authored' /\ row'[q] < row'[p]
      <3> TAKE p \in Authored'
      <3> TAKE q \in Needs[p]
      <3>1. CASE p = o
        <4>1. q \in Authored BY <1>3, <3>1
        <4> QED BY <1>1, <2>2, <2>3, <2>5, <2>7, <3>1, <4>1
      <3>2. CASE p # o
        <4>1. p \in Authored BY <2>3, <3>2
        <4>2. q \in Authored /\ row[q] < row[p] BY <4>1 DEF RowsInOrder
        <4> QED BY <2>2, <2>3, <2>7, <4>1, <4>2
      <3> QED BY <3>1, <3>2
    <2> QED BY <2>6, <2>8, <2>9 DEF RowsInOrder
  <1>4. CASE UNCHANGED vars BY <1>2, <1>4 DEF vars, serverVars
  <1> QED BY <1>2, <1>3, <1>4, RowOrigin

\* Every step keeps it that only what was made is known.
LEMMA KnownStep ==
    ASSUME TypeOK, FiniteBatches, ServerInv, KnownAuthored, [Next]_vars
    PROVE  KnownAuthored'
  <1>1. CASE UNCHANGED vars
    BY <1>1 DEF vars, serverVars, clientVars, disk, KnownAuthored, Authored, Logged
  <1>2. CASE Next
    <2> USE <1>2 DEF ServerInv
    <2>1. Authored \subseteq Authored' BY AuthoredStays
    <2>2. oplog \in Seq(Ops) /\ srv \in Replicas /\ rep \in [Clients -> Replicas]
          /\ cl \in [Clients -> Workers] /\ row \in [Ops -> Nat]
      BY DEF TypeOK
    <2>3. ASSUME NEW o \in Ops, AuthorServer(o) \/ \E c \in Clients : AuthorLocal(c, o)
          PROVE  o \in Authored'
      <3>1. row' = [row EXCEPT ![o] = NextRow] BY <2>3 DEF AuthorServer, AuthorLocal
      <3> QED BY <2>2, <3>1, NextRowType DEF Authored
    <2>4. Logged' \subseteq Authored'
      <3>1. CASE oplog' = oplog BY <2>1, <3>1 DEF KnownAuthored, Logged
      <3>2. ASSUME NEW o \in Ops, o \in actor.todo, oplog' = Append(oplog, o)
            PROVE  Logged' \subseteq Authored'
        <4>1. Logged' \subseteq Logged \union {o}
          BY <2>2, <3>2, AppendProperties, LenProperties DEF Logged
        <4> QED BY <2>1, <3>2, <4>1 DEF KnownAuthored
      <3>3. CASE Len(oplog) # 0 /\ oplog' = SubSeq(oplog, 1, Len(oplog) - 1)
        <4>1. Len(oplog) \in Nat /\ DOMAIN oplog = 1 .. Len(oplog) BY <2>2, LenProperties
        <4>2. /\ DOMAIN oplog' = 1 .. (Len(oplog) - 1)
              /\ \A i \in 1 .. (Len(oplog) - 1) : oplog'[i] = oplog[i]
          BY <2>2, <3>3, FrontKeeps
        <4>3. \A i \in DOMAIN oplog' : i \in DOMAIN oplog /\ oplog'[i] = oplog[i]
          BY <4>1, <4>2
        <4>4. Logged' \subseteq Logged BY <4>3 DEF Logged
        <4> QED BY <2>1, <4>4 DEF KnownAuthored
      <3> QED BY <3>1, <3>2, <3>3, LogStep
    <2>5. \A b : BackedBy(oplog, b) => OpsOf(b) \subseteq Authored
      BY DEF BackedBy, OpsOf, KnownAuthored, Logged
    <2>6. srv'.applied \subseteq Authored' /\ \A o \in srv'.outbox : AuthorOf[o] = Server
      <3>1. CASE srv' = srv BY <2>1, <3>1 DEF KnownAuthored
      <3>2. ASSUME NEW o \in Ops, AuthorServer(o), srv' = AuthorOp(srv, o)
            PROVE  srv'.applied \subseteq Authored' /\ \A p \in srv'.outbox : AuthorOf[p] = Server
        <4>1. srv'.applied = srv.applied \union {o} /\ srv'.outbox = srv.outbox \union {o}
          BY <2>2, <3>2 DEF AuthorOp, Replicas
        <4>2. AuthorOf[o] = Server BY <3>2 DEF AuthorServer
        <4> QED BY <2>1, <2>3, <3>2, <4>1, <4>2 DEF KnownAuthored
      <3>3. ASSUME NEW b \in SUBSET SequencedOp, BackedBy(oplog, b),
                   srv' = ApplySequencedBatch(srv, b)
            PROVE  srv'.applied \subseteq Authored' /\ \A o \in srv'.outbox : AuthorOf[o] = Server
        <4>1. OpsOf(b) \subseteq Authored BY <2>5, <3>3
        <4>2. /\ srv'.applied \subseteq srv.applied \union OpsOf(b)
              /\ srv'.outbox \subseteq srv.outbox
          BY <3>3 DEF ApplySequencedBatch, OpsOf, Fresh
        <4> QED BY <2>1, <4>1, <4>2 DEF KnownAuthored
      <3> QED BY <3>1, <3>2, <3>3, ServerReplicaOrigin
    <2>7. \A r, rows : PendingOutbox(r, rows) \subseteq r.outbox BY DEF PendingOutbox
    <2>8. srv.outbox \subseteq srv.applied BY DEF ServerHolds
    <2>9. ASSUME NEW q \in requests' PROVE q.ops \subseteq Authored
      BY <2>7, <2>8, RequestOrigin DEF KnownAuthored
    <2>10. actor'.todo \subseteq Authored BY TodoOrigin DEF KnownAuthored
    <2>11. ASSUME NEW c \in Clients
           PROVE  /\ rep'[c].applied \subseteq Authored'
                  /\ rep'[c].outbox \subseteq rep'[c].applied
                  /\ \A o \in rep'[c].outbox : AuthorOf[o] = c
      <3> DEFINE Goal == /\ rep'[c].applied \subseteq Authored'
                         /\ rep'[c].outbox \subseteq rep'[c].applied
                         /\ \A o \in rep'[c].outbox : AuthorOf[o] = c
      <3>1. /\ rep[c].applied \subseteq Authored /\ rep[c].outbox \subseteq rep[c].applied
            /\ \A o \in rep[c].outbox : AuthorOf[o] = c
            /\ OpsOf(cl[c].page) \subseteq Authored /\ rep[c] \in Replicas
        BY <2>2 DEF KnownAuthored
      <3>2. ASSUME rep'[c].applied = rep[c].applied, rep'[c].outbox \subseteq rep[c].outbox
            PROVE  Goal
        BY <2>1, <3>1, <3>2
      <3>3. ASSUME NEW o \in Ops, AuthorLocal(c, o), rep'[c] = AuthorOp(rep[c], o) PROVE Goal
        <4>1. /\ rep'[c].applied = rep[c].applied \union {o}
              /\ rep'[c].outbox = rep[c].outbox \union {o}
          BY <3>1, <3>3 DEF AuthorOp, Replicas
        <4>2. AuthorOf[o] = c BY <3>3 DEF AuthorLocal
        <4> QED BY <2>1, <2>3, <3>1, <3>3, <4>1, <4>2
      <3>4. CASE rep'[c] = ApplySequencedBatch(rep[c], cl[c].page)
        <4> DEFINE new == OpsOf(Fresh(rep[c], cl[c].page))
        <4>1. new \subseteq Authored BY <3>1 DEF OpsOf, Fresh
        <4>2. /\ rep'[c].applied = rep[c].applied \union new
              /\ rep'[c].outbox = rep[c].outbox \ new
          BY <3>4 DEF ApplySequencedBatch
        <4> HIDE DEF new
        <4> QED BY <2>1, <3>1, <4>1, <4>2
      <3>5. CASE rep'[c] = rep[c] BY <3>2, <3>5
      <3>6. CASE rep'[c] = ReleaseQuarantined(rep[c])
        BY <3>1, <3>2, <3>6 DEF ReleaseQuarantined, Replicas
      <3>7. ASSUME NEW ops, rep'[c] = AcknowledgeServerOps(rep[c], ops) PROVE Goal
        BY <3>2, <3>7 DEF AcknowledgeServerOps
      <3>8. ASSUME NEW o, rep'[c] = QuarantineOp(rep[c], o) PROVE Goal
        BY <3>1, <3>2, <3>8 DEF QuarantineOp, Replicas
      <3> QED BY <3>3, <3>4, <3>5, <3>6, <3>7, <3>8, ReplicaOrigin
    <2>12. ASSUME NEW c \in Clients
           PROVE  cl'[c].batch \subseteq Authored /\ \A o \in cl'[c].batch : AuthorOf[o] = c
      <3>1. /\ rep[c].outbox \subseteq Authored
            /\ \A o \in rep[c].outbox \union cl[c].batch : AuthorOf[o] = c
            /\ cl[c].batch \subseteq Authored
        BY DEF KnownAuthored
      <3>2. \/ cl'[c].batch \subseteq cl[c].batch
            \/ cl'[c].batch = PendingOutbox(rep[c], row)
        BY BatchOrigin
      <3> QED BY <2>7, <3>1, <3>2
    <2>13. ASSUME NEW c \in Clients PROVE OpsOf(cl'[c].page) \subseteq Authored
      <3>1. BackedBy(oplog, OpsSince(rep[c].cursor, BatchSize))
        BY <2>2, OpsSinceRows, BatchSizeAssumption DEF Replicas
      <3>2. OpsOf({}) = {} BY DEF OpsOf
      <3> QED BY <2>5, <3>1, <3>2, WorkerBatches DEF KnownAuthored
    <2> QED BY <2>1, <2>4, <2>6, <2>9, <2>10, <2>11, <2>12, <2>13 DEF KnownAuthored
  <1> QED BY <1>1, <1>2

\* Rows the server's replica has applied stay, and it applies more.
LEMMA CommittedKept ==
    ASSUME TypeOK, FiniteBatches, Injective(oplog), ServerInv, [Next]_vars
    PROVE  /\ srv.cursor <= Len(oplog') /\ srv.cursor <= Len(oplog)
           /\ srv.cursor <= srv'.cursor
           /\ \A i \in 1 .. srv.cursor : oplog'[i] = oplog[i]
           /\ Committed \subseteq Committed'
  <1> USE DEF ServerInv
  <1>1. oplog \in Seq(Ops) /\ Len(oplog) \in Nat /\ srv \in Replicas /\ srv.cursor \in Nat
    BY LenProperties DEF TypeOK, Replicas
  <1>2. srv.cursor <= Len(oplog) BY DEF ServerHolds, Agrees, CaughtUp
  <1>3. srv.cursor <= Len(oplog') /\ \A i \in 1 .. srv.cursor : oplog'[i] = oplog[i]
    <2>1. CASE Grows(oplog, oplog')
      <3>1. Len(oplog) <= Len(oplog') /\ Len(oplog') \in Nat
        BY <1>1, <2>1, GrowsKeeps, AppendProperties, LenProperties DEF Grows
      <3>2. \A i \in 1 .. srv.cursor : i \in DOMAIN oplog BY <1>1, <1>2, LenProperties
      <3> QED BY <1>1, <1>2, <2>1, <3>1, <3>2, GrowsKeeps
    <2>2. CASE /\ Len(oplog) # 0 /\ oplog' = SubSeq(oplog, 1, Len(oplog) - 1)
               /\ Len(oplog) \in actor.inserted
      <3>1. srv.cursor < Len(oplog) BY <1>1, <2>2 DEF ActorOwnsTail
      <3> QED BY <1>1, <2>2, <3>1, FrontKeeps
    <2>3. CASE UNCHANGED vars BY <2>1, <2>3 DEF vars, serverVars, disk, Grows
    <2> QED BY <2>1, <2>2, <2>3, LogStep DEF Grows
  <1>4. srv.cursor <= srv'.cursor /\ srv'.cursor \in Nat
    <2>1. CASE srv' = srv BY <1>1, <2>1
    <2>2. ASSUME NEW o \in Ops, srv' = AuthorOp(srv, o)
          PROVE  srv.cursor <= srv'.cursor /\ srv'.cursor \in Nat
      BY <1>1, <2>2 DEF AuthorOp, Replicas
    <2>3. ASSUME NEW b \in SUBSET SequencedOp, IsFiniteSet(b), BackedBy(oplog, b),
                 ApplyFault(srv, b) = "none", srv' = ApplySequencedBatch(srv, b),
                 oplog' = oplog
          PROVE  srv.cursor <= srv'.cursor /\ srv'.cursor \in Nat
      BY <2>3, ServerApplies
    <2>4. CASE UNCHANGED vars BY <2>1, <2>4 DEF vars, serverVars, disk
    <2> QED BY <2>1, <2>2, <2>3, <2>4, ServerReplicaOrigin
  <1>5. \A i \in 1 .. srv.cursor : i \in 1 .. srv'.cursor BY <1>1, <1>4
  <1>6. Committed \subseteq Committed' BY <1>3, <1>5 DEF Committed
  <1> QED BY <1>2, <1>3, <1>4, <1>6

----------------------------------------------------------------------------
(* Causes come first *)

Earlier(i, p) == \E j \in 1 .. (i - 1) : oplog[j] = p

ByServer(o) == AuthorOf[o] = Server

\* A server write reaches the log together with the server writes it needs, or
\* after them, whatever becomes of the batches it is in.
ServerCauses ==
    /\ \A o \in Authored : ByServer(o) => Needs[o] \subseteq srv.applied
    /\ \A q \in requests : \A o \in q.ops :
         ByServer(o) => Needs[o] \subseteq q.ops \union Committed
    /\ actor.phase = "append" =>
         \A o \in actor.todo : ByServer(o) => Needs[o] \subseteq actor.todo \union Logged
    /\ \A i \in DOMAIN oplog :
         ByServer(oplog[i]) => \A p \in Needs[oplog[i]] : Earlier(i, p)

\* The server applies a device's operation after those of devices it needs.
DeviceCauses ==
    \A i \in 1 .. srv.cursor : ~ ByServer(oplog[i]) =>
        \A p \in Needs[oplog[i]] : ~ ByServer(p) => Earlier(i, p)

\* While no row is taken back, what a device knows of the server's writes is in
\* the log, and so before all it builds on it.
BuiltOnRows ==
    /\ \A c \in Clients : \A o \in rep[c].applied : ByServer(o) => o \in Logged
    /\ \A o \in Authored : ~ ByServer(o) =>
         \A p \in Needs[o] : ByServer(p) => p \in Logged
    /\ \A i \in DOMAIN oplog : ~ ByServer(oplog[i]) =>
         \A p \in Needs[oplog[i]] : ByServer(p) => Earlier(i, p)

\* pending_outbox takes the oldest operations that wait.
LEMMA PendingIsOldest ==
    ASSUME NEW r \in Replicas, row \in [Ops -> Nat], NEW o \in PendingOutbox(r, row),
           NEW p \in r.outbox \ r.held, row[p] <= row[o]
    PROVE  p \in PendingOutbox(r, row)
  <1> DEFINE queued == r.outbox \ r.held
             Ahead(x) == {q \in queued : row[q] < row[x]}
  <1>1. queued \subseteq Ops /\ IsFiniteSet(queued)
    BY OpsAssumption, FS_Subset DEF Replicas
  <1>2. o \in queued /\ Cardinality(Ahead(o)) < BatchSize BY DEF PendingOutbox
  <1>3. Ahead(p) \subseteq Ahead(o) /\ IsFiniteSet(Ahead(o)) /\ IsFiniteSet(Ahead(p))
    BY <1>1, <1>2, FS_Subset
  <1>4. /\ Cardinality(Ahead(p)) <= Cardinality(Ahead(o))
        /\ Cardinality(Ahead(p)) \in Nat /\ Cardinality(Ahead(o)) \in Nat
    BY <1>3, FS_Subset, FS_CardinalityType
  <1>5. Cardinality(Ahead(p)) < BatchSize BY <1>2, <1>4, BatchSizeAssumption
  <1> QED BY <1>5 DEF PendingOutbox

\* A batch that applies has nothing in it that cannot be applied.
LEMMA AppliesAll ==
    ASSUME NEW r, NEW b, ApplyFault(r, b) = "none"
    PROVE  Failing(r, b) = {}
  BY DEF ApplyFault

\* A row appended to the log comes after those already there.
LEMMA AppendedIsLater ==
    ASSUME oplog \in Seq(Ops), NEW o \in Ops, oplog' = Append(oplog, o)
    PROVE  /\ DOMAIN oplog' = 1 .. (Len(oplog) + 1) /\ Len(oplog) \in Nat
           /\ \A i \in DOMAIN oplog : oplog'[i] = oplog[i]
           /\ oplog'[Len(oplog) + 1] = o
           /\ \A p \in Logged : \E j \in 1 .. Len(oplog) : oplog'[j] = p
           /\ \A i \in DOMAIN oplog : \A p : Earlier(i, p) => Earlier(i, p)'
           /\ Logged' = Logged \union {o}
  <1>1. /\ DOMAIN oplog = 1 .. Len(oplog) /\ Len(oplog) \in Nat
        /\ oplog' \in Seq(Ops) /\ Len(oplog') = Len(oplog) + 1
        /\ \A i \in 1 .. Len(oplog) : oplog'[i] = oplog[i]
        /\ oplog'[Len(oplog) + 1] = o
    BY AppendProperties, LenProperties
  <1>2. DOMAIN oplog' = 1 .. (Len(oplog) + 1) BY <1>1, LenProperties
  <1>3. Logged' = Logged \union {o} BY <1>1, <1>2 DEF Logged
  <1>4. \A p \in Logged : \E j \in 1 .. Len(oplog) : oplog'[j] = p
    BY <1>1 DEF Logged
  <1>5. \A i \in DOMAIN oplog : \A p : Earlier(i, p) => Earlier(i, p)'
    BY <1>1 DEF Earlier
  <1> QED BY <1>1, <1>2, <1>3, <1>4, <1>5

\* Every step keeps the server's writes behind what they need.
LEMMA ServerCausesStep ==
    ASSUME TypeOK, FiniteBatches, Injective(oplog), ServerInv, KnownAuthored, RowsInOrder,
           ServerCauses, [Next]_vars
    PROVE  ServerCauses'
  <1>1. CASE UNCHANGED vars
    BY <1>1 DEF vars, serverVars, clientVars, disk, ServerCauses, Authored, Logged,
       Committed, Earlier
  <1>2. CASE Next
    <2> USE <1>2
    <2>1. oplog \in Seq(Ops) /\ srv \in Replicas /\ rep \in [Clients -> Replicas]
          /\ row \in [Ops -> Nat] /\ Len(oplog) \in Nat /\ DOMAIN oplog = 1 .. Len(oplog)
      BY LenProperties DEF TypeOK
    <2>2. Committed \subseteq Committed' /\ srv.cursor <= Len(oplog) BY CommittedKept
    <2>3. Committed \subseteq Logged
      BY <2>1, <2>2 DEF Committed, Logged, Replicas
    <2>4. srv.applied \subseteq srv'.applied
      <3>1. \A o \in Ops : srv' = AuthorOp(srv, o) => srv.applied \subseteq srv'.applied
        BY <2>1 DEF AuthorOp, Replicas
      <3>2. \A b : srv' = ApplySequencedBatch(srv, b) => srv.applied \subseteq srv'.applied
        BY DEF ApplySequencedBatch
      <3> QED BY <3>1, <3>2, ServerReplicaOrigin DEF ServerInv
    <2>5. ASSUME NEW o \in Authored', ByServer(o) PROVE Needs[o] \subseteq srv'.applied
      <3>1. CASE o \in Authored BY <2>4, <2>5, <3>1 DEF ServerCauses
      <3>2. CASE o \notin Authored
        <4>1. AuthorServer(o) \/ \E c \in Clients : AuthorLocal(c, o)
          BY <2>1, <2>5, <3>2, RowOrigin DEF Authored
        <4>2. AuthorServer(o)
          BY <2>5, <4>1, ServerAssumption DEF AuthorLocal, ByServer
        <4> QED BY <2>4, <4>2 DEF AuthorServer, CanAuthor
      <3> QED BY <3>1, <3>2
    <2>6. ASSUME NEW q \in requests', NEW o \in q.ops, ByServer(o)
          PROVE  Needs[o] \subseteq q.ops \union Committed'
      <3>1. ASSUME NEW r \in requests, r.ops = q.ops PROVE Needs[o] \subseteq q.ops \union Committed'
        BY <2>2, <2>6, <3>1 DEF ServerCauses
      <3>2. CASE q.ops = PendingOutbox(srv, row)
        <4>1. o \in srv.outbox /\ srv.outbox \subseteq srv.applied
              /\ srv.applied = Committed \union srv.outbox /\ srv.held = {}
          BY <2>6, <3>2 DEF PendingOutbox, ServerInv, ServerHolds
        <4>2. o \in Authored BY <4>1 DEF KnownAuthored
        <4>3. ASSUME NEW p \in Needs[o], p \notin Committed PROVE p \in q.ops
          <5>1. p \in srv.outbox BY <2>6, <4>1, <4>2, <4>3 DEF ServerCauses
          <5>2. row[p] < row[o] BY <4>2 DEF RowsInOrder
          <5>3. row[p] <= row[o] BY <2>1, <4>1, <5>1, <5>2 DEF Replicas
          <5>4. o \in PendingOutbox(srv, row) /\ p \in srv.outbox \ srv.held
            BY <2>6, <3>2, <4>1, <5>1
          <5> QED BY <2>1, <3>2, <5>3, <5>4, PendingIsOldest
        <4> QED BY <2>2, <4>3
      <3>3. ASSUME NEW c \in Clients,
                   q.ops = PendingOutbox(rep[c], row) \/ \E p \in cl[c].batch : q.ops = {p}
            PROVE  FALSE
        <4>1. o \in rep[c].outbox \union cl[c].batch BY <2>6, <3>3 DEF PendingOutbox
        <4>2. AuthorOf[o] = c BY <4>1 DEF KnownAuthored
        <4> QED BY <2>6, <4>2, ServerAssumption DEF ByServer
      <3> QED BY <3>1, <3>2, <3>3, RequestOrigin
    <2>7. ASSUME actor'.phase = "append", NEW o \in actor'.todo, ByServer(o)
          PROVE  Needs[o] \subseteq actor'.todo \union Logged'
      <3>1. CASE /\ actor'.todo = actor.todo /\ actor.phase = "append" /\ oplog' = oplog
        BY <2>7, <3>1 DEF ServerCauses, Logged
      <3>2. ASSUME NEW q \in requests, actor'.todo = q.ops, oplog' = oplog
            PROVE  Needs[o] \subseteq actor'.todo \union Logged'
        <4>1. Needs[o] \subseteq q.ops \union Committed BY <2>7, <3>2 DEF ServerCauses
        <4>2. Logged' = Logged BY <3>2 DEF Logged
        <4> QED BY <2>3, <3>2, <4>1, <4>2
      <3>3. ASSUME actor.phase = "append", NEW x \in actor.todo,
                   actor'.todo = actor.todo \ {x},
                   \/ x \in Logged /\ oplog' = oplog
                   \/ x \notin Logged /\ oplog' = Append(oplog, x)
            PROVE  Needs[o] \subseteq actor'.todo \union Logged'
        <4>1. Needs[o] \subseteq actor.todo \union Logged BY <2>7, <3>3 DEF ServerCauses
        <4>2. x \in Ops BY DEF TypeOK, Actors
        <4>3. Logged \union {x} \subseteq Logged'
          BY <2>1, <3>3, <4>2, AppendedIsLater DEF Logged
        <4> QED BY <3>3, <4>1, <4>3
      <3> QED BY <2>7, <3>1, <3>2, <3>3, TodoOrigin
    <2>8. ASSUME NEW i \in DOMAIN oplog', ByServer(oplog'[i]), NEW p \in Needs[oplog'[i]]
          PROVE  Earlier(i, p)'
      <3>1. CASE oplog' = oplog BY <2>8, <3>1 DEF ServerCauses, Earlier
      <3>2. ASSUME actor.phase = "append", NEW o \in Ops, o \in actor.todo,
                   IsOldest(o, actor.todo), oplog' = Append(oplog, o)
            PROVE  Earlier(i, p)'
        <4>1. CASE i \in DOMAIN oplog
          BY <2>1, <2>8, <3>2, <4>1, AppendedIsLater DEF ServerCauses
        <4>2. CASE i \notin DOMAIN oplog
          <5>1. i = Len(oplog) + 1 /\ oplog'[i] = o
            BY <2>1, <3>2, <4>2, AppendedIsLater
          <5>2. p \in actor.todo \union Logged BY <2>8, <3>2, <5>1 DEF ServerCauses
          <5>3. o \in Authored BY <3>2 DEF KnownAuthored
          <5>4. p \in Ops /\ row[p] < row[o]
            BY <2>8, <5>1, <5>3 DEF RowsInOrder, Authored
          <5>5. p \notin actor.todo BY <2>1, <3>2, <5>4 DEF IsOldest
          <5>6. \E j \in 1 .. Len(oplog) : oplog'[j] = p
            BY <2>1, <3>2, <5>2, <5>5, AppendedIsLater
          <5>7. i - 1 = Len(oplog) BY <2>1, <5>1
          <5> QED BY <5>6, <5>7 DEF Earlier
        <4> QED BY <4>1, <4>2
      <3>3. CASE Len(oplog) # 0 /\ oplog' = SubSeq(oplog, 1, Len(oplog) - 1)
        <4>1. /\ DOMAIN oplog' = 1 .. (Len(oplog) - 1)
              /\ \A k \in 1 .. (Len(oplog) - 1) : oplog'[k] = oplog[k]
          BY <2>1, <3>3, FrontKeeps
        <4>2. i \in DOMAIN oplog /\ oplog'[i] = oplog[i] BY <2>1, <4>1
        <4>3. Earlier(i, p) BY <2>8, <4>2 DEF ServerCauses
        <4>4. \A k \in 1 .. (i - 1) : k \in 1 .. (Len(oplog) - 1) BY <2>1, <4>1
        <4> QED BY <4>1, <4>3, <4>4 DEF Earlier
      <3> QED BY <3>1, <3>2, <3>3, LogStep
    <2> QED BY <2>5, <2>6, <2>7, <2>8 DEF ServerCauses
  <1> QED BY <1>1, <1>2

\* Every step keeps what the server has applied of the devices' operations in
\* the order of their needs.
LEMMA DeviceCausesStep ==
    ASSUME TypeOK, FiniteBatches, Injective(oplog), ServerInv, KnownAuthored,
           DeviceCauses, [Next]_vars
    PROVE  DeviceCauses'
  <1> SUFFICES ASSUME NEW i \in 1 .. srv'.cursor, ~ ByServer(oplog'[i]),
                      NEW p \in Needs[oplog'[i]], ~ ByServer(p)
               PROVE  Earlier(i, p)'
    BY DEF DeviceCauses
  <1>1. oplog \in Seq(Ops) /\ srv \in Replicas /\ srv.cursor \in Nat
        /\ Len(oplog) \in Nat /\ DOMAIN oplog = 1 .. Len(oplog)
    BY LenProperties DEF TypeOK, Replicas
  <1>2. /\ srv.cursor <= Len(oplog)
        /\ \A k \in 1 .. srv.cursor : oplog'[k] = oplog[k]
    BY CommittedKept
  <1>3. CASE i <= srv.cursor
    <2>1. i \in 1 .. srv.cursor /\ oplog'[i] = oplog[i] BY <1>1, <1>2, <1>3
    <2>2. Earlier(i, p) BY <2>1 DEF DeviceCauses
    <2>3. \A j \in 1 .. (i - 1) : j \in 1 .. srv.cursor BY <1>1, <2>1
    <2> QED BY <1>2, <2>2, <2>3 DEF Earlier
  <1>4. CASE ~ (i <= srv.cursor)
    <2>1. CASE srv' = srv BY <1>1, <1>4, <2>1
    <2>2. ASSUME NEW o \in Ops, srv' = AuthorOp(srv, o) PROVE FALSE
      BY <1>1, <1>4, <2>2 DEF AuthorOp, Replicas
    <2>3. ASSUME NEW b \in SUBSET SequencedOp, IsFiniteSet(b), BackedBy(oplog, b),
                 ApplyFault(srv, b) = "none", srv' = ApplySequencedBatch(srv, b),
                 oplog' = oplog
          PROVE  Earlier(i, p)'
      <3>1. /\ SeqsOf(Fresh(srv, b)) = (srv.cursor + 1) .. srv'.cursor
            /\ srv'.cursor \in Nat /\ srv'.cursor <= Len(oplog)
        BY <2>3, ServerApplies DEF ServerInv
      <3>2. i \in SeqsOf(Fresh(srv, b)) /\ i \in DOMAIN oplog BY <1>1, <1>4, <3>1
      <3>3. PICK e \in Fresh(srv, b) : e.seq = i BY <3>2 DEF SeqsOf
      <3>4. e \in b /\ e.op = oplog[i] /\ e.op \in Ops
        BY <2>3, <3>3 DEF Fresh, BackedBy, SequencedOp
      <3>5. /\ srv.applied = Committed \union srv.outbox
            /\ \A x \in srv.outbox : ByServer(x)
        BY DEF ServerInv, ServerHolds, KnownAuthored, ByServer
      <3>6. e.op \notin srv.applied
        <4>1. e.op \notin srv.outbox BY <2>3, <3>4, <3>5
        <4>2. e.op \notin Committed
          <5> SUFFICES ASSUME NEW k \in 1 .. srv.cursor, oplog[k] = e.op PROVE FALSE
            BY DEF Committed
          <5>1. k \in DOMAIN oplog BY <1>1, <1>2
          <5>2. k = i BY <3>2, <3>4, <5>1 DEF Injective
          <5> QED BY <1>1, <1>4, <5>2
        <4> QED BY <3>5, <4>1, <4>2
      <3>7. e \notin Failing(srv, b) BY <2>3, AppliesAll
      <3>8. Needs[e.op] \subseteq srv.applied \union Before(b, e)
        BY <3>3, <3>6, <3>7 DEF Failing
      <3>9. p \in srv.applied \union Before(b, e) BY <2>3, <3>4, <3>8
      <3>10. CASE p \in srv.applied
        <4>1. p \in Committed BY <3>5, <3>10
        <4>2. PICK k \in 1 .. srv.cursor : oplog[k] = p BY <4>1 DEF Committed
        <4>3. k \in 1 .. (i - 1) BY <1>1, <1>4, <3>2
        <4> QED BY <2>3, <4>2, <4>3 DEF Earlier
      <3>11. CASE p \in Before(b, e)
        <4>1. PICK d \in b : d.op = p /\ d.seq < e.seq BY <3>11 DEF Before
        <4>2. d.seq \in DOMAIN oplog /\ oplog[d.seq] = p BY <2>3, <4>1 DEF BackedBy
        <4>3. d.seq \in 1 .. (i - 1) BY <1>1, <3>2, <3>3, <4>1, <4>2
        <4> QED BY <2>3, <4>2, <4>3 DEF Earlier
      <3> QED BY <3>9, <3>10, <3>11
    <2>4. CASE UNCHANGED vars BY <2>1, <2>4 DEF vars, serverVars, disk
    <2> QED BY <2>1, <2>2, <2>3, <2>4, ServerReplicaOrigin DEF ServerInv
  <1> QED BY <1>3, <1>4

\* While no row is taken back, every step keeps devices building on rows.
LEMMA BuiltOnRowsStep ==
    ASSUME TypeOK, FiniteBatches, Injective(oplog), ServerInv, KnownAuthored,
           InFlight, BuiltOnRows, [Next]_vars, Grows(oplog, oplog')
    PROVE  BuiltOnRows'
  <1>1. CASE UNCHANGED vars
    BY <1>1 DEF vars, serverVars, clientVars, disk, BuiltOnRows, Authored, Logged, Earlier
  <1>2. CASE Next
    <2> USE <1>2
    <2>1. oplog \in Seq(Ops) /\ rep \in [Clients -> Replicas] /\ row \in [Ops -> Nat]
          /\ Len(oplog) \in Nat /\ DOMAIN oplog = 1 .. Len(oplog)
      BY LenProperties DEF TypeOK
    <2>2. Logged \subseteq Logged'
      BY <2>1, GrowsKeeps DEF Logged
    <2>3. ASSUME NEW c \in Clients, NEW o \in rep'[c].applied, ByServer(o) PROVE o \in Logged'
      <3>1. \A x \in rep[c].applied : ByServer(x) => x \in Logged BY DEF BuiltOnRows
      <3>2. rep[c] \in Replicas BY <2>1
      <3>3. ASSUME rep'[c].applied = rep[c].applied PROVE o \in Logged'
        BY <2>2, <2>3, <3>1, <3>3
      <3>4. ASSUME NEW x \in Ops, AuthorLocal(c, x), rep'[c] = AuthorOp(rep[c], x)
            PROVE  o \in Logged'
        <4>1. rep'[c].applied = rep[c].applied \union {x} BY <3>2, <3>4 DEF AuthorOp, Replicas
        <4>2. ~ ByServer(x) BY <3>4, ServerAssumption DEF AuthorLocal, ByServer
        <4> QED BY <2>2, <2>3, <3>1, <4>1, <4>2
      <3>5. CASE rep'[c] = ApplySequencedBatch(rep[c], cl[c].page)
        <4>1. rep'[c].applied \subseteq rep[c].applied \union OpsOf(cl[c].page)
          BY <3>5 DEF ApplySequencedBatch, OpsOf, Fresh
        <4>2. OpsOf(cl[c].page) \subseteq Logged BY DEF InFlight, BackedBy, OpsOf, Logged
        <4> QED BY <2>2, <2>3, <3>1, <4>1, <4>2
      <3>6. CASE rep'[c] = rep[c] BY <3>3, <3>6
      <3>7. CASE rep'[c] = ReleaseQuarantined(rep[c])
        BY <3>2, <3>3, <3>7 DEF ReleaseQuarantined, Replicas
      <3>8. ASSUME NEW ops, rep'[c] = AcknowledgeServerOps(rep[c], ops) PROVE o \in Logged'
        BY <3>3, <3>8 DEF AcknowledgeServerOps
      <3>9. ASSUME NEW x, rep'[c] = QuarantineOp(rep[c], x) PROVE o \in Logged'
        BY <3>2, <3>3, <3>9 DEF QuarantineOp, Replicas
      <3> QED BY <3>4, <3>5, <3>6, <3>7, <3>8, <3>9, ReplicaOrigin
    <2>4. ASSUME NEW o \in Authored', ~ ByServer(o), NEW p \in Needs[o], ByServer(p)
          PROVE  p \in Logged'
      <3>1. CASE o \in Authored BY <2>2, <2>4, <3>1 DEF BuiltOnRows
      <3>2. CASE o \notin Authored
        <4>1. AuthorServer(o) \/ \E c \in Clients : AuthorLocal(c, o)
          BY <2>1, <2>4, <3>2, RowOrigin DEF Authored
        <4>2. PICK c \in Clients : AuthorLocal(c, o)
          BY <2>4, <4>1 DEF AuthorServer, ByServer
        <4>3. p \in rep[c].applied BY <2>4, <4>2 DEF AuthorLocal, CanAuthor
        <4> QED BY <2>2, <2>4, <4>3 DEF BuiltOnRows
      <3> QED BY <3>1, <3>2
    <2>5. ASSUME NEW i \in DOMAIN oplog', ~ ByServer(oplog'[i]),
                 NEW p \in Needs[oplog'[i]], ByServer(p)
          PROVE  Earlier(i, p)'
      <3>1. CASE oplog' = oplog BY <2>5, <3>1 DEF BuiltOnRows, Earlier
      <3>2. ASSUME NEW o \in Ops, o \in actor.todo, oplog' = Append(oplog, o)
            PROVE  Earlier(i, p)'
        <4>1. CASE i \in DOMAIN oplog
          BY <2>1, <2>5, <3>2, <4>1, AppendedIsLater DEF BuiltOnRows
        <4>2. CASE i \notin DOMAIN oplog
          <5>1. i = Len(oplog) + 1 /\ oplog'[i] = o
            BY <2>1, <3>2, <4>2, AppendedIsLater
          <5>2. o \in Authored BY <3>2 DEF KnownAuthored
          <5>3. p \in Logged BY <2>5, <5>1, <5>2 DEF BuiltOnRows
          <5>4. \E j \in 1 .. Len(oplog) : oplog'[j] = p
            BY <2>1, <3>2, <5>3, AppendedIsLater
          <5>5. i - 1 = Len(oplog) BY <2>1, <5>1
          <5> QED BY <5>4, <5>5 DEF Earlier
        <4> QED BY <4>1, <4>2
      <3>3. CASE Len(oplog) # 0 /\ oplog' = SubSeq(oplog, 1, Len(oplog) - 1)
        <4>1. Len(oplog') = Len(oplog) - 1 BY <2>1, <3>3, FrontKeeps
        <4> QED BY <2>1, <4>1, GrowsKeeps
      <3> QED BY <3>1, <3>2, <3>3, LogStep
    <2> QED BY <2>3, <2>4, <2>5 DEF BuiltOnRows
  <1> QED BY <1>1, <1>2

----------------------------------------------------------------------------
(* Questions and answers *)

\* S is what the worker of device c waits for an answer about.
Asks(c, S) ==
    \/ cl[c].stage = "pushing" /\ S = cl[c].batch
    \/ /\ cl[c].stage = "isolating"
       /\ \E o \in cl[c].batch : IsOldest(o, cl[c].batch) /\ S = {o}

\* Nothing the worker of device c has asked is on its way or answered.
Silent(c) ==
    /\ \A q \in requests : q.to # Worker(c)
    /\ actor.to # Worker(c)
    /\ replies[Worker(c)].status = "none"

\* A worker has at most one question in the system, in one place, and it is the
\* one it waits for; a final answer to a single operation has a reason.
OneQuestion(c) ==
    /\ \A q \in requests : q.to = Worker(c) =>
        /\ Asks(c, q.ops)
        /\ actor.to # Worker(c) /\ replies[Worker(c)].status = "none"
        /\ \A p \in requests : p.to = Worker(c) => p = q
    /\ actor.to = Worker(c) =>
        /\ Asks(c, actor.todo \union OpsOf(actor.done))
        /\ replies[Worker(c)].status = "none"
    /\ replies[Worker(c)].status # "none" => cl[c].stage \in {"pushing", "isolating"}
    /\ replies[Worker(c)].status = "ok" => Asks(c, OpsOf(replies[Worker(c)].ops))
    /\ replies[Worker(c)].status = "terminal" /\ cl[c].stage = "isolating" =>
        \A o \in cl[c].batch : IsOldest(o, cl[c].batch) =>
            /\ history.left \/ o \in Unacceptable
            /\ history.removed \/ o \in Unacceptable \union Logged

\* The actor turns a batch down for good because of an operation in it, unless
\* rows were left behind that no batch accounts for.
RefusedWithReason ==
    /\ actor.phase = "idle" => actor.to = Nobody
    /\ actor.status = "terminal" => actor.todo = {}
    /\ actor.status # "ok"
    /\ \/ history.left
       \/ actor.phase = "rollback" /\ actor.status = "terminal" =>
            OpsOf(actor.done) \intersect Clashing # {}

Conversations == RefusedWithReason /\ \A c \in Clients : OneQuestion(c)

\* Ghosts only rise.
LEMMA HistoryStep ==
    ASSUME TypeOK, [Next]_vars
    PROVE  /\ history.left => history'.left
           /\ history.removed => history'.removed
           /\ history'.removed \/ Logged \subseteq Logged'
  <1> USE DEF disk, serverVars
  <1>1. oplog \in Seq(Ops) BY DEF TypeOK
  <1>2. CASE UNCHANGED vars BY <1>2 DEF vars, Logged
  <1>3. ASSUME NEW o \in Ops, oplog' = Append(oplog, o) PROVE Logged \subseteq Logged'
    BY <1>1, <1>3, AppendedIsLater
  <1>4. CASE Next
    <2>1. history.left => history'.left
      BY <1>4, ClientLeavesServer DEF Next, ServerStep, AuthorServer, PublishAuthored, RefusePush,
         StartIngest, AppendNext, ApplyIngested, SnapshotFails, Materialize, RejectIngested,
         StorageFault, RemoveTail, RemoveTailFails, FailIngest, ServerCrash, ServerStart, TypeOK
    <2> QED BY <1>3, <1>4, <2>1, LogStep DEF Logged
  <1> QED BY <1>2, <1>4

\* What a worker waits for does not change while its stage does not.
LEMMA AsksSame ==
    ASSUME TypeOK, KnownAuthored, [Next]_vars, NEW c \in Clients, cl'[c] = cl[c]
    PROVE  /\ \A S : Asks(c, S)' <=> Asks(c, S)
           /\ \A o \in cl[c].batch : IsOldest(o, cl[c].batch)' <=> IsOldest(o, cl[c].batch)
  <1>1. \A o \in cl[c].batch : row'[o] = row[o] BY AuthoredStays DEF KnownAuthored
  <1>2. \A o \in cl[c].batch : IsOldest(o, cl[c].batch)' <=> IsOldest(o, cl[c].batch)
    BY <1>1 DEF IsOldest
  <1> QED BY <1>2 DEF Asks

\* A step that adds nothing to the conversation of a worker keeps it.
LEMMA ConversationGoesOn ==
    ASSUME TypeOK, KnownAuthored, [Next]_vars, NEW c \in Clients, OneQuestion(c),
           cl'[c] = cl[c],
           \A q \in requests' : q.to = Worker(c) => q \in requests,
           actor'.to = Worker(c) =>
              /\ actor.to = Worker(c)
              /\ actor'.todo \union OpsOf(actor'.done) = actor.todo \union OpsOf(actor.done),
           replies'[Worker(c)] \in {replies[Worker(c)], NoReply}
    PROVE  OneQuestion(c)'
  <1>1. /\ \A S : Asks(c, S)' <=> Asks(c, S)
        /\ \A o \in cl[c].batch : IsOldest(o, cl[c].batch)' <=> IsOldest(o, cl[c].batch)
    BY AsksSame
  <1>2. /\ history.left => history'.left
        /\ history.removed => history'.removed
        /\ history'.removed \/ Logged \subseteq Logged'
    BY HistoryStep
  <1>3. replies'[Worker(c)].status # "none" => replies'[Worker(c)] = replies[Worker(c)]
    BY DEF NoReply
  <1> QED BY <1>1, <1>2, <1>3 DEF OneQuestion

\* The end of a conversation keeps it that there is at most one.
LEMMA ConversationEnds ==
    ASSUME NEW c \in Clients, Silent(c)' PROVE OneQuestion(c)'
  BY DEF Silent, OneQuestion

\* A worker that does not wait has asked nothing.
LEMMA NotWaiting ==
    ASSUME NEW c \in Clients, OneQuestion(c), cl[c].stage \notin {"pushing", "isolating"}
    PROVE  Silent(c)
  BY DEF OneQuestion, Silent, Asks

\* An answered question is nowhere else.
LEMMA Answered ==
    ASSUME NEW c \in Clients, OneQuestion(c), replies[Worker(c)].status # "none"
    PROVE  actor.to # Worker(c) /\ \A q \in requests : q.to # Worker(c)
  BY DEF OneQuestion

\* The callers of a device differ from those of another and from nobody.
LEMMA CallersDiffer ==
    ASSUME NEW c \in Clients, NEW d \in Clients
    PROVE  /\ Worker(c) # Nobody /\ Exit(c) # Nobody /\ Worker(c) # Exit(d)
           /\ c # d => Worker(c) # Worker(d)
  BY DEF Worker, Exit, Nobody

\* The steps of one device leave the conversations of the others alone.
LEMMA OthersGoOn ==
    ASSUME TypeOK, KnownAuthored, NEW d \in Clients, ClientStep(d), NEW c \in Clients, c # d,
           OneQuestion(c)
    PROVE  OneQuestion(c)'
  <1> USE DEF disk, serverVars, clientVars, SetCl
  <1>1. Next BY DEF Next
  <1>2. cl \in [Clients -> Workers] /\ requests \subseteq Requests
        /\ replies \in [Callers -> Replies] /\ actor \in Actors
    BY DEF TypeOK
  <1>3. cl'[c] = cl[c]
    BY <1>2 DEF ClientStep, AuthorLocal, ReleaseHeld, StartPass, FetchPage,
       ApplyPage, RefusePage, SendOutbox, PushAccepted, PushRejected, SendOne,
       OneAccepted, OneRejected, FinishIsolation, PushFailed, Unreachable, Timeout,
       Kill, StartExit, ExitSend, ExitAccepted, ExitEnds, GiveUp, Acknowledge
  <1>4. /\ Worker(c) # Nobody /\ Worker(c) # Worker(d) /\ Worker(c) # Exit(d)
        /\ Worker(c) \in Callers
    BY CallersDiffer, WorkerIsCaller
  <1>5. /\ actor'.todo = actor.todo /\ actor'.done = actor.done
        /\ actor'.to = Worker(c) => actor.to = Worker(c)
    BY <1>2, <1>4, ClientLeavesBatch, ClientLeavesServer DEF Actors
  <1>6. ASSUME NEW callers, Abandon(callers), Worker(c) \notin callers
        PROVE  /\ \A q \in requests' : q.to = Worker(c) => q \in requests
               /\ replies'[Worker(c)] = replies[Worker(c)]
    <2>1. ASSUME NEW q \in requests', q.to = Worker(c) PROVE q \in requests
      <3>1. PICK p \in requests :
               q = IF p.to \in callers THEN [p EXCEPT !.to = Nobody] ELSE p
        BY <1>6 DEF Abandon, Abandoned
      <3>2. CASE p.to \in callers
        <4>1. q.to = Nobody BY <1>2, <3>1, <3>2 DEF Requests
        <4> QED BY <1>4, <2>1, <4>1
      <3> QED BY <3>1, <3>2
    <2> QED BY <1>2, <1>4, <1>6, <2>1 DEF Abandon
  <1>7. ASSUME NEW k, NEW ops, SendPush(k, ops), k # Worker(c)
        PROVE  /\ \A q \in requests' : q.to = Worker(c) => q \in requests
               /\ replies'[Worker(c)] = replies[Worker(c)]
    BY <1>2, <1>4, <1>7 DEF SendPush
  <1>8. /\ \A q \in requests' : q.to = Worker(c) => q \in requests
        /\ replies'[Worker(c)] = replies[Worker(c)]
    <2>1. CASE SendOutbox(d) \/ SendOne(d) \/ ExitSend(d)
      BY <1>4, <1>7, <2>1 DEF SendOutbox, SendOne, ExitSend
    <2>2. CASE Timeout(d) \/ Kill(d) \/ ExitEnds(d)
      BY <1>4, <1>6, <2>2 DEF Timeout, Kill, ExitEnds
    <2>3. CASE PushAccepted(d) \/ PushRejected(d) \/ OneAccepted(d) \/ OneRejected(d)
               \/ PushFailed(d) \/ ExitAccepted(d)
      BY <1>2, <1>4, <2>3 DEF PushAccepted, PushRejected, OneAccepted, OneRejected,
         PushFailed, ExitAccepted
    <2>4. CASE (\E o \in Ops : AuthorLocal(d, o)) \/ ReleaseHeld(d) \/ StartPass(d)
               \/ FetchPage(d) \/ ApplyPage(d) \/ RefusePage(d) \/ FinishIsolation(d)
               \/ Unreachable(d) \/ StartExit(d)
      BY <2>4 DEF AuthorLocal, ReleaseHeld, StartPass, FetchPage, ApplyPage, RefusePage,
         FinishIsolation, Unreachable, StartExit
    <2> QED BY <2>1, <2>2, <2>3, <2>4 DEF ClientStep
  <1> QED BY <1>1, <1>3, <1>5, <1>8, ConversationGoesOn

\* A device asks only when it has no question left, and goes on only with the
\* answer in hand or when none will come.
LEMMA OwnConversation ==
    ASSUME TypeOK, KnownAuthored, NEW c \in Clients, ClientStep(c),
           OneQuestion(c), RefusedWithReason
    PROVE  OneQuestion(c)'
  <1> USE DEF disk, serverVars, clientVars
  <1>1. Next BY DEF Next
  <1>2. cl \in [Clients -> Workers] /\ requests \subseteq Requests
        /\ replies \in [Callers -> Replies] /\ actor \in Actors
    BY DEF TypeOK
  <1>3. /\ Worker(c) # Nobody /\ Exit(c) # Nobody /\ Worker(c) # Exit(c)
        /\ Worker(c) \in Callers /\ Exit(c) \in Callers
    BY CallersDiffer, WorkerIsCaller
  <1>4. NoReply.status = "none" BY DEF NoReply
  <1>5. ASSUME Silent(c), UNCHANGED <<requests, actor, replies>> PROVE OneQuestion(c)'
    BY <1>5, ConversationEnds DEF Silent
  <1>6. ASSUME NEW callers, Worker(c) \in callers, Abandon(callers) PROVE OneQuestion(c)'
    <2>1. ASSUME NEW q \in requests' PROVE q.to # Worker(c)
      <3>1. PICK p \in requests :
               q = IF p.to \in callers THEN [p EXCEPT !.to = Nobody] ELSE p
        BY <1>6 DEF Abandon, Abandoned
      <3>2. CASE p.to \in callers
        <4>1. q.to = Nobody BY <1>2, <3>1, <3>2 DEF Requests
        <4> QED BY <1>3, <4>1
      <3>3. CASE p.to \notin callers BY <1>6, <3>1, <3>3
      <3> QED BY <3>2, <3>3
    <2>2. actor'.to # Worker(c) BY <1>2, <1>3, <1>6 DEF Abandon, Actors
    <2>3. replies'[Worker(c)] = NoReply BY <1>3, <1>6 DEF Abandon
    <2> QED BY <1>4, <2>1, <2>2, <2>3, ConversationEnds DEF Silent
  <1>7. ASSUME replies[Worker(c)].status # "none", UNCHANGED <<requests, actor>>,
               replies' = [replies EXCEPT ![Worker(c)] = NoReply]
        PROVE  OneQuestion(c)'
    <2>1. replies'[Worker(c)] = NoReply BY <1>2, <1>3, <1>7
    <2> QED BY <1>4, <1>7, <2>1, Answered, ConversationEnds DEF Silent
  <1>8. ASSUME cl[c].stage \notin {"pushing", "isolating"},
               UNCHANGED <<requests, actor, replies>>
        PROVE  OneQuestion(c)'
    BY <1>5, <1>8, NotWaiting
  <1>9. ASSUME UNCHANGED <<cl, requests, actor, replies>> PROVE OneQuestion(c)'
    BY <1>1, <1>9, ConversationGoesOn
  <1>10. CASE (\E o \in Ops : AuthorLocal(c, o)) \/ ReleaseHeld(c) \/ StartExit(c)
    BY <1>9, <1>10 DEF AuthorLocal, ReleaseHeld, StartExit
  <1>11. CASE ExitSend(c)
    <2>1. /\ UNCHANGED <<cl, actor>>
          /\ \A q \in requests' : q.to = Worker(c) => q \in requests
          /\ replies'[Worker(c)] = replies[Worker(c)]
      BY <1>2, <1>3, <1>11 DEF ExitSend, SendPush
    <2> QED BY <1>1, <2>1, ConversationGoesOn
  <1>12. CASE ExitAccepted(c)
    <2>1. UNCHANGED <<cl, actor, requests>> /\ replies'[Worker(c)] = replies[Worker(c)]
      BY <1>2, <1>3, <1>12 DEF ExitAccepted
    <2> QED BY <1>1, <2>1, ConversationGoesOn
  <1>13. CASE StartPass(c) \/ FetchPage(c) \/ ApplyPage(c) \/ RefusePage(c)
              \/ FinishIsolation(c)
    BY <1>8, <1>13 DEF StartPass, FetchPage, ApplyPage, RefusePage, FinishIsolation
  <1>14. CASE PushAccepted(c) \/ PushRejected(c) \/ OneAccepted(c) \/ OneRejected(c)
              \/ PushFailed(c)
    BY <1>7, <1>14 DEF PushAccepted, PushRejected, OneAccepted, OneRejected, PushFailed
  <1>15. CASE Unreachable(c)
    <2>1. UNCHANGED <<requests, actor, replies>> BY <1>15 DEF Unreachable
    <2>2. CASE cl[c].stage \in {"pull1", "pull2", "push", "isolate"} BY <1>8, <2>1, <2>2
    <2>3. CASE Unanswered(Worker(c)) BY <1>5, <2>1, <2>3 DEF Unanswered, Silent
    <2> QED BY <1>15, <2>2, <2>3 DEF Unreachable
  <1>16. CASE Timeout(c) \/ Kill(c) \/ ExitEnds(c)
    BY <1>6, <1>16 DEF Timeout, Kill, ExitEnds
  <1>17. ASSUME NEW ops, SendPush(Worker(c), ops), actor' = actor, Silent(c), Asks(c, ops)'
         PROVE  OneQuestion(c)'
    <2> DEFINE question == [to |-> Worker(c), ops |-> ops]
    <2>1. question.ops = ops OBVIOUS
    <2>2. requests' = requests \union {question} /\ replies'[Worker(c)] = NoReply
      BY <1>2, <1>3, <1>17 DEF SendPush
    <2> HIDE DEF question
    <2>3. \A q \in requests' : q.to = Worker(c) => q = question
      BY <1>17, <2>2 DEF Silent
    <2>4. actor'.to # Worker(c) /\ replies'[Worker(c)].status = "none"
      BY <1>4, <1>17, <2>2 DEF Silent
    <2> QED BY <1>17, <2>1, <2>3, <2>4 DEF OneQuestion
  <1>18. CASE SendOutbox(c)
    <2> DEFINE batch == PendingOutbox(rep[c], row)
               w == [At("pushing") EXCEPT !.batch = batch]
    <2>1. Silent(c) BY <1>18, NotWaiting DEF SendOutbox
    <2>2. CASE UNCHANGED <<requests, replies>>
      BY <1>5, <1>18, <2>1, <2>2 DEF SendOutbox
    <2>3. CASE SendPush(Worker(c), batch) /\ SetCl(c, w)
      <3>1. w.batch = batch /\ w.stage = "pushing" BY DEF At, IdleWorker
      <3> HIDE DEF w
      <3>2. cl'[c] = w BY <1>2, <2>3 DEF SetCl
      <3>3. PICK ops : ops = batch OBVIOUS
      <3> HIDE DEF batch
      <3>4. Asks(c, ops)' BY <3>1, <3>2, <3>3 DEF Asks
      <3>5. actor' = actor BY <1>18 DEF SendOutbox
      <3> QED BY <1>17, <2>1, <2>3, <3>3, <3>4, <3>5
    <2> QED BY <1>18, <2>2, <2>3 DEF SendOutbox
  <1>19. CASE SendOne(c)
    <2>1. Silent(c) BY <1>19, NotWaiting DEF SendOne
    <2>2. PICK o \in cl[c].batch : IsOldest(o, cl[c].batch) /\ SendPush(Worker(c), {o})
      BY <1>19 DEF SendOne
    <2> DEFINE w == [cl[c] EXCEPT !.stage = "isolating"]
    <2>3. w.batch = cl[c].batch /\ w.stage = "isolating" BY <1>2 DEF Workers
    <2>4. SetCl(c, w) /\ actor' = actor /\ row' = row BY <1>19 DEF SendOne
    <2> HIDE DEF w
    <2>5. cl'[c] = w BY <1>2, <2>4 DEF SetCl
    <2>6. Asks(c, {o})' BY <2>2, <2>3, <2>4, <2>5 DEF Asks, IsOldest
    <2> QED BY <1>17, <2>1, <2>2, <2>4, <2>6
  <1> QED BY <1>10, <1>11, <1>12, <1>13, <1>14, <1>15, <1>16, <1>18, <1>19 DEF ClientStep

\* Two oldest operations of a batch are one.
LEMMA OldestIsOne ==
    ASSUME TypeOK, RowsInOrder, NEW S, S \subseteq Authored, NEW o \in S, NEW p \in S,
           IsOldest(o, S), IsOldest(p, S)
    PROVE  o = p
  <1>1. row[o] \in Nat /\ row[p] \in Nat BY DEF TypeOK, Authored
  <1>2. row[o] = row[p] BY <1>1 DEF IsOldest
  <1> QED BY <1>2 DEF RowsInOrder

\* An answer of the server that arrives where it is waited for.
LEMMA AnswerArrives ==
    ASSUME TypeOK, KnownAuthored, RowsInOrder, [Next]_vars, NEW c \in Clients, cl' = cl,
           NEW status, NEW ops, NEW asked,
           Asks(c, asked),
           Answer(Worker(c), status, ops),
           actor'.to # Worker(c), \A q \in requests' : q.to # Worker(c),
           status = "ok" => OpsOf(ops) = asked,
           status = "terminal" =>
             /\ history'.left \/ asked \intersect Unacceptable # {}
             /\ history'.removed \/ asked \intersect Unacceptable # {} \/ asked \subseteq Logged
    PROVE  OneQuestion(c)'
  <1>1. replies \in [Callers -> Replies] /\ Worker(c) \in Callers /\ Worker(c) # Nobody
    BY CallersDiffer, WorkerIsCaller DEF TypeOK
  <1>2. replies'[Worker(c)].status = status /\ replies'[Worker(c)].ops = ops
    BY <1>1 DEF Answer
  <1>3. /\ \A S : Asks(c, S)' <=> Asks(c, S)
        /\ \A o \in cl[c].batch : IsOldest(o, cl[c].batch)' <=> IsOldest(o, cl[c].batch)
    BY AsksSame
  <1>4. history'.removed \/ Logged \subseteq Logged' BY HistoryStep
  <1>5. cl'[c].stage \in {"pushing", "isolating"} BY DEF Asks
  <1>6. ASSUME status = "terminal", cl'[c].stage = "isolating", NEW o \in cl'[c].batch,
               IsOldest(o, cl[c].batch)'
        PROVE  /\ history'.left \/ o \in Unacceptable
               /\ history'.removed \/ o \in Unacceptable \union Logged'
    <2>1. IsOldest(o, cl[c].batch) BY <1>3, <1>6
    <2>2. PICK p \in cl[c].batch : IsOldest(p, cl[c].batch) /\ asked = {p}
      BY <1>6 DEF Asks
    <2>3. cl[c].batch \subseteq Authored BY DEF KnownAuthored
    <2>4. asked = {o} BY <1>6, <2>1, <2>2, <2>3, OldestIsOne
    <2> QED BY <1>4, <1>6, <2>4
  <1> QED BY <1>2, <1>3, <1>5, <1>6 DEF OneQuestion

----------------------------------------------------------------------------
(* Why a batch is turned down *)

\* Of a batch of rows that does not apply, one row fails first.
LEMMA FirstFails ==
    ASSUME NEW r, NEW b \in SUBSET SequencedOp, Failing(r, b) # {}
    PROVE  LET bad == Failing(r, b)
           IN  (CHOOSE e \in bad : \A d \in bad : e.seq <= d.seq) \in bad
  <1> DEFINE bad == Failing(r, b)
  <1>1. bad \subseteq b /\ \A e \in bad : e.seq \in Nat
    BY DEF Failing, Fresh, SequencedOp
  <1> HIDE DEF bad
  <1>2. SeqsOf(bad) \in SUBSET Nat /\ SeqsOf(bad) # {} BY <1>1 DEF SeqsOf, bad
  <1>3. PICK m \in SeqsOf(bad) : \A n \in SeqsOf(bad) : m <= n BY <1>2, LeastExists
  <1>4. \E e \in bad : \A d \in bad : e.seq <= d.seq BY <1>3 DEF SeqsOf
  <1> QED BY <1>4 DEF bad

\* Conflicts over sequences do not arise on the server while no removal fails:
\* its replica agrees with the log and the batch has all rows beyond it.
LEMMA ConflictHasReason ==
    ASSUME TypeOK, Injective(oplog), ServerInv, up, ~history.left,
           actor.phase = "append", StatusOf(ApplyFault(srv, actor.done)) = "terminal"
    PROVE  OpsOf(actor.done) \intersect Clashing # {}
  <1> DEFINE b == actor.done
  <1>1. b \in SUBSET SequencedOp /\ srv \in Replicas /\ oplog \in Seq(Ops)
        /\ srv.cursor \in Nat /\ Len(oplog) \in Nat /\ DOMAIN oplog = 1 .. Len(oplog)
    BY LenProperties DEF TypeOK, Actors, Replicas
  <1>2. /\ BackedBy(oplog, b) /\ Agrees(oplog, srv)
        /\ (srv.cursor + 1) .. Len(oplog) \subseteq SeqsOf(b)
    BY DEF ServerInv, ServerHolds, ActorOwnsTail
  <1>3. \A e \in b : e.seq \in 1 .. Len(oplog) /\ oplog[e.seq] = e.op /\ e.op \in Ops
    BY <1>1, <1>2 DEF BackedBy, SequencedOp
  <1>4. \A o \in Ops : srv.seq[o] # 0 => srv.seq[o] \in DOMAIN oplog /\ oplog[srv.seq[o]] = o
    BY <1>2 DEF Agrees, Numbered
  <1>5. ~ SeqReassigned(srv, b)
    <2> SUFFICES ASSUME NEW e \in b, NEW o \in Ops, o # e.op, srv.seq[o] = e.seq PROVE FALSE
      BY DEF SeqReassigned, Stale
    <2> QED BY <1>3, <1>4
  <1>6. ~ SeqGap(srv, b)
    <2> SUFFICES ASSUME NEW e \in b, NEW s \in (srv.cursor + 1) .. e.seq, s \notin SeqsOf(b)
                 PROVE FALSE
      BY DEF SeqGap, Fresh
    <2> QED BY <1>1, <1>2, <1>3
  <1>7. ~ OpReassigned(srv, b)
    <2> SUFFICES ASSUME NEW e \in b,
                        \/ srv.seq[e.op] \notin {0, e.seq}
                        \/ \E o \in Ops : o # e.op /\ srv.seq[o] = e.seq
                 PROVE FALSE
      BY DEF OpReassigned, Fresh
    <2>1. CASE srv.seq[e.op] \notin {0, e.seq}
      BY <1>1, <1>3, <1>4, <2>1 DEF Injective
    <2>2. CASE \E o \in Ops : o # e.op /\ srv.seq[o] = e.seq
      BY <1>3, <1>4, <2>2
    <2> QED BY <2>1, <2>2
  <1> DEFINE bad == Failing(srv, b)
             first == CHOOSE e \in bad : \A d \in bad : e.seq <= d.seq
  <1>8. ApplyFault(srv, b) = "conflict" BY DEF StatusOf
  <1>9. bad # {} /\ first.op \in Clashing BY <1>5, <1>6, <1>7, <1>8 DEF ApplyFault
  <1>10. first \in bad BY <1>1, <1>9, FirstFails
  <1>11. first \in b BY <1>10 DEF Failing, Fresh
  <1> QED BY <1>9, <1>11 DEF OpsOf

\* Every step keeps it that a final refusal of the actor has a reason.
LEMMA RefusedStep ==
    ASSUME TypeOK, Injective(oplog), ServerInv, RefusedWithReason, [Next]_vars
    PROVE  RefusedWithReason'
  <1> USE DEF disk, serverVars
  <1>1. actor \in Actors BY DEF TypeOK
  <1>2. ASSUME UNCHANGED <<actor, history>> PROVE RefusedWithReason'
    BY <1>2 DEF RefusedWithReason
  <1>3. CASE UNCHANGED vars BY <1>2, <1>3 DEF vars
  <1>4. ASSUME NEW c \in Clients, ClientStep(c) PROVE RefusedWithReason'
    <2>1. actor'.to \in {actor.to, Nobody} /\ history' = history
      BY <1>1, <1>4, ClientLeavesServer DEF Actors
    <2> QED BY <1>4, <2>1, ClientLeavesBatch DEF RefusedWithReason
  <1>5. CASE (\E o \in Ops : AuthorServer(o)) \/ PublishAuthored \/ ServerStart
             \/ (\E q \in requests : RefusePush(q))
    BY <1>2, <1>5 DEF AuthorServer, PublishAuthored, ServerStart, RefusePush
  <1>6. CASE ApplyIngested \/ SnapshotFails \/ RemoveTailFails \/ FailIngest \/ ServerCrash
    <2>1. actor' = IdleActor
      BY <1>6 DEF ApplyIngested, SnapshotFails, Materialize, RemoveTailFails, FailIngest,
         ServerCrash
    <2> QED BY <2>1 DEF RefusedWithReason, IdleActor
  <1>7. ASSUME NEW q \in requests, StartIngest(q) PROVE RefusedWithReason'
    <2>1. actor'.phase = "append" /\ actor'.status = "none"
      BY <1>7 DEF StartIngest, IdleActor
    <2> QED BY <2>1 DEF RefusedWithReason
  <1>8. CASE AppendNext
    <2>1. actor'.phase = "append" /\ actor'.status = actor.status /\ actor.todo # {}
      BY <1>1, <1>8 DEF AppendNext, Actors
    <2> QED BY <2>1 DEF RefusedWithReason
  <1>9. CASE RejectIngested
    <2>1. /\ actor'.phase = "rollback" /\ actor'.done = actor.done /\ actor'.todo = actor.todo
          /\ actor.todo = {} /\ history' = history /\ actor.phase = "append" /\ up
          /\ actor'.status = StatusOf(ApplyFault(srv, actor.done))
      BY <1>1, <1>9 DEF RejectIngested, Actors
    <2>2. actor'.status # "ok" BY <2>1 DEF StatusOf
    <2> QED BY <2>1, <2>2, ConflictHasReason DEF RefusedWithReason
  <1>10. CASE StorageFault
    <2>1. actor'.phase = "rollback" /\ actor'.status = "transient"
      BY <1>1, <1>10 DEF StorageFault, Actors
    <2> QED BY <2>1 DEF RefusedWithReason
  <1>11. CASE RemoveTail
    <2>1. /\ actor'.phase = actor.phase /\ actor'.status = actor.status
          /\ actor'.todo = actor.todo /\ actor'.done = actor.done
          /\ history'.left = history.left /\ actor'.to = actor.to
      BY <1>1, <1>11 DEF RemoveTail, Actors, TypeOK
    <2> QED BY <2>1 DEF RefusedWithReason
  <1> QED BY <1>3, <1>4, <1>5, <1>6, <1>7, <1>8, <1>9, <1>10, <1>11 DEF Next, ServerStep

\* What the server does keeps every conversation, and a final answer is given
\* for a reason.
LEMMA ServerConversation ==
    ASSUME TypeOK, KnownAuthored, RowsInOrder, RefusedWithReason,
           history.removed \/ InFlight,
           NEW c \in Clients, OneQuestion(c), ServerStep, UNCHANGED clientVars
    PROVE  OneQuestion(c)'
  <1> USE DEF disk, serverVars
  <1>1. Next /\ cl' = cl BY DEF Next, clientVars
  <1>2. requests \subseteq Requests /\ replies \in [Callers -> Replies] /\ actor \in Actors
    BY DEF TypeOK
  <1>3. Worker(c) # Nobody /\ Worker(c) \in Callers BY CallersDiffer, WorkerIsCaller
  <1>4. ASSUME requests' \subseteq requests, replies' = replies,
               actor'.to = Worker(c) =>
                 /\ actor.to = Worker(c)
                 /\ actor'.todo \union OpsOf(actor'.done) = actor.todo \union OpsOf(actor.done)
        PROVE  OneQuestion(c)'
    BY <1>1, <1>4, ConversationGoesOn
  <1>5. ASSUME NEW k, NEW status, NEW ops, Answer(k, status, ops), k # Worker(c)
        PROVE  replies'[Worker(c)] = replies[Worker(c)]
    BY <1>2, <1>3, <1>5 DEF Answer
  <1>6. PICK asked : asked = actor.todo \union OpsOf(actor.done) OBVIOUS
  <1>7. ASSUME NEW status, NEW ops, Answer(actor.to, status, ops), actor' = IdleActor,
               requests' = requests, history.left => history'.left,
               history'.removed = history.removed,
               status = "ok" => OpsOf(ops) = asked,
               status = "terminal" =>
                 /\ history.left \/ asked \intersect Unacceptable # {}
                 /\ history.removed \/ asked \intersect Unacceptable # {} \/ asked \subseteq Logged
        PROVE  OneQuestion(c)'
    <2>1. actor'.to # Worker(c) BY <1>3, <1>7 DEF IdleActor
    <2>2. CASE actor.to # Worker(c)
      <3>1. replies'[Worker(c)] = replies[Worker(c)] BY <1>5, <1>7, <2>2
      <3> QED BY <1>1, <1>7, <2>1, <3>1, ConversationGoesOn
    <2>3. CASE actor.to = Worker(c)
      <3>1. Asks(c, asked) BY <1>6, <2>3 DEF OneQuestion
      <3>2. \A q \in requests : q.to # Worker(c) BY <2>3 DEF OneQuestion
      <3>3. [Next]_vars BY <1>1
      <3>4. Answer(Worker(c), status, ops) BY <1>7, <2>3
      <3>5. \A q \in requests' : q.to # Worker(c) BY <1>7, <3>2
      <3>6. status = "terminal" =>
              /\ history'.left \/ asked \intersect Unacceptable # {}
              /\ history'.removed \/ asked \intersect Unacceptable # {} \/ asked \subseteq Logged
        BY <1>7
      <3> QED BY <1>1, <1>7, <2>1, <3>1, <3>3, <3>4, <3>5, <3>6, AnswerArrives
    <2> QED BY <2>2, <2>3
  <1>8. CASE (\E o \in Ops : AuthorServer(o)) \/ ServerStart
    BY <1>4, <1>8 DEF AuthorServer, ServerStart
  <1>9. CASE PublishAuthored
    <2> DEFINE q == [to |-> Nobody, ops |-> PendingOutbox(srv, row)]
    <2>1. q.to = Nobody OBVIOUS
    <2>2. requests' = requests \union {q} /\ UNCHANGED <<actor, replies>>
      BY <1>9 DEF PublishAuthored
    <2> HIDE DEF q
    <2> QED BY <1>1, <1>3, <2>1, <2>2, ConversationGoesOn
  <1>10. ASSUME NEW q \in requests, RefusePush(q) PROVE OneQuestion(c)'
    <2>1. /\ requests' = requests \ {q} /\ Answer(q.to, "terminal", {})
          /\ UNCHANGED <<actor, history>> /\ q.ops \intersect Refused # {}
      BY <1>10 DEF RefusePush
    <2>2. CASE q.to # Worker(c)
      <3>1. replies'[Worker(c)] = replies[Worker(c)] BY <1>5, <2>1, <2>2
      <3> QED BY <1>1, <2>1, <3>1, ConversationGoesOn
    <2>3. CASE q.to = Worker(c)
      <3>1. /\ Asks(c, q.ops) /\ actor.to # Worker(c)
            /\ \A p \in requests : p.to = Worker(c) => p = q
        BY <2>3 DEF OneQuestion
      <3>2. PICK S : S = q.ops OBVIOUS
      <3>3. Asks(c, S) /\ S \intersect Unacceptable # {} BY <2>1, <3>1, <3>2 DEF Unacceptable
      <3>4. actor'.to # Worker(c) /\ \A p \in requests' : p.to # Worker(c) BY <2>1, <3>1
      <3>5. Answer(Worker(c), "terminal", {}) BY <2>1, <2>3
      <3>6. [Next]_vars BY <1>1
      <3> HIDE DEF Asks, Answer
      <3> QED BY <1>1, <3>3, <3>4, <3>5, <3>6, AnswerArrives
    <2> QED BY <2>2, <2>3
  <1>11. ASSUME NEW q \in requests, StartIngest(q) PROVE OneQuestion(c)'
    <2>1. /\ requests' = requests \ {q} /\ replies' = replies /\ actor.phase = "idle"
          /\ actor'.to = q.to /\ actor'.todo = q.ops /\ actor'.done = {}
      BY <1>11 DEF StartIngest, IdleActor
    <2>2. actor.to # Worker(c) BY <1>3, <2>1 DEF RefusedWithReason
    <2>3. CASE q.to # Worker(c) BY <1>4, <2>1, <2>3
    <2>4. CASE q.to = Worker(c)
      <3>1. /\ Asks(c, q.ops) /\ replies[Worker(c)].status = "none"
            /\ \A p \in requests : p.to = Worker(c) => p = q
        BY <2>4 DEF OneQuestion
      <3>2. PICK S : S = q.ops OBVIOUS
      <3>3. \A T : Asks(c, T)' <=> Asks(c, T) BY <1>1, AsksSame
      <3>4. OpsOf(actor'.done) = {} BY <2>1 DEF OpsOf
      <3>5. PICK T : T = actor'.todo \union OpsOf(actor'.done) OBVIOUS
      <3>6. T = S BY <2>1, <3>2, <3>4, <3>5
      <3>7. Asks(c, T)' BY <3>1, <3>2, <3>3, <3>6
      <3>8. \A p \in requests' : p.to # Worker(c) BY <2>1, <3>1
      <3> QED BY <2>1, <3>1, <3>5, <3>7, <3>8 DEF OneQuestion
    <2> QED BY <2>3, <2>4
  <1>12. CASE AppendNext
    <2>1. PICK o \in actor.todo, i \in Nat :
            \/ actor' = [actor EXCEPT !.todo = @ \ {o}, !.done = @ \union {[seq |-> i, op |-> o]}]
            \/ actor' = [actor EXCEPT !.todo = @ \ {o}, !.done = @ \union {[seq |-> i, op |-> o]},
                                      !.inserted = @ \union {i}]
      <3>1. oplog \in Seq(Ops) BY DEF TypeOK
      <3>2. DOMAIN oplog \subseteq Nat /\ Len(oplog) + 1 \in Nat BY <3>1, LenProperties
      <3> QED BY <1>12, <3>2 DEF AppendNext, AlreadyLogged, Logged
    <2> DEFINE e == [seq |-> i, op |-> o]
    <2>2. e.op = o OBVIOUS
    <2> HIDE DEF e
    <2>3. /\ actor'.done = actor.done \union {e} /\ actor'.todo = actor.todo \ {o}
          /\ actor'.to = actor.to
      BY <1>2, <2>1 DEF e, Actors
    <2>4. OpsOf(actor'.done) = OpsOf(actor.done) \union {o} BY <2>2, <2>3 DEF OpsOf
    <2>5. UNCHANGED <<requests, replies>> BY <1>12 DEF AppendNext
    <2> QED BY <1>4, <2>3, <2>4, <2>5
  <1>13. CASE Materialize /\ (\/ Answer(actor.to, "ok", actor.done)
                              \/ Answer(actor.to, "transient", {}))
    <2>1. /\ actor' = IdleActor /\ requests' = requests /\ history' = history
          /\ OpsOf(actor.done) = asked
      BY <1>6, <1>13 DEF Materialize
    <2>2. CASE Answer(actor.to, "ok", actor.done) BY <1>7, <2>1, <2>2
    <2>3. CASE Answer(actor.to, "transient", {}) BY <1>7, <2>1, <2>3
    <2> QED BY <1>13, <2>2, <2>3
  <1>14. CASE RejectIngested \/ StorageFault \/ RemoveTail
    <2>1. /\ UNCHANGED <<requests, replies>> /\ actor'.to = actor.to
          /\ actor'.todo = actor.todo /\ actor'.done = actor.done
      BY <1>2, <1>14 DEF RejectIngested, StorageFault, RemoveTail, Actors
    <2> QED BY <1>4, <2>1
  <1>15. CASE RemoveTailFails
    <2>1. /\ actor' = IdleActor /\ requests' = requests /\ history'.left
          /\ history'.removed = history.removed /\ Answer(actor.to, "transient", {})
      BY <1>15 DEF RemoveTailFails, TypeOK
    <2> QED BY <1>7, <2>1
  <1>16. CASE FailIngest
    <2>1. /\ actor' = IdleActor /\ requests' = requests /\ history' = history
          /\ Answer(actor.to, actor.status, {}) /\ actor.phase = "rollback"
      BY <1>16 DEF FailIngest
    <2>2. PICK status : status = actor.status OBVIOUS
    <2>3. CASE status \in {"none", "transient"}
      BY <1>7, <2>1, <2>2, <2>3
    <2>4. CASE status = "ok" \/ status = "terminal"
      <3>1. asked = OpsOf(actor.done) \/ status = "ok"
        BY <1>6, <2>2, <2>4 DEF RefusedWithReason
      <3>2. status # "ok" BY <2>1, <2>2 DEF RefusedWithReason
      <3>3. history.removed \/ OpsOf(actor.done) \subseteq Logged
        BY DEF InFlight, BackedBy, OpsOf, Logged
      <3>4. history.left \/ asked \intersect Unacceptable # {}
        BY <2>1, <2>2, <2>4, <3>1, <3>2 DEF RefusedWithReason, Unacceptable
      <3> QED BY <1>7, <2>1, <2>2, <2>4, <3>1, <3>2, <3>3, <3>4
    <2> QED BY <1>2, <2>2, <2>3, <2>4 DEF Actors, Statuses
  <1>17. CASE ServerCrash
    <2>1. actor' = IdleActor /\ requests' = {} BY <1>17 DEF ServerCrash
    <2>2. actor'.to # Worker(c) BY <1>3, <2>1 DEF IdleActor
    <2>3. replies'[Worker(c)] \in {replies[Worker(c)], NoReply} BY <1>3, <1>17 DEF ServerCrash
    <2> QED BY <1>1, <2>1, <2>2, <2>3, ConversationGoesOn
  <1> QED BY <1>8, <1>9, <1>10, <1>11, <1>12, <1>13, <1>14, <1>15, <1>16, <1>17
          DEF ServerStep, ApplyIngested, SnapshotFails

\* Every step keeps the conversations of all devices.
LEMMA ConversationsStep ==
    ASSUME TypeOK, Injective(oplog), ServerInv, KnownAuthored, RowsInOrder,
           history.removed \/ InFlight, Conversations, [Next]_vars
    PROVE  Conversations'
  <1>1. RefusedWithReason' BY RefusedStep DEF Conversations
  <1>2. ASSUME NEW c \in Clients PROVE OneQuestion(c)'
    <2>1. OneQuestion(c) /\ RefusedWithReason BY DEF Conversations
    <2>2. CASE UNCHANGED vars
      <3>1. UNCHANGED <<requests, actor, replies, cl>>
        BY <2>2 DEF vars, serverVars, clientVars
      <3> QED BY <2>1, <3>1, ConversationGoesOn
    <2>3. CASE ServerStep /\ UNCHANGED clientVars BY <2>1, <2>3, ServerConversation
    <2>4. ASSUME NEW d \in Clients, ClientStep(d) PROVE OneQuestion(c)'
      <3>1. CASE c = d BY <2>1, <2>4, <3>1, OwnConversation
      <3>2. CASE c # d BY <2>1, <2>4, <3>2, OthersGoOn
      <3> QED BY <3>1, <3>2
    <2> QED BY <2>2, <2>3, <2>4 DEF Next
  <1> QED BY <1>1, <1>2 DEF Conversations

\* What is held back was refused for good, or, when rows were left behind, is in
\* the log.
HeldInv ==
    /\ HeldAreUnacceptable
    /\ history.removed \/ \A c \in Clients : rep[c].held \subseteq Unacceptable \union Logged

\* Every step keeps it.
LEMMA HeldStep ==
    ASSUME TypeOK, Conversations, HeldInv, [Next]_vars PROVE HeldInv'
  <1>1. /\ history.left => history'.left
        /\ history.removed => history'.removed
        /\ history'.removed \/ Logged \subseteq Logged'
    BY HistoryStep
  <1>2. ASSUME NEW c \in Clients, NEW o \in rep'[c].held
        PROVE  /\ history'.left \/ o \in Unacceptable
               /\ history'.removed \/ o \in Unacceptable \union Logged'
    <2>1. CASE o \in rep[c].held BY <1>1, <2>1 DEF HeldInv, HeldAreUnacceptable
    <2>2. CASE o \notin rep[c].held
      <3>1. Next BY <1>2, <2>2 DEF vars, clientVars
      <3>2. /\ \A p : AuthorOp(rep[c], p).held = rep[c].held
            /\ ReleaseQuarantined(rep[c]).held = {}
            /\ \A b : ApplySequencedBatch(rep[c], b).held \subseteq rep[c].held
            /\ \A b : AcknowledgeServerOps(rep[c], b).held \subseteq rep[c].held
            /\ \A p : QuarantineOp(rep[c], p).held \subseteq rep[c].held \union {p}
        <4>1. rep[c] \in Replicas BY DEF TypeOK
        <4> QED BY <4>1 DEF AuthorOp, ReleaseQuarantined, ApplySequencedBatch,
                AcknowledgeServerOps, QuarantineOp, Replicas
      <3>3. \E p \in cl[c].batch : /\ OneRejected(c) /\ IsOldest(p, cl[c].batch)
                                   /\ rep'[c] = QuarantineOp(rep[c], p)
        BY <1>2, <2>2, <3>1, <3>2, ReplicaOrigin
      <3>4. OneRejected(c) /\ o \in cl[c].batch /\ IsOldest(o, cl[c].batch)
        BY <1>2, <2>2, <3>2, <3>3
      <3>5. replies[Worker(c)].status = "terminal" /\ cl[c].stage = "isolating"
        BY <3>4 DEF OneRejected
      <3> QED BY <1>1, <3>4, <3>5 DEF Conversations, OneQuestion
    <2> QED BY <2>1, <2>2
  <1> QED BY <1>2 DEF HeldInv, HeldAreUnacceptable

----------------------------------------------------------------------------
(* One author's order *)

\* o was made before x by the same author, and nothing stands against it.
Precedes(o, x) == AuthorOf[o] = AuthorOf[x] /\ row[o] < row[x] /\ Sound(o)

\* What is in S overtakes nothing: what precedes it goes with it or has gone.
Covered(S) == \A x \in S : \A o \in Authored : Precedes(o, x) => o \in S \union Logged

\* No batch on its way to the log overtakes anything.
OrderInv ==
    /\ \A q \in requests : Covered(q.ops)
    /\ actor.phase = "append" => Covered(actor.todo)
    /\ \A c \in Clients : Covered(cl[c].batch)
    /\ AuthorOrder

\* What is made later precedes nothing that is there.
LEMMA PrecedesStays ==
    ASSUME TypeOK, KnownAuthored, RowsInOrder, [Next]_vars,
           NEW x \in Authored, NEW o \in Authored', Precedes(o, x)'
    PROVE  o \in Authored /\ Precedes(o, x)
  <1>1. row \in [Ops -> Nat] /\ o \in Ops /\ x \in Ops BY DEF TypeOK, Authored
  <1>2. Authored \subseteq Authored' /\ \A p \in Authored : row'[p] = row[p] BY AuthoredStays
  <1>3. CASE o \in Authored BY <1>2, <1>3 DEF Precedes
  <1>4. CASE o \notin Authored
    <2>1. row'[o] # row[o] BY <1>1, <1>4 DEF Authored
    <2>2. Next BY <2>1 DEF vars, serverVars
    <2>3. row' = [row EXCEPT ![o] = NextRow] BY <1>1, <2>1, <2>2, RowOrigin
    <2>4. row'[o] = NextRow BY <1>1, <2>3
    <2>5. NextRow = 1 + Cardinality(Authored) /\ Cardinality(Authored) \in Nat
      BY OpsAssumption, FS_Subset, FS_CardinalityType DEF NextRow, Authored
    <2>6. row'[x] <= Cardinality(Authored) BY <1>1, <1>2 DEF RowsInOrder
    <2> QED BY <1>1, <1>2, <2>4, <2>5, <2>6 DEF Precedes
  <1> QED BY <1>3, <1>4

\* A set that was covered stays it when only what is logged leaves it.
LEMMA CoveredStays ==
    ASSUME TypeOK, KnownAuthored, RowsInOrder, [Next]_vars, Logged \subseteq Logged',
           NEW S, S \subseteq Authored, Covered(S),
           NEW T, T \subseteq S, \A o \in S \ T : Sound(o) => o \in Logged'
    PROVE  \A x \in T : \A o \in Authored' : Precedes(o, x)' => o \in T \union Logged'
  <1> SUFFICES ASSUME NEW x \in T, NEW o \in Authored', Precedes(o, x)', o \notin T
               PROVE  o \in Logged'
    OBVIOUS
  <1>1. x \in S /\ x \in Authored OBVIOUS
  <1>2. o \in Authored /\ Precedes(o, x) BY <1>1, PrecedesStays
  <1>3. o \in S \union Logged BY <1>1, <1>2 DEF Covered
  <1> QED BY <1>2, <1>3 DEF Precedes

\* pending_outbox of the replica r of author a is covered.
LEMMA PendingCovered ==
    ASSUME TypeOK, NoLostOps, KnownAuthored, NEW r \in Replicas, NEW a,
           r.outbox = OutboxOf(a), \A o \in r.outbox : AuthorOf[o] = a,
           r.held \subseteq Unacceptable \union Logged
    PROVE  Covered(PendingOutbox(r, row))
  <1> SUFFICES ASSUME NEW x \in PendingOutbox(r, row), NEW o \in Authored, Precedes(o, x),
                      o \notin Logged
               PROVE  o \in PendingOutbox(r, row)
    BY DEF Covered
  <1>1. x \in r.outbox BY DEF PendingOutbox
  <1>2. AuthorOf[o] = a /\ row[o] < row[x] /\ Sound(o) /\ o \in Ops /\ x \in Ops
    BY <1>1 DEF Precedes, Authored, Replicas
  <1>3. o \in r.outbox BY <1>2 DEF NoLostOps, Authored
  <1>4. o \notin r.held BY <1>2 DEF Sound
  <1>5. row \in [Ops -> Nat] /\ row[o] <= row[x] BY <1>2 DEF TypeOK
  <1> QED BY <1>3, <1>4, <1>5, PendingIsOldest

\* Every step keeps the order.
LEMMA OrderStep ==
    ASSUME TypeOK, KnownAuthored, RowsInOrder, ServerInv, Conversations, InFlight, NoLostOps,
           ~ history.removed, HeldInv, OrderInv, Next, Grows(oplog, oplog'),
           ~ history'.removed
    PROVE  OrderInv'
  <1>1. /\ oplog \in Seq(Ops) /\ rep \in [Clients -> Replicas] /\ srv \in Replicas
        /\ cl \in [Clients -> Workers]
    BY DEF TypeOK
  <1>2. Logged \subseteq Logged' BY HistoryStep
  <1>3. /\ \A q \in requests : q.ops \subseteq Authored
        /\ actor.todo \subseteq Authored /\ Logged \subseteq Authored
        /\ \A c \in Clients : cl[c].batch \subseteq Authored
    BY DEF KnownAuthored
  <1>4. ASSUME NEW S, S \subseteq Authored, Covered(S)
        PROVE  \A x \in S : \A o \in Authored' : Precedes(o, x)' => o \in S \union Logged'
    BY <1>2, <1>4, CoveredStays
  <1>5. ASSUME NEW c \in Clients PROVE Covered(PendingOutbox(rep[c], row))
    <2>1. /\ rep[c] \in Replicas /\ rep[c].outbox = OutboxOf(c)
          /\ \A o \in rep[c].outbox : AuthorOf[o] = c
          /\ rep[c].held \subseteq Unacceptable \union Logged
      BY <1>1, ServerAssumption DEF OutboxOf, KnownAuthored, HeldInv
    <2> QED BY <2>1, PendingCovered
  <1>6. Covered(PendingOutbox(srv, row))
    <2>1. /\ srv.outbox = OutboxOf(Server) /\ \A o \in srv.outbox : AuthorOf[o] = Server
          /\ srv.held = {}
      BY DEF OutboxOf, KnownAuthored, ServerInv, ServerHolds
    <2> QED BY <1>1, <2>1, PendingCovered
  <1>7. /\ PendingOutbox(srv, row) \subseteq Authored
        /\ \A c \in Clients : PendingOutbox(rep[c], row) \subseteq Authored
    BY DEF PendingOutbox, KnownAuthored, ServerInv, ServerHolds
  <1>8. ASSUME NEW c \in Clients, NEW o \in cl[c].batch, IsOldest(o, cl[c].batch)
        PROVE  \A x \in {o} : \A p \in Authored : Precedes(p, x) => p \in Logged
    <2> SUFFICES ASSUME NEW p \in Authored, Precedes(p, o) PROVE p \in Logged OBVIOUS
    <2>1. p \in cl[c].batch \union Logged BY DEF OrderInv, Covered
    <2>2. row[p] < row[o] /\ row[p] \in Nat /\ row[o] \in Nat
      BY <1>3 DEF Precedes, TypeOK, Authored
    <2> QED BY <1>8, <2>1, <2>2 DEF IsOldest
  <1>9. ASSUME NEW q \in requests' PROVE Covered(q.ops)'
    <2>1. \E S : S = q.ops /\ S \subseteq Authored /\ Covered(S)
      <3>1. ASSUME NEW p \in requests, q.ops = p.ops PROVE Covered(q.ops) /\ q.ops \subseteq Authored
        BY <1>3, <3>1 DEF OrderInv
      <3>2. ASSUME NEW c \in Clients, NEW o \in cl[c].batch, IsOldest(o, cl[c].batch)
            PROVE  Covered({o}) /\ {o} \subseteq Authored
        BY <1>3, <1>8, <3>2 DEF Covered
      <3>3. \/ \E p \in requests : q.ops = p.ops
            \/ q.ops = PendingOutbox(srv, row)
            \/ \E c \in Clients : q.ops = PendingOutbox(rep[c], row)
            \/ \E c \in Clients : \E o \in cl[c].batch :
                  IsOldest(o, cl[c].batch) /\ q.ops = {o}
        BY RequestOrigin
      <3> QED BY <1>5, <1>6, <1>7, <3>1, <3>2, <3>3
    <2>2. PICK S : S = q.ops /\ S \subseteq Authored /\ Covered(S) BY <2>1
    <2>3. \A x \in S : \A o \in Authored' : Precedes(o, x)' => o \in S \union Logged'
      BY <1>4, <2>2
    <2> QED BY <2>2, <2>3 DEF Covered
  <1>10. ASSUME actor'.phase = "append" PROVE Covered(actor.todo)'
    <2>1. \E S, T : /\ S \subseteq Authored /\ Covered(S) /\ T = actor'.todo /\ T \subseteq S
                    /\ \A o \in S \ T : o \in Logged'
      <3>1. CASE actor'.todo = actor.todo /\ actor.phase = "append"
        BY <1>3, <3>1 DEF OrderInv
      <3>2. CASE \E q \in requests : actor'.todo = q.ops
        BY <1>3, <3>2 DEF OrderInv
      <3>3. ASSUME actor.phase = "append", NEW o \in actor.todo, actor'.todo = actor.todo \ {o},
                   o \in Logged \/ oplog' = Append(oplog, o)
            PROVE  \E S, T : /\ S \subseteq Authored /\ Covered(S) /\ T = actor'.todo /\ T \subseteq S
                             /\ \A p \in S \ T : p \in Logged'
        <4>1. o \in Ops BY <1>3 DEF Authored
        <4>2. o \in Logged' BY <1>1, <1>2, <3>3, <4>1, AppendedIsLater
        <4> QED BY <1>3, <3>3, <4>2 DEF OrderInv
      <3> QED BY <1>10, <3>1, <3>2, <3>3, TodoOrigin
    <2>2. PICK S, T : /\ S \subseteq Authored /\ Covered(S) /\ T = actor'.todo /\ T \subseteq S
                      /\ \A o \in S \ T : o \in Logged'
      BY <2>1
    <2>3. \A x \in T : \A o \in Authored' : Precedes(o, x)' => o \in T \union Logged'
      BY <1>2, <2>2, CoveredStays
    <2> QED BY <2>2, <2>3 DEF Covered
  <1>11. ASSUME NEW c \in Clients PROVE Covered(cl[c].batch)'
    <2>1. \E S, T : /\ S \subseteq Authored /\ Covered(S) /\ T = cl'[c].batch /\ T \subseteq S
                    /\ \A o \in S \ T : Sound(o) => o \in Logged
      <3>1. CASE cl'[c].batch = cl[c].batch BY <1>3, <3>1 DEF OrderInv
      <3>2. CASE cl'[c].batch = {} BY <3>2 DEF Covered
      <3>3. CASE cl'[c].batch = PendingOutbox(rep[c], row) BY <1>5, <1>7, <3>3
      <3>4. ASSUME NEW o \in cl[c].batch, IsOldest(o, cl[c].batch),
                   OneAccepted(c) \/ OneRejected(c)
            PROVE  Sound(o) => o \in Logged
        <4>1. OneQuestion(c) /\ cl[c].batch \subseteq Authored BY <1>3 DEF Conversations
        <4>2. CASE OneRejected(c)
          <5>1. o \in Unacceptable \union Logged
            BY <3>4, <4>1, <4>2 DEF OneRejected, OneQuestion
          <5> QED BY <5>1 DEF Sound
        <4>3. CASE OneAccepted(c)
          <5>1. Asks(c, OpsOf(replies[Worker(c)].ops)) /\ cl[c].stage = "isolating"
            BY <4>1, <4>3 DEF OneAccepted, OneQuestion
          <5>2. PICK p \in cl[c].batch : /\ IsOldest(p, cl[c].batch)
                                         /\ OpsOf(replies[Worker(c)].ops) = {p}
            BY <5>1 DEF Asks
          <5>3. p = o BY <3>4, <4>1, <5>2, OldestIsOne
          <5>4. OpsOf(replies[Worker(c)].ops) \subseteq Logged
            BY WorkerIsCaller DEF InFlight, BackedBy, OpsOf, Logged
          <5> QED BY <5>2, <5>3, <5>4
        <4> QED BY <3>4, <4>2, <4>3
      <3>5. ASSUME NEW o \in cl[c].batch, IsOldest(o, cl[c].batch),
                   OneAccepted(c) \/ OneRejected(c), cl'[c].batch = cl[c].batch \ {o}
            PROVE  \E S, T : /\ S \subseteq Authored /\ Covered(S) /\ T = cl'[c].batch
                             /\ T \subseteq S /\ \A p \in S \ T : Sound(p) => p \in Logged
        BY <1>3, <3>4, <3>5 DEF OrderInv
      <3> QED BY <3>1, <3>2, <3>3, <3>5, BatchOrigin
    <2>2. PICK S, T : /\ S \subseteq Authored /\ Covered(S) /\ T = cl'[c].batch /\ T \subseteq S
                      /\ \A o \in S \ T : Sound(o) => o \in Logged
      BY <2>1
    <2>3. \A x \in T : \A o \in Authored' : Precedes(o, x)' => o \in T \union Logged'
      BY <1>2, <2>2, CoveredStays
    <2> QED BY <2>2, <2>3 DEF Covered
  <1>12. ASSUME NEW i \in DOMAIN oplog', NEW o \in Ops, AuthorOf[o] = AuthorOf[oplog'[i]],
                row'[o] > 0, row'[o] < row'[oplog'[i]], Sound(o)
         PROVE  \E j \in 1 .. (i - 1) : oplog'[j] = o
    <2>1. DOMAIN oplog = 1 .. Len(oplog) /\ Len(oplog) \in Nat BY <1>1, LenProperties
    <2>2. ASSUME NEW x \in Authored, x = oplog'[i]
          PROVE  o \in Authored /\ Precedes(o, x) /\ row[o] > 0
      <3>1. o \in Authored' BY <1>12 DEF Authored
      <3>2. Precedes(o, x)' BY <1>12, <2>2 DEF Precedes, Sound
      <3> QED BY <3>1, <3>2, PrecedesStays DEF Authored
    <2>3. ASSUME i \in DOMAIN oplog, \A j \in DOMAIN oplog : oplog'[j] = oplog[j]
          PROVE  \E j \in 1 .. (i - 1) : oplog'[j] = o
      <3>1. oplog'[i] = oplog[i] /\ oplog[i] \in Authored BY <1>3, <2>3 DEF Logged
      <3>2. Precedes(o, oplog[i]) /\ row[o] > 0 BY <2>2, <3>1
      <3>3. \E j \in 1 .. (i - 1) : oplog[j] = o
        BY <2>3, <3>2 DEF OrderInv, AuthorOrder, Precedes
      <3> QED BY <2>1, <2>3, <3>3
    <2>4. CASE oplog' = oplog BY <2>3, <2>4
    <2>5. ASSUME actor.phase = "append", NEW x \in actor.todo, IsOldest(x, actor.todo),
                 oplog' = Append(oplog, x)
          PROVE  \E j \in 1 .. (i - 1) : oplog'[j] = o
      <3>1. x \in Authored /\ x \in Ops BY <1>3 DEF Authored
      <3>2. /\ DOMAIN oplog' = 1 .. (Len(oplog) + 1)
            /\ \A j \in DOMAIN oplog : oplog'[j] = oplog[j]
            /\ oplog'[Len(oplog) + 1] = x
            /\ \A p \in Logged : \E j \in 1 .. Len(oplog) : oplog'[j] = p
        BY <1>1, <2>5, <3>1, AppendedIsLater
      <3>3. CASE i \in DOMAIN oplog BY <2>3, <3>2, <3>3
      <3>4. CASE i \notin DOMAIN oplog
        <4>1. i = Len(oplog) + 1 BY <2>1, <3>2, <3>4
        <4>2. o \in Authored /\ Precedes(o, x) BY <2>2, <3>1, <3>2, <4>1
        <4>3. o \in actor.todo \union Logged BY <2>5, <4>2 DEF OrderInv, Covered
        <4>4. row[o] < row[x] /\ row[o] \in Nat /\ row[x] \in Nat
          BY <3>1, <4>2 DEF Precedes, TypeOK
        <4>5. o \in Logged BY <2>5, <4>3, <4>4 DEF IsOldest
        <4>6. i - 1 = Len(oplog) BY <2>1, <4>1
        <4> QED BY <3>2, <4>5, <4>6
      <3> QED BY <3>3, <3>4
    <2> QED BY <2>4, <2>5, LogStep
  <1>13. AuthorOrder' BY <1>12 DEF AuthorOrder, Sound
  <1> QED BY <1>9, <1>10, <1>11, <1>13 DEF OrderInv

----------------------------------------------------------------------------
(* What the promises rest on *)

\* The inductive invariant of the whole protocol: what IInv says of every
\* reachable state, the server's replica and the actor's rows, what is known to
\* whom, causes, questions and answers, held operations and the authors' order.
ProtocolInv ==
    /\ IInv
    /\ ServerInv
    /\ RowsInOrder /\ KnownAuthored
    /\ ServerCauses /\ DeviceCauses
    /\ Conversations /\ HeldInv
    /\ history.removed \/ (BuiltOnRows /\ OrderInv)

\* The initial state satisfies it.
LEMMA InitProtocol == Init => ProtocolInv
  <1> SUFFICES ASSUME Init PROVE ProtocolInv OBVIOUS
  <1>1. IInv BY InitInv
  <1>2. /\ oplog = <<>> /\ srv = EmptyReplica /\ actor = IdleActor /\ requests = {}
        /\ row = [o \in Ops |-> 0] /\ history = [removed |-> FALSE, left |-> FALSE]
        /\ replies = [k \in Callers |-> NoReply] /\ up
        /\ rep = [c \in Clients |-> EmptyReplica] /\ cl = [c \in Clients |-> IdleWorker]
    BY DEF Init, ServerInit
  <1>3. Len(oplog) = 0 /\ DOMAIN oplog = {} /\ Logged = {} BY <1>2 DEF Logged
  <1>4. Authored = {} BY <1>2 DEF Authored
  <1>5. /\ srv.cursor = 0 /\ srv.applied = {} /\ srv.outbox = {} /\ srv.held = {}
        /\ \A o \in Ops : srv.seq[o] = 0
    BY <1>2 DEF EmptyReplica
  <1>6. 1 .. srv.cursor = {} /\ (srv.cursor + 1) .. Len(oplog) = {} BY <1>3, <1>5
  <1>7. Committed = {} BY <1>6 DEF Committed
  <1>8. /\ actor.phase = "idle" /\ actor.to = Nobody /\ actor.todo = {} /\ actor.done = {}
        /\ actor.inserted = {} /\ actor.status = "none"
    BY <1>2 DEF IdleActor
  <1>9. ServerInv
    BY <1>3, <1>5, <1>6, <1>7, <1>8 DEF ServerInv, ServerHolds, ActorOwnsTail, Agrees,
       Numbered, CaughtUp
  <1>10. RowsInOrder
    <2>1. Cardinality(Authored) = 0 BY <1>4, FS_EmptySet
    <2> QED BY <1>2, <1>4, <2>1 DEF RowsInOrder
  <1>11. ASSUME NEW c \in Clients
         PROVE  /\ rep[c].applied = {} /\ rep[c].outbox = {} /\ rep[c].held = {}
                /\ cl[c].batch = {} /\ OpsOf(cl[c].page) = {} /\ cl[c].stage = "idle"
    BY <1>2 DEF EmptyReplica, IdleWorker, OpsOf
  <1>12. KnownAuthored BY <1>2, <1>3, <1>5, <1>8, <1>11 DEF KnownAuthored
  <1>13. ServerCauses BY <1>2, <1>3, <1>4, <1>8 DEF ServerCauses
  <1>14. DeviceCauses BY <1>6 DEF DeviceCauses
  <1>15. ASSUME NEW c \in Clients PROVE OneQuestion(c)
    <2>1. Worker(c) # Nobody /\ Worker(c) \in Callers BY CallersDiffer, WorkerIsCaller
    <2>2. replies[Worker(c)].status = "none" BY <1>2, <2>1 DEF NoReply
    <2> QED BY <1>2, <1>8, <2>1, <2>2 DEF OneQuestion
  <1>16. Conversations BY <1>8, <1>15 DEF Conversations, RefusedWithReason
  <1>17. HeldInv BY <1>11 DEF HeldInv, HeldAreUnacceptable
  <1>18. BuiltOnRows BY <1>3, <1>4, <1>11 DEF BuiltOnRows
  <1>19. OrderInv BY <1>2, <1>3, <1>8, <1>11 DEF OrderInv, Covered, AuthorOrder
  <1> QED BY <1>1, <1>9, <1>10, <1>12, <1>13, <1>14, <1>16, <1>17, <1>18, <1>19
          DEF ProtocolInv

\* A step that changes nothing keeps what was built on the log.
LEMMA StutterKeeps ==
    ASSUME UNCHANGED vars, BuiltOnRows, OrderInv PROVE BuiltOnRows' /\ OrderInv'
  <1>1. UNCHANGED <<row, oplog, actor, requests, rep, cl, history>>
    BY DEF vars, serverVars, disk, clientVars
  <1> QED BY <1>1 DEF BuiltOnRows, OrderInv, Covered, Precedes, AuthorOrder, Authored,
          Logged, Earlier, Sound

\* Every step keeps it.
LEMMA ProtocolStep ==
    ASSUME ProtocolInv, [Next]_vars PROVE ProtocolInv'
  <1>1. /\ TypeOK /\ FiniteBatches /\ Injective(oplog) /\ IInv
        /\ history.removed \/ (InFlight /\ NoLostOps)
    BY DEF ProtocolInv, IInv, AppendOnlyInv
  <1>2. IInv' BY <1>1, InvStep
  <1>3. ServerInv' BY <1>1, ServerInvStep DEF ProtocolInv
  <1>4. RowsInOrder' BY <1>1, RowsStep DEF ProtocolInv
  <1>5. KnownAuthored' BY <1>1, KnownStep DEF ProtocolInv
  <1>6. ServerCauses' BY <1>1, ServerCausesStep DEF ProtocolInv
  <1>7. DeviceCauses' BY <1>1, DeviceCausesStep DEF ProtocolInv
  <1>8. Conversations' BY <1>1, ConversationsStep DEF ProtocolInv
  <1>9. HeldInv' BY <1>1, HeldStep DEF ProtocolInv
  <1>10. ASSUME ~ history'.removed PROVE BuiltOnRows' /\ OrderInv'
    <2>1. ~ history.removed BY <1>1, <1>10, HistoryStep
    <2>2. InFlight /\ NoLostOps /\ BuiltOnRows /\ OrderInv
      BY <1>1, <2>1 DEF ProtocolInv
    <2>3. CASE UNCHANGED vars BY <2>2, <2>3, StutterKeeps
    <2>4. CASE Next
      <3>1. Grows(oplog, oplog') BY <1>1, <1>10, <2>4, LogStep DEF Grows
      <3>2. BuiltOnRows' BY <1>1, <2>2, <2>4, <3>1, BuiltOnRowsStep DEF ProtocolInv
      <3>3. OrderInv' BY <1>1, <1>10, <2>1, <2>2, <2>4, <3>1, OrderStep DEF ProtocolInv
      <3> QED BY <3>2, <3>3
    <2> QED BY <2>3, <2>4
  <1> QED BY <1>2, <1>3, <1>4, <1>5, <1>6, <1>7, <1>8, <1>9, <1>10 DEF ProtocolInv

\* Every reachable state satisfies the invariant of the protocol.
THEOREM ProtocolHolds == Spec => []ProtocolInv
  BY InitProtocol, ProtocolStep, PTL DEF Spec

\* Rows of the log that the server's replica has applied are neither removed nor
\* replaced by any step, rollbacks, failed rollbacks and crashes included
\* (ingest_operations, remove_tail).
THEOREM CommittedRowsStayAlways == Spec => CommittedRowsStay
  <1>1. ASSUME ProtocolInv, [Next]_vars
        PROVE  /\ Len(oplog') >= srv.cursor
               /\ \A i \in 1 .. srv.cursor : oplog'[i] = oplog[i]
    <2>1. TypeOK /\ TypeOK' /\ FiniteBatches /\ Injective(oplog) /\ ServerInv
      BY <1>1, ProtocolStep DEF ProtocolInv, IInv
    <2>2. srv.cursor \in Nat /\ Len(oplog') \in Nat
      BY <2>1, LenProperties DEF TypeOK, Replicas
    <2> QED BY <1>1, <2>1, <2>2, CommittedKept
  <1>2. ProtocolInv /\ [Next]_vars =>
          [/\ Len(oplog') >= srv.cursor
           /\ \A i \in 1 .. srv.cursor : oplog'[i] = oplog[i]]_vars
    BY <1>1
  <1> QED BY <1>2, ProtocolHolds, PTL DEF Spec, CommittedRowsStay

\* Nothing lies beyond the cursor of a server that is idle and up, unless it was
\* left there.
LEMMA ServerHoldsLog ==
    ASSUME TypeOK, ServerInv PROVE ServerMaterializesLog
  <1> SUFFICES ASSUME actor.phase = "idle", up, ~history.left
               PROVE  srv.cursor = Len(oplog) /\ srv.applied = Logged \union srv.outbox
    BY DEF ServerMaterializesLog
  <1>1. /\ oplog \in Seq(Ops) /\ srv \in Replicas /\ srv.cursor \in Nat
        /\ DOMAIN oplog = 1 .. Len(oplog) /\ Len(oplog) \in Nat
    BY LenProperties DEF TypeOK, Replicas
  <1>2. (srv.cursor + 1) .. Len(oplog) = {} /\ srv.cursor <= Len(oplog)
    BY DEF ServerInv, ServerHolds, ActorOwnsTail, Agrees, CaughtUp
  <1>3. srv.cursor = Len(oplog)
    <2>1. CASE srv.cursor < Len(oplog)
      <3>1. Len(oplog) \in (srv.cursor + 1) .. Len(oplog) BY <1>1, <2>1
      <3> QED BY <1>2, <3>1
    <2> QED BY <1>1, <1>2, <2>1
  <1>4. srv.applied = Committed \union srv.outbox BY DEF ServerInv, ServerHolds
  <1> QED BY <1>1, <1>3, <1>4 DEF Committed, Logged

\* Between two batches the server's replica is the log plus its own unpublished
\* writes, after rollbacks and restarts too, unless remove_tail itself has failed
\* (run_user_actor, replay_oplog).
THEOREM ServerMaterializesLogAlways == Spec => []ServerMaterializesLog
  <1>1. ProtocolInv => ServerMaterializesLog BY ServerHoldsLog DEF ProtocolInv, IInv
  <1> QED BY <1>1, ProtocolHolds, PTL

\* In what the server has applied, every operation comes after all it needs, and
\* nothing is in the log twice, whatever is retried, isolated, published by two
\* at once, rolled back or replayed; once a row was taken back, a device's
\* operation may come before a write of the server it has read.
THEOREM CausalLogAlways == Spec => []CausalLog
  <1>1. ASSUME ProtocolInv PROVE CausalLog
    <2>1. /\ oplog \in Seq(Ops) /\ srv.cursor \in Nat /\ Injective(oplog)
          /\ DOMAIN oplog = 1 .. Len(oplog) /\ Len(oplog) \in Nat
      BY <1>1, LenProperties DEF ProtocolInv, IInv, TypeOK, Replicas
    <2>2. ASSUME NEW i \in DOMAIN oplog, i <= srv.cursor, NEW p \in Needs[oplog[i]],
                 ~ (history.removed /\ ByServer(p) /\ ~ ByServer(oplog[i]))
          PROVE  Earlier(i, p)
      <3>1. CASE ByServer(oplog[i]) BY <1>1, <3>1 DEF ProtocolInv, ServerCauses
      <3>2. CASE ~ ByServer(oplog[i]) /\ ~ ByServer(p)
        <4>1. i \in 1 .. srv.cursor BY <2>1, <2>2
        <4> QED BY <1>1, <3>2, <4>1 DEF ProtocolInv, DeviceCauses
      <3>3. CASE ~ ByServer(oplog[i]) /\ ByServer(p)
        BY <1>1, <2>2, <3>3 DEF ProtocolInv, BuiltOnRows
      <3> QED BY <3>1, <3>2, <3>3
    <2>3. \A i, j \in DOMAIN oplog : oplog[i] = oplog[j] => i = j BY <2>1 DEF Injective
    <2> QED BY <2>2, <2>3 DEF CausalLog, Earlier, ByServer
  <1> QED BY <1>1, ProtocolHolds, PTL

\* Isolation holds back only what the server refuses for good, under every
\* dropped connection, storage error, crash and race of two uploads, unless
\* remove_tail has failed (terminal_rejection, isolate_rejected_batch).
THEOREM HeldAreUnacceptableAlways == Spec => []HeldAreUnacceptable
  <1>1. ProtocolInv => HeldAreUnacceptable BY DEF ProtocolInv, HeldInv
  <1> QED BY <1>1, ProtocolHolds, PTL

\* The operations of one author enter the log in the order they were made, but
\* for those the server does not take, as long as remove_tail has not run
\* (pending_outbox, isolate_rejected_batch, finish_before_exit).
THEOREM AuthorOrderAlways == Spec => []AuthorOrder
  <1>1. ProtocolInv => AuthorOrder BY DEF ProtocolInv, OrderInv, AuthorOrder
  <1> QED BY <1>1, ProtocolHolds, PTL

----------------------------------------------------------------------------
(* The protocol implements the shared log *)

position == [c \in Clients |-> rep[c].cursor]
absVars == <<Authored, oplog, position>>

\* The steps of a device leave the replicas of the others alone.
LEMMA OthersKeepReplica ==
    ASSUME TypeOK, NEW c \in Clients, ClientStep(c), NEW d \in Clients, c # d
    PROVE  rep'[d] = rep[d]
  <1> USE DEF disk, serverVars, clientVars, SetRep, SetCl
  <1>1. rep \in [Clients -> Replicas] BY DEF TypeOK
  <1> QED BY <1>1 DEF ClientStep, AuthorLocal, ReleaseHeld, StartPass, FetchPage,
     ApplyPage, RefusePage, SendOutbox, PushAccepted, PushRejected, SendOne,
     OneAccepted, OneRejected, FinishIsolation, PushFailed, Unreachable, Timeout,
     Kill, StartExit, ExitSend, ExitAccepted, ExitEnds, GiveUp, Acknowledge

\* A device's cursor stays or moves on inside the log.
LEMMA CursorStep ==
    ASSUME TypeOK, FiniteBatches, InFlight, SequencesAgree, Next, NEW c \in Clients
    PROVE  /\ rep[c].cursor \in Nat /\ rep'[c].cursor \in Nat
           /\ \/ rep'[c].cursor = rep[c].cursor
              \/ rep[c].cursor < rep'[c].cursor /\ rep'[c].cursor <= Len(oplog)
  <1>1. /\ rep[c] \in Replicas /\ oplog \in Seq(Ops) /\ rep[c].cursor \in Nat
        /\ cl[c] \in Workers
    BY DEF TypeOK, Replicas
  <1>2. ASSUME rep'[c] = ApplySequencedBatch(rep[c], cl[c].page),
               ApplyFault(rep[c], cl[c].page) = "none"
        PROVE  /\ rep'[c].cursor \in Nat
               /\ rep[c].cursor <= rep'[c].cursor /\ rep'[c].cursor <= Len(oplog)
    <2>1. /\ cl[c].page \in SUBSET SequencedOp /\ IsFiniteSet(cl[c].page)
          /\ BackedBy(oplog, cl[c].page)
      BY <1>1 DEF Workers, FiniteBatches, InFlight
    <2>2. rep[c].cursor <= Len(oplog) BY DEF SequencesAgree, Agrees, CaughtUp
    <2>3. ~ SeqGap(rep[c], cl[c].page) BY <1>2 DEF ApplyFault
    <2>4. rep'[c].cursor = NewCursor(rep[c], cl[c].page) BY <1>2 DEF ApplySequencedBatch
    <2> QED BY <1>1, <2>1, <2>2, <2>3, <2>4, FreshIsInterval
  <1>3. /\ \A o : AuthorOp(rep[c], o).cursor = rep[c].cursor
        /\ \A o : QuarantineOp(rep[c], o).cursor = rep[c].cursor
        /\ ReleaseQuarantined(rep[c]).cursor = rep[c].cursor
        /\ \A b : AcknowledgeServerOps(rep[c], b).cursor = rep[c].cursor
    BY <1>1 DEF AuthorOp, QuarantineOp, ReleaseQuarantined, AcknowledgeServerOps, Replicas
  <1>4. \/ rep'[c].cursor = rep[c].cursor
        \/ /\ rep'[c] = ApplySequencedBatch(rep[c], cl[c].page)
           /\ ApplyFault(rep[c], cl[c].page) = "none"
    BY <1>3, ReplicaOrigin
  <1>5. Len(oplog) \in Nat BY <1>1, LenProperties
  <1> QED BY <1>1, <1>2, <1>4, <1>5

\* A device whose cursor moves inside the log reads, as far as the log can tell.
LEMMA ReaderMoves ==
    ASSUME TypeOK, UNCHANGED <<row, oplog>>, NEW c \in Clients,
           \A d \in Clients : d # c => rep'[d] = rep[d],
           rep[c].cursor \in Nat, rep'[c].cursor \in Nat,
           \/ rep'[c].cursor = rep[c].cursor
           \/ rep[c].cursor < rep'[c].cursor /\ rep'[c].cursor <= Len(oplog)
    PROVE  [Abstract!Next]_absVars
  <1>1. CASE rep'[c].cursor = rep[c].cursor
    <2>1. position' = position BY <1>1 DEF position
    <2> QED BY <2>1 DEF absVars, Authored
  <1>2. CASE rep'[c].cursor # rep[c].cursor
    <2>1. PICK n : n = rep'[c].cursor OBVIOUS
    <2>2. position[c] < n /\ n <= Len(oplog) BY <1>2, <2>1 DEF position
    <2>3. position' = [position EXCEPT ![c] = n] BY <2>1 DEF position
    <2>4. Authored' = Authored BY DEF Authored
    <2>5. n \in 1 .. Len(oplog)
      <3>1. Len(oplog) \in Nat BY LenProperties DEF TypeOK
      <3> QED BY <1>2, <2>1, <3>1
    <2>6. Abstract!Read(c, n) BY <2>2, <2>3, <2>4 DEF Abstract!Read, Authored, position
    <2> QED BY <2>5, <2>6 DEF Abstract!Next
  <1> QED BY <1>1, <1>2

\* AuthorServer and AuthorLocal write an operation, AppendNext sequences one,
\* ApplyPage reads, and every other step is invisible.
LEMMA RefinementStep ==
    ASSUME IInv, KnownAuthored, RowsInOrder, ~ history.removed, Next, ~ history'.removed
    PROVE  [Abstract!Next]_absVars
  <1>1. /\ TypeOK /\ FiniteBatches /\ InFlight /\ SequencesAgree
        /\ KnownAuthored /\ RowsInOrder
    BY DEF IInv, AppendOnlyInv
  <1>2. oplog \in Seq(Ops) /\ row \in [Ops -> Nat] BY <1>1 DEF TypeOK
  <1>3. ASSUME NEW o \in Ops, row[o] = 0, row' = [row EXCEPT ![o] = NextRow]
        PROVE  o \notin Authored /\ Authored' = Authored \union {o}
    BY <1>2, <1>3, NextRowType DEF Authored
  <1>4. ASSUME NEW o \in Ops, row[o] = 0, row' = [row EXCEPT ![o] = NextRow],
               oplog' = oplog, \A c \in Clients : rep'[c].cursor = rep[c].cursor
        PROVE  Abstract!Write(o)
    <2>1. o \notin Authored /\ Authored' = Authored \union {o} BY <1>3, <1>4
    <2>2. position' = position BY <1>4 DEF position
    <2> QED BY <1>4, <2>1, <2>2 DEF Abstract!Write, Authored, position
  <1>5. ASSUME UNCHANGED <<row, oplog>>, \A c \in Clients : rep'[c].cursor = rep[c].cursor
        PROVE  UNCHANGED absVars
    BY <1>5 DEF absVars, Authored, position
  <1>6. ASSUME ServerStep, UNCHANGED clientVars PROVE [Abstract!Next]_absVars
    <2>1. rep' = rep BY <1>6 DEF clientVars
    <2>2. position' = position BY <2>1 DEF position
    <2>3. CASE row' # row
      <3>1. PICK o \in Ops : row[o] = 0 /\ row' = [row EXCEPT ![o] = NextRow]
        BY <1>1, <2>3, RowOrigin
      <3>2. oplog' = oplog
        BY <1>6, <2>3 DEF ServerStep, AuthorServer, PublishAuthored, RefusePush, StartIngest,
           AppendNext, ApplyIngested, SnapshotFails, Materialize, RejectIngested, StorageFault,
           RemoveTail, RemoveTailFails, FailIngest, ServerCrash, ServerStart, disk
      <3>3. Abstract!Write(o) BY <1>4, <2>1, <3>1, <3>2
      <3> QED BY <3>3 DEF Abstract!Next
    <2>4. CASE row' = row /\ oplog' = oplog BY <1>5, <2>1, <2>4
    <2>5. CASE row' = row /\ oplog' # oplog
      <3>1. PICK o \in Ops : o \in actor.todo /\ o \notin Logged /\ oplog' = Append(oplog, o)
        BY <1>1, <2>5, LogStep
      <3>2. o \in Authored BY <1>1, <3>1 DEF KnownAuthored
      <3>3. \A i \in DOMAIN oplog : oplog[i] # o BY <3>1 DEF Logged
      <3>4. Authored' = Authored BY <2>5 DEF Authored
      <3>5. Abstract!Sequence(o)
        BY <2>2, <3>1, <3>2, <3>3, <3>4 DEF Abstract!Sequence, Authored, position
      <3> QED BY <3>5 DEF Abstract!Next
    <2> QED BY <2>3, <2>4, <2>5
  <1>7. ASSUME NEW c \in Clients, ClientStep(c) PROVE [Abstract!Next]_absVars
    <2>1. oplog' = oplog BY <1>1, <1>7, ClientLeavesServer
    <2>2. \A d \in Clients : d # c => rep'[d] = rep[d] BY <1>1, <1>7, OthersKeepReplica
    <2>3. /\ rep[c].cursor \in Nat /\ rep'[c].cursor \in Nat
          /\ \/ rep'[c].cursor = rep[c].cursor
             \/ rep[c].cursor < rep'[c].cursor /\ rep'[c].cursor <= Len(oplog)
      BY <1>1, CursorStep
    <2>4. CASE \E o \in Ops : AuthorLocal(c, o)
      <3>1. PICK o \in Ops : AuthorLocal(c, o) BY <2>4
      <3>2. /\ row[o] = 0 /\ row' = [row EXCEPT ![o] = NextRow]
            /\ rep' = [rep EXCEPT ![c] = AuthorOp(rep[c], o)]
        BY <3>1 DEF AuthorLocal, SetRep
      <3>3. rep'[c].cursor = rep[c].cursor
        BY <1>1, <3>2 DEF TypeOK, AuthorOp, Replicas
      <3>4. Abstract!Write(o) BY <1>4, <2>1, <2>2, <3>2, <3>3
      <3> QED BY <3>4 DEF Abstract!Next
    <2>5. CASE ~ \E o \in Ops : AuthorLocal(c, o)
      <3>1. row' = row
        BY <1>7, <2>5 DEF ClientStep, ReleaseHeld, StartPass, FetchPage,
           ApplyPage, RefusePage, SendOutbox, PushAccepted, PushRejected, SendOne,
           OneAccepted, OneRejected, FinishIsolation, PushFailed, Unreachable, Timeout,
           Kill, StartExit, ExitSend, ExitAccepted, ExitEnds, serverVars
      <3> QED BY <1>1, <2>1, <2>2, <2>3, <3>1, ReaderMoves
    <2> QED BY <2>4, <2>5
  <1> QED BY <1>6, <1>7 DEF Next

\* An empty log with every device at its start.
LEMMA InitRefines == Init => Abstract!Init
  <1> SUFFICES ASSUME Init PROVE Abstract!Init OBVIOUS
  <1>1. /\ oplog = <<>> /\ row = [o \in Ops |-> 0] /\ rep = [c \in Clients |-> EmptyReplica]
    BY DEF Init, ServerInit
  <1>2. Authored = {} BY <1>1 DEF Authored
  <1>3. position = [c \in Clients |-> 0] BY <1>1 DEF position, EmptyReplica
  <1> QED BY <1>1, <1>2, <1>3 DEF Abstract!Init, Authored, position

\* As long as remove_tail does not run, devices, exit uploads, retries, crashes
\* and kills together are a shared log: every operation is sequenced at most
\* once, after it was made, and every device reads the log in order.
THEOREM SharedLogImplemented == Spec /\ [](~history.removed) => ImplementsSharedLog
  <1>1. Init => Abstract!Init BY InitRefines
  <1>2. ProtocolInv /\ ~history.removed /\ ~history'.removed /\ [Next]_vars
          => [Abstract!Next]_absVars
    <2>1. ASSUME UNCHANGED vars PROVE UNCHANGED absVars
      BY <2>1 DEF vars, serverVars, disk, clientVars, absVars, Authored, position
    <2> QED BY <2>1, RefinementStep DEF ProtocolInv
  <1>3. ProtocolInv /\ ~history.removed /\ (~history.removed)' /\ [Next]_vars
          => [Abstract!Next]_<<{o \in Ops : row[o] > 0}, oplog,
                               [c \in Clients |-> rep[c].cursor]>>
    BY <1>2 DEF absVars, Authored, position
  <1> QED BY <1>1, <1>3, ProtocolHolds, PTL DEF Spec, ImplementsSharedLog, Abstract!Spec
=============================================================================
