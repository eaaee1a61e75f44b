----------------------------- MODULE LiveProofs -----------------------------
(***************************************************************************)
(* Safety of the live session for any number of devices and operations,    *)
(* any capacity of the channel and any budget of faults.                   *)
(*                                                                         *)
(* Most of the invariant is that of the protocol (SyncProofs): a session   *)
(* takes the steps of a pass and of the server, and some of its own that   *)
(* move one replica or none.  What is new is that the rows a device lacks  *)
(* are always on their way: from the backlog on, whatever leaves the       *)
(* server's channel and the socket has been applied by the device.         *)
(***************************************************************************)
EXTENDS LiveSync, SyncProofs

\* A set for each queue of a session: what is in it, whatever the order.
Elements(s) == {s[i] : i \in DOMAIN s}

Messages == [kind : {"ops", "ack", "reject", "fail"}, ops : SUBSET SequencedOp]
Sessions == [phase : {"offline", "pass", "ready", "open", "resync", "ended"},
             server : {"off", "backlog", "serving", "ingesting"},
             unread : Seq(SUBSET Ops), inbox : Seq(Messages),
             feed : Seq(SequencedOp), lagged : BOOLEAN,
             full : BOOLEAN, missed : BOOLEAN]

\* What is sent is finite and was made by somebody, and a server that is down
\* serves no session.
Sane(s) ==
    /\ s \in Sessions
    /\ ~up => s.server = "off"
    /\ \A b \in Elements(s.unread) : b \subseteq Authored
    /\ \A m \in Elements(s.inbox) :
        m.kind = "ops" => IsFiniteSet(m.ops) /\ OpsOf(m.ops) \subseteq Authored
    /\ OpsOf(Elements(s.feed)) \subseteq Authored

\* Everything on its way through a session is a row of the log.
Backed(s) ==
    /\ BackedBy(oplog, Elements(s.feed))
    /\ \A m \in Elements(s.inbox) : BackedBy(oplog, m.ops)

\* The row i is on its way to the device.
Coming(s, i) ==
    \/ \E m \in Elements(s.inbox) : m.kind = "ops" /\ i \in SeqsOf(m.ops)
    \/ i \in SeqsOf(Elements(s.feed))

\* A session that has read its backlog and lost nothing.
Following(s) ==
    /\ s.server \in {"serving", "ingesting"} /\ s.phase \in {"open", "resync"}
    /\ ~s.lagged /\ ~s.missed

\* Every row the server has applied and the device has not is on its way.
Supplied(s, r) == \A i \in (r.cursor + 1) .. srv.cursor : Coming(s, i)

Session(s, r) ==
    /\ Sane(s)
    /\ history.removed \/ Backed(s)
    /\ history.removed \/ history.left \/ (Following(s) => Supplied(s, r))

\* The invariant of the protocol that a session rests on, and that of all
\* sessions.
BaseInv == IInv /\ ServerInv /\ RowsInOrder /\ KnownAuthored

LiveInv ==
    /\ BaseInv
    /\ live \in [Clients -> Sessions]
    /\ \A c \in Clients : Session(live[c], rep[c])

----------------------------------------------------------------------------
(* Queues as sets *)

\* An append adds to what is in a queue.
LEMMA AppendElements ==
    ASSUME NEW T, NEW s \in Seq(T), NEW x \in T
    PROVE  Append(s, x) \in Seq(T) /\ Elements(Append(s, x)) = Elements(s) \union {x}
  <1>1. Len(s) \in Nat /\ DOMAIN s = 1 .. Len(s) BY LenProperties
  <1>2. /\ Append(s, x) \in Seq(T) /\ DOMAIN Append(s, x) = 1 .. (Len(s) + 1)
        /\ Append(s, x)[Len(s) + 1] = x
        /\ \A i \in 1 .. Len(s) : Append(s, x)[i] = s[i]
    BY <1>1, AppendProperties, LenProperties
  <1>3. 1 .. (Len(s) + 1) = (1 .. Len(s)) \union {Len(s) + 1} BY <1>1
  <1> QED BY <1>1, <1>2, <1>3 DEF Elements

\* The head is taken out.
LEMMA HeadElements ==
    ASSUME NEW T, NEW s \in Seq(T), s # <<>>
    PROVE  /\ Head(s) \in T /\ Tail(s) \in Seq(T)
           /\ Elements(s) = {Head(s)} \union Elements(Tail(s))
  <1>1. Len(s) \in Nat \ {0} /\ DOMAIN s = 1 .. Len(s) BY LenProperties, EmptySeq
  <1>2. /\ Head(s) \in T /\ Tail(s) \in Seq(T) /\ Len(Tail(s)) = Len(s) - 1
        /\ \A i \in 1 .. Len(Tail(s)) : Tail(s)[i] = s[i + 1]
    BY HeadTailProperties
  <1>3. DOMAIN Tail(s) = 1 .. (Len(s) - 1) BY <1>2, LenProperties
  <1>4. Head(s) = s[1] BY <1>1
  <1>5. ASSUME NEW i \in 1 .. Len(s)
        PROVE  i = 1 \/ (i - 1 \in DOMAIN Tail(s) /\ Tail(s)[i - 1] = s[i])
    BY <1>1, <1>2, <1>3
  <1>6. ASSUME NEW i \in DOMAIN Tail(s) PROVE i + 1 \in DOMAIN s /\ Tail(s)[i] = s[i + 1]
    BY <1>1, <1>2, <1>3
  <1>7. 1 \in DOMAIN s BY <1>1
  <1>8. Elements(s) \subseteq {Head(s)} \union Elements(Tail(s))
    BY <1>1, <1>4, <1>5 DEF Elements
  <1>9. {Head(s)} \union Elements(Tail(s)) \subseteq Elements(s)
    BY <1>4, <1>6, <1>7 DEF Elements
  <1> QED BY <1>2, <1>8, <1>9

\* Two queues together hold what each holds.
LEMMA ConcatElements ==
    ASSUME NEW T, NEW s \in Seq(T), NEW t \in Seq(T)
    PROVE  s \o t \in Seq(T) /\ Elements(s \o t) = Elements(s) \union Elements(t)
  <1>1. /\ Len(s) \in Nat /\ DOMAIN s = 1 .. Len(s)
        /\ Len(t) \in Nat /\ DOMAIN t = 1 .. Len(t)
    BY LenProperties
  <1>2. /\ s \o t \in Seq(T) /\ Len(s \o t) = Len(s) + Len(t)
        /\ \A i \in 1 .. Len(s) + Len(t) :
             (s \o t)[i] = IF i <= Len(s) THEN s[i] ELSE t[i - Len(s)]
    BY ConcatProperties
  <1>3. DOMAIN (s \o t) = 1 .. (Len(s) + Len(t)) BY <1>2, LenProperties
  <1>4. ASSUME NEW i \in DOMAIN (s \o t)
        PROVE  (s \o t)[i] \in Elements(s) \union Elements(t)
    <2>1. CASE i <= Len(s)
      <3>1. i \in DOMAIN s /\ (s \o t)[i] = s[i] BY <1>1, <1>2, <1>3, <2>1
      <3> QED BY <3>1 DEF Elements
    <2>2. CASE ~ (i <= Len(s))
      <3>1. i - Len(s) \in DOMAIN t /\ (s \o t)[i] = t[i - Len(s)]
        BY <1>1, <1>2, <1>3, <2>2
      <3> QED BY <3>1 DEF Elements
    <2> QED BY <2>1, <2>2
  <1>5. ASSUME NEW i \in DOMAIN s PROVE i \in DOMAIN (s \o t) /\ (s \o t)[i] = s[i]
    BY <1>1, <1>2, <1>3
  <1>6. ASSUME NEW i \in DOMAIN t
        PROVE  Len(s) + i \in DOMAIN (s \o t) /\ (s \o t)[Len(s) + i] = t[i]
    <2>1. Len(s) + i \in 1 .. (Len(s) + Len(t)) /\ ~ (Len(s) + i <= Len(s))
          /\ (Len(s) + i) - Len(s) = i
      BY <1>1
    <2> QED BY <1>2, <1>3, <2>1
  <1>7. Elements(s \o t) \subseteq Elements(s) \union Elements(t) BY <1>4 DEF Elements
  <1>8. Elements(s) \subseteq Elements(s \o t) BY <1>5 DEF Elements
  <1>9. Elements(t) \subseteq Elements(s \o t) BY <1>6 DEF Elements
  <1> QED BY <1>2, <1>7, <1>8, <1>9

\* A cut adds nothing.
LEMMA CutElements ==
    ASSUME NEW T, NEW s \in Seq(T), NEW m \in Nat \ {0}, NEW n \in Nat, n <= Len(s)
    PROVE  SubSeq(s, m, n) \in Seq(T) /\ Elements(SubSeq(s, m, n)) \subseteq Elements(s)
  <1>1. Len(s) \in Nat /\ DOMAIN s = 1 .. Len(s) BY LenProperties
  <1>2. \A i \in m .. n : i \in 1 .. Len(s) /\ s[i] \in T BY <1>1, ElementOfSeq
  <1>3. /\ SubSeq(s, m, n) \in Seq(T)
        /\ Len(SubSeq(s, m, n)) = IF m <= n THEN n - m + 1 ELSE 0
        /\ \A i \in 1 .. n - m + 1 : SubSeq(s, m, n)[i] = s[m + i - 1]
    BY <1>2, SubSeqProperties
  <1>4. DOMAIN SubSeq(s, m, n) \subseteq 1 .. n - m + 1 BY <1>3, LenProperties
  <1>5. ASSUME NEW i \in DOMAIN SubSeq(s, m, n)
        PROVE  m + i - 1 \in DOMAIN s /\ SubSeq(s, m, n)[i] = s[m + i - 1]
    BY <1>1, <1>2, <1>3, <1>4
  <1> QED BY <1>3, <1>5 DEF Elements

\* A queue of T holds members of T.
LEMMA QueueElements ==
    ASSUME NEW T, NEW s \in Seq(T) PROVE Elements(s) \subseteq T
  <1>1. DOMAIN s = 1 .. Len(s) BY LenProperties
  <1>2. \A i \in 1 .. Len(s) : s[i] \in T BY ElementOfSeq
  <1> QED BY <1>1, <1>2 DEF Elements

\* And an empty one nothing.
LEMMA EmptyElements == Elements(<<>>) = {}
  <1>1. DOMAIN <<>> = {} OBVIOUS
  <1> QED BY <1>1 DEF Elements

----------------------------------------------------------------------------
(* Steps of a session that are none of the protocol *)

\* q is r after a batch of rows of the log was applied or acknowledged.
Receives(r, q) ==
    \E b \in SUBSET SequencedOp :
        /\ history.removed \/ BackedBy(oplog, b)
        /\ \/ IsFiniteSet(b) /\ ApplyFault(r, b) = "none" /\ OpsOf(b) \subseteq Authored
              /\ q = ApplySequencedBatch(r, b)
           \/ q = AcknowledgeServerOps(r, b)

\* What such a step does to the devices and the questions to the server.
SideStep ==
    /\ UNCHANGED <<row, oplog, srv, up, history>>
    /\ actor' \in {actor, [actor EXCEPT !.to = Nobody]}
    /\ requests' \subseteq Requests /\ \A q \in requests' : q.ops \subseteq Authored
    /\ replies' \in [Callers -> Replies]
    /\ \A k \in Callers : replies'[k].ops \in {replies[k].ops, {}}
    /\ faults' \in 0 .. MaxFaults
    /\ rep' \in [Clients -> Replicas]
    /\ \A c \in Clients : rep'[c] = rep[c] \/ Receives(rep[c], rep'[c])
    /\ cl' \in [Clients -> Workers] /\ \A c \in Clients : cl'[c] \in {cl[c], IdleWorker}
    /\ ex' = ex

\* A step of that kind keeps the invariant of the protocol.
LEMMA SideStepKeeps ==
    ASSUME BaseInv, SideStep PROVE BaseInv'
  <1>0. /\ \A c \in Clients : cl'[c] = cl[c] \/ cl'[c] = IdleWorker
        /\ IdleWorker.page = {} /\ IdleWorker.accepted = {} /\ IdleWorker.batch = {}
        /\ \A c \in Clients : rep'[c] = rep[c] \/ Receives(rep[c], rep'[c])
    BY DEF SideStep, IdleWorker
  <1> USE DEF BaseInv, SideStep
  <1>1. /\ TypeOK /\ FiniteBatches /\ Injective(oplog)
        /\ oplog \in Seq(Ops) /\ rep \in [Clients -> Replicas] /\ actor \in Actors
    BY DEF IInv, TypeOK
  <1>2. /\ actor' \in Actors /\ actor'.phase = actor.phase /\ actor'.todo = actor.todo
        /\ actor'.done = actor.done /\ actor'.inserted = actor.inserted
    BY <1>1 DEF Actors
  <1>3. TypeOK' BY <1>1, <1>2 DEF TypeOK
  <1>4. FiniteBatches'
    <2>1. IsFiniteSet({}) BY FS_EmptySet
    <2>2. ASSUME NEW c \in Clients PROVE IsFiniteSet(cl'[c].page)
      BY <1>0, <1>1, <2>1 DEF FiniteBatches
    <2> QED BY <1>1, <1>2, <2>2 DEF FiniteBatches
  <1>5. ServerInv'
    <2>1. ServerHolds' BY DEF ServerInv, ServerHolds, Agrees, Numbered, CaughtUp, Committed
    <2>2. ActorOwnsTail' BY <1>2 DEF ServerInv, ActorOwnsTail, BackedBy
    <2> QED BY <2>1, <2>2 DEF ServerInv
  <1>6. RowsInOrder' BY DEF RowsInOrder, Authored
  <1>7. ASSUME ~ history.removed PROVE InFlight' /\ SequencesAgree' /\ NoLostOps'
    <2>1. InFlight /\ SequencesAgree /\ NoLostOps BY <1>7 DEF IInv, AppendOnlyInv
    <2>2. BackedBy(oplog, {}) BY DEF BackedBy
    <2>3. ASSUME NEW k \in Callers PROVE BackedBy(oplog, replies'[k].ops)
      BY <2>1, <2>2 DEF InFlight
    <2>4. ASSUME NEW c \in Clients
          PROVE  BackedBy(oplog, cl'[c].page) /\ BackedBy(oplog, cl'[c].accepted)
      <3>1. BackedBy(oplog, cl[c].page) /\ BackedBy(oplog, cl[c].accepted)
        BY <2>1 DEF InFlight
      <3> HIDE DEF BaseInv, SideStep
      <3> QED BY <1>0, <2>2, <3>1
    <2>5. InFlight' BY <1>2, <2>1, <2>3, <2>4 DEF InFlight, BackedBy
    <2>6. ASSUME NEW c \in Clients PROVE Moves(oplog, rep[c], rep'[c])
      <3> HIDE DEF BaseInv, SideStep
      <3>1. CASE rep'[c] = rep[c] BY <3>1, MovesForms
      <3>2. CASE Receives(rep[c], rep'[c])
        <4>1. PICK b \in SUBSET SequencedOp :
                /\ BackedBy(oplog, b)
                /\ \/ /\ IsFiniteSet(b) /\ ApplyFault(rep[c], b) = "none"
                      /\ rep'[c] = ApplySequencedBatch(rep[c], b)
                   \/ rep'[c] = AcknowledgeServerOps(rep[c], b)
          BY <1>7, <3>2 DEF Receives
        <4> QED BY <4>1, MovesForms
      <3> QED BY <1>0, <3>1, <3>2
    <2>7. ASSUME NEW c \in Clients PROVE Agrees(oplog, rep'[c])
      <3>1. rep[c] \in Replicas /\ Agrees(oplog, rep[c]) BY <1>1, <2>1 DEF SequencesAgree
      <3> QED BY <1>1, <2>6, <3>1, MovesAgree
    <2>8. SequencesAgree' BY <2>7 DEF SequencesAgree, Agrees, Numbered, CaughtUp
    <2>9. ASSUME NEW o \in Ops, row[o] > 0 PROVE o \in Logged \/ o \in OutboxOf(AuthorOf[o])'
      <3>1. o \in Logged \/ o \in OutboxOf(AuthorOf[o]) BY <2>1, <2>9 DEF NoLostOps
      <3>2. CASE AuthorOf[o] = Server BY <3>1, <3>2 DEF OutboxOf
      <3>3. CASE AuthorOf[o] # Server /\ o \in rep[AuthorOf[o]].outbox
        <4>1. AuthorOf[o] \in Clients BY <3>3, AuthorAssumption
        <4>2. \/ o \in rep'[AuthorOf[o]].outbox
              \/ \E i \in DOMAIN oplog : oplog[i] = o
          BY <1>1, <2>6, <3>3, <4>1, MovesKeepOutbox
        <4> QED BY <3>3, <4>2 DEF OutboxOf, Logged
      <3> QED BY <3>1, <3>2, <3>3 DEF OutboxOf
    <2>10. NoLostOps' BY <2>9 DEF NoLostOps, Logged
    <2> QED BY <2>5, <2>8, <2>10
  <1>8. IInv' BY <1>1, <1>3, <1>4, <1>7 DEF IInv, AppendOnlyInv, Injective
  <1>9. KnownAuthored'
    <2>1. ASSUME NEW c \in Clients
          PROVE  /\ rep'[c].applied \subseteq Authored
                 /\ rep'[c].outbox \subseteq rep'[c].applied
                 /\ \A o \in rep'[c].outbox : AuthorOf[o] = c
      <3>1. /\ rep[c].applied \subseteq Authored /\ rep[c].outbox \subseteq rep[c].applied
            /\ \A o \in rep[c].outbox : AuthorOf[o] = c
        BY DEF KnownAuthored
      <3>2. CASE rep'[c] = rep[c] BY <3>1, <3>2
      <3>3. ASSUME NEW b, OpsOf(b) \subseteq Authored, rep'[c] = ApplySequencedBatch(rep[c], b)
            PROVE  /\ rep'[c].applied \subseteq Authored
                   /\ rep'[c].outbox \subseteq rep'[c].applied
                   /\ \A o \in rep'[c].outbox : AuthorOf[o] = c
        <4> DEFINE new == OpsOf(Fresh(rep[c], b))
        <4>1. new \subseteq Authored BY <3>3 DEF OpsOf, Fresh
        <4>2. /\ rep'[c].applied = rep[c].applied \union new
              /\ rep'[c].outbox = rep[c].outbox \ new
          BY <3>3 DEF ApplySequencedBatch
        <4> HIDE DEF new
        <4> QED BY <3>1, <4>1, <4>2
      <3>4. ASSUME NEW b, rep'[c] = AcknowledgeServerOps(rep[c], b)
            PROVE  /\ rep'[c].applied = rep[c].applied
                   /\ rep'[c].outbox \subseteq rep[c].outbox
        BY <3>4 DEF AcknowledgeServerOps
      <3> QED BY <1>0, <3>1, <3>2, <3>3, <3>4 DEF Receives
    <2>2. ASSUME NEW c \in Clients
          PROVE  /\ \A o \in cl'[c].batch : AuthorOf[o] = c
                 /\ cl'[c].batch \subseteq Authored /\ OpsOf(cl'[c].page) \subseteq Authored
      <3>1. /\ \A o \in cl[c].batch : AuthorOf[o] = c
            /\ cl[c].batch \subseteq Authored /\ OpsOf(cl[c].page) \subseteq Authored
        BY DEF KnownAuthored
      <3>2. IdleWorker.batch = {} /\ OpsOf(IdleWorker.page) = {} BY <1>0 DEF OpsOf
      <3> HIDE DEF BaseInv, SideStep
      <3> QED BY <1>0, <3>1, <3>2
    <2>3. Authored' = Authored /\ Logged' = Logged BY DEF Authored, Logged
    <2> QED BY <1>2, <2>1, <2>2, <2>3 DEF KnownAuthored
  <1> QED BY <1>5, <1>6, <1>8, <1>9

\* So do the steps of the protocol.
LEMMA ProtocolKeeps ==
    ASSUME BaseInv, [Next]_vars PROVE BaseInv' /\ Authored \subseteq Authored'
  <1>1. TypeOK /\ FiniteBatches /\ Injective(oplog) /\ KnownAuthored /\ RowsInOrder
        /\ ServerInv /\ IInv
    BY DEF BaseInv, IInv
  <1>2. IInv' BY <1>1, InvStep
  <1>3. ServerInv' BY <1>1, ServerInvStep
  <1>4. RowsInOrder' BY <1>1, RowsStep
  <1>5. KnownAuthored' BY <1>1, KnownStep
  <1>6. Authored \subseteq Authored' BY <1>1, AuthoredStays
  <1> QED BY <1>2, <1>3, <1>4, <1>5, <1>6 DEF BaseInv

----------------------------------------------------------------------------
(* One session at a time *)

\* What a session may gain and lose in a step.
Continues(s, t, q) ==
    /\ t \in Sessions
    /\ ~up => t.server = "off"
    /\ \A b \in Elements(t.unread) : b \in Elements(s.unread) \/ b \subseteq Authored
    /\ \A m \in Elements(t.inbox) :
        \/ m \in Elements(s.inbox)
        \/ /\ m.kind = "ops" => IsFiniteSet(m.ops) /\ OpsOf(m.ops) \subseteq Authored
           /\ history.removed \/ BackedBy(oplog, m.ops)
    /\ Elements(t.feed) \subseteq Elements(s.feed)
    /\ history.removed \/ history.left \/ (Following(t) => Supplied(t, q))

\* It is one again then.
LEMMA NextSession ==
    ASSUME NEW s, NEW r, Session(s, r), NEW t, NEW q, Continues(s, t, q)
    PROVE  Session(t, q)
  <1> USE DEF Continues
  <1>1. Sane(s) /\ (history.removed \/ Backed(s)) BY DEF Session
  <1>2. Sane(t)
    <2>1. OpsOf(Elements(t.feed)) \subseteq Authored BY <1>1 DEF Sane, OpsOf
    <2>2. \A b \in Elements(t.unread) : b \subseteq Authored BY <1>1 DEF Sane
    <2>3. \A m \in Elements(t.inbox) :
             m.kind = "ops" => IsFiniteSet(m.ops) /\ OpsOf(m.ops) \subseteq Authored
      BY <1>1 DEF Sane
    <2> QED BY <2>1, <2>2, <2>3 DEF Sane
  <1>3. history.removed \/ Backed(t)
    <2> SUFFICES ASSUME ~history.removed PROVE Backed(t) OBVIOUS
    <2>1. BackedBy(oplog, Elements(t.feed)) BY <1>1 DEF Backed, BackedBy
    <2>2. \A m \in Elements(t.inbox) : BackedBy(oplog, m.ops) BY <1>1 DEF Backed
    <2> QED BY <2>1, <2>2 DEF Backed
  <1> QED BY <1>2, <1>3 DEF Session

\* A session whose queues lose nothing that is still to come stays supplied.
LEMMA StillSupplied ==
    ASSUME NEW s, NEW r \in Replicas, Session(s, r), NEW t, NEW q \in Replicas,
           r.cursor <= q.cursor, Following(t) => Following(s), srv \in Replicas,
           \A i \in (q.cursor + 1) .. srv.cursor : Coming(s, i) => Coming(t, i)
    PROVE  history.removed \/ history.left \/ (Following(t) => Supplied(t, q))
  <1> SUFFICES ASSUME ~history.removed, ~history.left, Following(t),
                      NEW i \in (q.cursor + 1) .. srv.cursor
               PROVE  Coming(t, i)
    BY DEF Supplied
  <1>1. r.cursor \in Nat /\ q.cursor \in Nat /\ srv.cursor \in Nat BY DEF Replicas
  <1>2. i \in (r.cursor + 1) .. srv.cursor BY <1>1
  <1>3. Supplied(s, r) BY DEF Session
  <1> QED BY <1>2, <1>3 DEF Supplied

\* More in the queues is more to come.
LEMMA MoreIsComing ==
    ASSUME NEW s, NEW t, Elements(s.feed) \subseteq Elements(t.feed),
           Elements(s.inbox) \subseteq Elements(t.inbox)
    PROVE  \A i : Coming(s, i) => Coming(t, i)
  BY DEF Coming, SeqsOf

\* A new phase that is not a session's, or was one before, changes nothing.
LEMMA NextPhase ==
    ASSUME NEW s, NEW r \in Replicas, Session(s, r), NEW q \in Replicas,
           r.cursor <= q.cursor, srv \in Replicas,
           NEW p \in {"offline", "pass", "ready", "open", "resync", "ended"},
           p \in {"open", "resync"} => s.phase \in {"open", "resync"}
    PROVE  Session([s EXCEPT !.phase = p], q)
  <1> DEFINE u == [s EXCEPT !.phase = p]
  <1>1. s \in Sessions /\ (~up => s.server = "off") BY DEF Session, Sane
  <1>2. /\ u \in Sessions /\ u.server = s.server /\ u.unread = s.unread
        /\ u.inbox = s.inbox /\ u.feed = s.feed /\ u.phase = p
        /\ u.lagged = s.lagged /\ u.missed = s.missed
    BY <1>1 DEF Sessions
  <1>3. PICK t : t = u OBVIOUS
  <1>4. Following(t) => Following(s) BY <1>2, <1>3 DEF Following
  <1>5. \A i : Coming(s, i) => Coming(t, i) BY <1>2, <1>3, MoreIsComing
  <1>6. history.removed \/ history.left \/ (Following(t) => Supplied(t, q))
    BY <1>4, <1>5, StillSupplied
  <1>7. /\ t \in Sessions /\ (~up => t.server = "off")
        /\ \A b \in Elements(t.unread) : b \in Elements(s.unread)
        /\ \A m \in Elements(t.inbox) : m \in Elements(s.inbox)
        /\ Elements(t.feed) \subseteq Elements(s.feed)
    BY <1>1, <1>2, <1>3
  <1>8. Continues(s, t, q) BY <1>6, <1>7 DEF Continues
  <1>9. Session(t, q) BY <1>8, NextSession
  <1> QED BY <1>3, <1>9

\* How large the last push was is nothing the queues know of.
LEMMA NextFull ==
    ASSUME NEW s, NEW r \in Replicas, Session(s, r), srv \in Replicas,
           r.cursor <= r.cursor, NEW b \in BOOLEAN
    PROVE  Session([s EXCEPT !.full = b], r)
  <1> DEFINE u == [s EXCEPT !.full = b]
  <1>1. s \in Sessions /\ (~up => s.server = "off") BY DEF Session, Sane
  <1>2. /\ u \in Sessions /\ u.server = s.server /\ u.unread = s.unread
        /\ u.inbox = s.inbox /\ u.feed = s.feed /\ u.phase = s.phase
        /\ u.lagged = s.lagged /\ u.missed = s.missed
    BY <1>1 DEF Sessions
  <1>3. PICK t : t = u OBVIOUS
  <1>4. Following(t) => Following(s) BY <1>2, <1>3 DEF Following
  <1>5. \A i : Coming(s, i) => Coming(t, i) BY <1>2, <1>3, MoreIsComing
  <1>6. history.removed \/ history.left \/ (Following(t) => Supplied(t, r))
    BY <1>4, <1>5, StillSupplied
  <1>7. /\ t \in Sessions /\ (~up => t.server = "off")
        /\ \A x \in Elements(t.unread) : x \in Elements(s.unread)
        /\ \A m \in Elements(t.inbox) : m \in Elements(s.inbox)
        /\ Elements(t.feed) \subseteq Elements(s.feed)
    BY <1>1, <1>2, <1>3
  <1>8. Continues(s, t, r) BY <1>6, <1>7 DEF Continues
  <1>9. Session(t, r) BY <1>8, NextSession
  <1> QED BY <1>3, <1>9

\* The session before it begins, and one nothing comes from any more.
LEMMA NoSessionIsOne ==
    ASSUME NEW q PROVE Session(NoSession, q)
  <1>1. <<>> \in Seq(SUBSET Ops) /\ <<>> \in Seq(Messages) /\ <<>> \in Seq(SequencedOp)
    OBVIOUS
  <1>2. NoSession \in Sessions BY <1>1 DEF NoSession, Sessions
  <1>3. Elements(<<>>) = {} BY EmptyElements
  <1>4. /\ NoSession.unread = <<>> /\ NoSession.inbox = <<>> /\ NoSession.feed = <<>>
        /\ NoSession.server = "off"
    BY DEF NoSession
  <1>5. OpsOf({}) = {} /\ BackedBy(oplog, {}) BY DEF OpsOf, BackedBy
  <1>6. Sane(NoSession) BY <1>2, <1>3, <1>4, <1>5 DEF Sane
  <1>7. Backed(NoSession) BY <1>3, <1>4, <1>5 DEF Backed
  <1>8. ~ Following(NoSession) BY <1>4 DEF Following
  <1> QED BY <1>6, <1>7, <1>8 DEF Session

\* A session that was cut off brings nothing more.
LEMMA CutIsSession ==
    ASSUME NEW s, NEW r, Session(s, r), NEW q PROVE Session(Cut(s), q)
  <1> DEFINE u == Cut(s)
  <1>1. s \in Sessions BY DEF Session, Sane
  <1>2. <<>> \in Seq(SUBSET Ops) /\ <<>> \in Seq(SequencedOp) OBVIOUS
  <1>3. /\ u \in Sessions /\ u.server = "off" /\ u.unread = <<>>
        /\ u.inbox = s.inbox /\ u.feed = <<>>
    BY <1>1, <1>2 DEF Sessions, Cut
  <1>4. PICK t : t = u OBVIOUS
  <1>5. Elements(<<>>) = {} BY EmptyElements
  <1>6. ~ Following(t) BY <1>3, <1>4 DEF Following
  <1>7. /\ t \in Sessions /\ (~up => t.server = "off")
        /\ \A b \in Elements(t.unread) : b \in Elements(s.unread)
        /\ \A m \in Elements(t.inbox) : m \in Elements(s.inbox)
        /\ Elements(t.feed) \subseteq Elements(s.feed)
    BY <1>3, <1>4, <1>5
  <1>8. Continues(s, t, q) BY <1>6, <1>7 DEF Continues
  <1>9. Session(t, q) BY <1>8, NextSession
  <1> QED BY <1>4, <1>9

\* Sending a message that names rows of the log.
LEMMA SendingIsSession ==
    ASSUME NEW c \in Clients, NEW r \in Replicas, srv \in Replicas, Session(live[c], r),
           NEW m \in Messages,
           m.kind = "ops" => IsFiniteSet(m.ops) /\ OpsOf(m.ops) \subseteq Authored,
           history.removed \/ BackedBy(oplog, m.ops)
    PROVE  Session(Sending(c, m), r)
  <1> DEFINE u == Sending(c, m)
  <1>1. PICK s : s = live[c] OBVIOUS
  <1>2. s \in Sessions /\ Session(s, r) /\ (~up => s.server = "off")
    BY <1>1 DEF Session, Sane
  <1>3. s.inbox \in Seq(Messages) BY <1>2 DEF Sessions
  <1>4. /\ Append(s.inbox, m) \in Seq(Messages)
        /\ Elements(Append(s.inbox, m)) = Elements(s.inbox) \union {m}
    BY <1>3, AppendElements
  <1>5. /\ u \in Sessions /\ u.inbox = Append(s.inbox, m)
        /\ u.unread = s.unread /\ u.feed = s.feed /\ u.server = s.server
        /\ u.phase = s.phase /\ u.lagged = s.lagged /\ u.missed = s.missed
    BY <1>1, <1>2, <1>4 DEF Sessions, Sending
  <1>6. PICK t : t = u OBVIOUS
  <1>7. Following(t) => Following(s) BY <1>5, <1>6 DEF Following
  <1>8. \A i : Coming(s, i) => Coming(t, i) BY <1>4, <1>5, <1>6, MoreIsComing
  <1>9. r.cursor <= r.cursor BY DEF Replicas
  <1>10. history.removed \/ history.left \/ (Following(t) => Supplied(t, r))
    BY <1>2, <1>7, <1>8, <1>9, StillSupplied
  <1>11. /\ t \in Sessions /\ (~up => t.server = "off")
         /\ \A b \in Elements(t.unread) : b \in Elements(s.unread)
         /\ \A x \in Elements(t.inbox) : x \in Elements(s.inbox) \/ x = m
         /\ Elements(t.feed) \subseteq Elements(s.feed)
    BY <1>2, <1>4, <1>5, <1>6
  <1>12. Continues(s, t, r) BY <1>10, <1>11 DEF Continues
  <1>13. Session(t, r) BY <1>2, <1>12, NextSession
  <1> QED BY <1>6, <1>13

\* The sessions of the other devices do not notice.
LEMMA OneSessionMoves ==
    ASSUME LiveInv, BaseInv', UNCHANGED <<oplog, srv, up, history>>,
           Authored \subseteq Authored', NEW c \in Clients, NEW s,
           live' = [live EXCEPT ![c] = s], Session(s, rep'[c]),
           \A d \in Clients : d # c => rep'[d] = rep[d]
    PROVE  LiveInv'
  <1>1. s \in Sessions /\ live \in [Clients -> Sessions] BY DEF Session, Sane, LiveInv
  <1>2. live' \in [Clients -> Sessions] BY <1>1
  <1>3. ASSUME NEW d \in Clients PROVE Session(live[d], rep[d])'
    <2>1. Session(live'[d], rep'[d])
      <3>1. CASE d = c BY <1>1, <3>1
      <3>2. CASE d # c BY <1>1, <3>2 DEF LiveInv
      <3> QED BY <3>1, <3>2
    <2>2. PICK t, q : t = live'[d] /\ q = rep'[d] OBVIOUS
    <2>3. Session(t, q) BY <2>1, <2>2
    <2>4. Sane(t)' BY <2>3 DEF Session, Sane
    <2>5. history'.removed \/ Backed(t)' BY <2>3 DEF Session, Backed
    <2>6. history'.removed \/ history'.left \/ (Following(t)' => Supplied(t, q)')
      BY <2>3 DEF Session, Following, Supplied, Coming
    <2>7. Session(t, q)' BY <2>4, <2>5, <2>6 DEF Session
    <2> QED BY <2>2, <2>7
  <1> QED BY <1>2, <1>3 DEF LiveInv

\* What is known of a device and of the server at any moment.
LEMMA DeviceFacts ==
    ASSUME LiveInv, NEW c \in Clients
    PROVE  /\ BaseInv /\ TypeOK /\ oplog \in Seq(Ops) /\ srv \in Replicas
           /\ rep[c] \in Replicas /\ rep[c].cursor \in Nat /\ rep[c].cursor <= rep[c].cursor
           /\ srv.cursor \in Nat /\ Len(oplog) \in Nat /\ srv.cursor <= Len(oplog)
           /\ DOMAIN oplog = 1 .. Len(oplog)
           /\ Session(live[c], rep[c]) /\ live[c] \in Sessions
           /\ (~up => live[c].server = "off")
  <1>1. TypeOK /\ BaseInv BY DEF LiveInv, BaseInv, IInv
  <1>2. oplog \in Seq(Ops) /\ srv \in Replicas /\ rep[c] \in Replicas BY <1>1 DEF TypeOK
  <1>3. Len(oplog) \in Nat /\ DOMAIN oplog = 1 .. Len(oplog) BY <1>2, LenProperties
  <1>4. srv.cursor <= Len(oplog)
    BY <1>1 DEF BaseInv, ServerInv, ServerHolds, Agrees, CaughtUp
  <1>5. Session(live[c], rep[c]) BY DEF LiveInv
  <1> QED BY <1>1, <1>2, <1>3, <1>4, <1>5 DEF Replicas, Session, Sane

\* A step of the protocol that ends or changes the phase of a session.
LEMMA PhaseMoves ==
    ASSUME LiveInv, [Next]_vars, UNCHANGED <<oplog, srv, up, history>>,
           NEW c \in Clients, rep[c].cursor <= rep'[c].cursor,
           \A d \in Clients : d # c => rep'[d] = rep[d],
           NEW p \in {"offline", "pass", "ready", "open", "resync", "ended"},
           p \in {"open", "resync"} => live[c].phase \in {"open", "resync"},
           live' = live \/ live' = [live EXCEPT ![c] = [live[c] EXCEPT !.phase = p]]
    PROVE  LiveInv'
  <1>1. BaseInv' /\ Authored \subseteq Authored' BY ProtocolKeeps DEF LiveInv
  <1>2. rep'[c] \in Replicas BY <1>1 DEF BaseInv, IInv, TypeOK
  <1>3. /\ Session(live[c], rep[c]) /\ rep[c] \in Replicas /\ srv \in Replicas
        /\ live \in [Clients -> Sessions]
    BY DeviceFacts DEF LiveInv
  <1>4. PICK q : q = live[c].phase OBVIOUS
  <1>5. /\ live[c] \in Sessions
        /\ q \in {"offline", "pass", "ready", "open", "resync", "ended"}
        /\ live[c] = [live[c] EXCEPT !.phase = q]
    BY <1>3, <1>4 DEF Sessions
  <1>6. Session(live[c], rep'[c])
    <2>1. Session([live[c] EXCEPT !.phase = q], rep'[c])
      BY <1>2, <1>3, <1>4, <1>5, NextPhase
    <2> QED BY <1>5, <2>1
  <1>7. CASE live' = live
    <2>1. live' = [live EXCEPT ![c] = live[c]] BY <1>3, <1>7
    <2> QED BY <1>1, <1>6, <2>1, OneSessionMoves
  <1>8. CASE live' = [live EXCEPT ![c] = [live[c] EXCEPT !.phase = p]]
    <2>1. Session([live[c] EXCEPT !.phase = p], rep'[c]) BY <1>2, <1>3, NextPhase
    <2> QED BY <1>1, <1>8, <2>1, OneSessionMoves
  <1> QED BY <1>7, <1>8

----------------------------------------------------------------------------
(* The session's task on the server *)

\* A stuttering protocol.
LEMMA SameProtocol ==
    ASSUME LiveInv, UNCHANGED vars
    PROVE  /\ BaseInv' /\ Authored \subseteq Authored'
           /\ UNCHANGED <<row, oplog, srv, up, history, rep>>
  <1>1. BaseInv' /\ Authored \subseteq Authored' BY ProtocolKeeps DEF LiveInv
  <1> QED BY <1>1 DEF vars, serverVars, clientVars, disk

\* Rows of the log are operations somebody made.
LEMMA RowsAreAuthored ==
    ASSUME LiveInv, NEW b, BackedBy(oplog, b) PROVE OpsOf(b) \subseteq Authored
  <1>1. Logged \subseteq Authored BY DEF LiveInv, BaseInv, KnownAuthored
  <1> QED BY <1>1 DEF BackedBy, OpsOf, Logged

\* The messages a session sends.
LEMMA MessageType ==
    ASSUME NEW ops \in SUBSET SequencedOp, NEW kind \in {"ops", "ack", "reject", "fail"}
    PROVE  /\ Message(kind, ops) \in Messages
           /\ Message(kind, ops).kind = kind /\ Message(kind, ops).ops = ops
  BY DEF Message, Messages

\* From the backlog on the device is sent all it lacks, unless it is too much
\* for one page.
LEMMA BacklogStep ==
    ASSUME LiveInv, NEW c \in Clients, SendBacklog(c) PROVE LiveInv'
  <1> DEFINE page == OpsSince(rep[c].cursor, BacklogSize)
             m == Message("ops", page)
             gap == live[c].missed \/ rep[c].cursor + BacklogSize < Len(oplog)
             u == [live[c] EXCEPT !.server = "serving", !.missed = gap]
             w == [u EXCEPT !.inbox = Append(@, m)]
  <1>1. /\ UNCHANGED vars /\ up
        /\ live' = [live EXCEPT ![c] = IF page = {} THEN u ELSE w]
    BY DEF SendBacklog, SetLive
  <1>2. /\ oplog \in Seq(Ops) /\ srv.cursor <= Len(oplog) /\ rep[c] \in Replicas
        /\ Session(live[c], rep[c]) /\ live[c] \in Sessions /\ DOMAIN oplog = 1 .. Len(oplog)
        /\ rep[c].cursor \in Nat /\ srv.cursor \in Nat /\ Len(oplog) \in Nat
    BY DeviceFacts
  <1>3. /\ page \in SUBSET SequencedOp /\ IsFiniteSet(page) /\ BackedBy(oplog, page)
    BY <1>2, OpsSinceRows, LiveAssumption
  <1>4. OpsOf(page) \subseteq Authored BY <1>3, RowsAreAuthored
  <1>5. ASSUME ~gap, NEW i \in (rep[c].cursor + 1) .. srv.cursor PROVE i \in SeqsOf(page)
    <2>1. i \in DOMAIN oplog /\ rep[c].cursor < i /\ i <= rep[c].cursor + BacklogSize
      BY <1>2, <1>5, LiveAssumption
    <2>2. [seq |-> i, op |-> oplog[i]] \in page BY <2>1 DEF OpsSince
    <2>3. [seq |-> i, op |-> oplog[i]].seq = i OBVIOUS
    <2> HIDE DEF page
    <2> QED BY <2>2, <2>3 DEF SeqsOf
  <1>6. m \in Messages /\ m.kind = "ops" /\ m.ops = page BY <1>3, MessageType
  <1>7. gap \in BOOLEAN BY <1>2 DEF Sessions
  <1> HIDE DEF page, m, gap
  <1>8. /\ u \in Sessions /\ u.unread = live[c].unread /\ u.inbox = live[c].inbox
        /\ u.feed = live[c].feed /\ u.missed = gap
    BY <1>2, <1>7 DEF Sessions
  <1>9. live[c].inbox \in Seq(Messages) BY <1>2 DEF Sessions
  <1>10. /\ Append(live[c].inbox, m) \in Seq(Messages)
         /\ Elements(Append(live[c].inbox, m)) = Elements(live[c].inbox) \union {m}
    BY <1>6, <1>9, AppendElements
  <1>11. /\ w \in Sessions /\ w.unread = live[c].unread
         /\ w.inbox = Append(live[c].inbox, m) /\ w.feed = live[c].feed /\ w.missed = gap
    BY <1>8, <1>10 DEF Sessions
  <1> HIDE DEF u, w
  <1>12. CASE page = {}
    <2>1. Following(u) => Supplied(u, rep[c])
      <3>1. SeqsOf({}) = {} BY DEF SeqsOf
      <3> QED BY <1>5, <1>8, <1>12, <3>1 DEF Following, Supplied
    <2>2. Continues(live[c], u, rep[c]) BY <1>1, <1>8, <2>1 DEF Continues
    <2>3. Session(u, rep[c]) BY <1>2, <2>2, NextSession
    <2> QED BY <1>1, <1>12, <2>3, SameProtocol, OneSessionMoves
  <1>13. CASE page # {}
    <2>1. Following(w) => Supplied(w, rep[c])
      <3> SUFFICES ASSUME Following(w), NEW i \in (rep[c].cursor + 1) .. srv.cursor
                   PROVE  Coming(w, i)
        BY DEF Supplied
      <3>1. i \in SeqsOf(page) BY <1>5, <1>11 DEF Following
      <3>2. m \in Elements(w.inbox) BY <1>10, <1>11
      <3> QED BY <1>6, <3>1, <3>2 DEF Coming
    <2>2. Continues(live[c], w, rep[c])
      BY <1>1, <1>3, <1>4, <1>6, <1>10, <1>11, <2>1 DEF Continues
    <2>3. Session(w, rep[c]) BY <1>2, <2>2, NextSession
    <2> QED BY <1>1, <1>13, <2>3, SameProtocol, OneSessionMoves
  <1> QED BY <1>12, <1>13

\* The socket is a caller of its own.
LEMMA SocketIsCaller ==
    ASSUME NEW c \in Clients PROVE Socket(c) \in Callers
  BY DEF Socket, Callers

\* A push on its way to the actor changes nothing for the device.
LEMMA TakePushStep ==
    ASSUME LiveInv, NEW c \in Clients, TakePush(c) PROVE LiveInv'
  <1> DEFINE ops == Head(live[c].unread)
             w == [live[c] EXCEPT !.server = "ingesting", !.unread = Tail(@)]
  <1>1. /\ up /\ live[c].server = "serving" /\ live[c].unread # <<>>
        /\ SendPush(Socket(c), ops) /\ live' = [live EXCEPT ![c] = w]
        /\ UNCHANGED <<row, oplog, srv, up, actor, faults, history, rep, cl, ex>>
    BY DEF TakePush, SetLive, disk, clientVars
  <1>2. /\ BaseInv /\ TypeOK /\ srv \in Replicas /\ rep[c] \in Replicas
        /\ rep[c].cursor <= rep[c].cursor
        /\ Session(live[c], rep[c]) /\ live[c] \in Sessions
    BY DeviceFacts
  <1>3. live[c].unread \in Seq(SUBSET Ops) BY <1>2 DEF Sessions
  <1>4. /\ ops \in SUBSET Ops /\ Tail(live[c].unread) \in Seq(SUBSET Ops)
        /\ Elements(live[c].unread) = {ops} \union Elements(Tail(live[c].unread))
    BY <1>1, <1>3, HeadElements
  <1>5. ops \subseteq Authored BY <1>2, <1>4 DEF Session, Sane
  <1> HIDE DEF ops
  <1>6. SideStep
    <2>1. requests' \subseteq Requests /\ replies' \in [Callers -> Replies]
      BY <1>1, <1>2, <1>4, SendPushType, SocketIsCaller
    <2>2. \A q \in requests' : q.ops \subseteq Authored
      BY <1>1, <1>2, <1>5 DEF SendPush, BaseInv, KnownAuthored
    <2>3. \A k \in Callers : replies'[k].ops \in {replies[k].ops, {}}
      BY <1>1, <1>2 DEF SendPush, TypeOK, NoReply
    <2> QED BY <1>1, <1>2, <2>1, <2>2, <2>3 DEF SideStep, TypeOK
  <1>7. BaseInv' BY <1>2, <1>6, SideStepKeeps
  <1>8. /\ w \in Sessions /\ w.unread = Tail(live[c].unread) /\ w.inbox = live[c].inbox
        /\ w.feed = live[c].feed /\ w.server = "ingesting" /\ w.phase = live[c].phase
        /\ w.lagged = live[c].lagged /\ w.missed = live[c].missed
    BY <1>2, <1>4 DEF Sessions
  <1> HIDE DEF w
  <1>9. Following(w) => Following(live[c]) BY <1>1, <1>8 DEF Following
  <1>10. \A i : Coming(live[c], i) => Coming(w, i) BY <1>8, MoreIsComing
  <1>11. history.removed \/ history.left \/ (Following(w) => Supplied(w, rep[c]))
    BY <1>2, <1>9, <1>10, StillSupplied
  <1>12. Continues(live[c], w, rep[c]) BY <1>1, <1>4, <1>8, <1>11 DEF Continues
  <1>13. Session(w, rep[c]) BY <1>2, <1>12, NextSession
  <1>14. Authored' = Authored BY <1>1 DEF Authored
  <1> QED BY <1>1, <1>7, <1>13, <1>14, OneSessionMoves

\* An answer is a message like any other.
LEMMA AnswerPushStep ==
    ASSUME LiveInv, NEW c \in Clients, AnswerPush(c) PROVE LiveInv'
  <1> DEFINE reply == replies[Socket(c)]
             m == Message(KindOf(reply.status), reply.ops)
             u == Sending(c, m)
             w == [u EXCEPT !.server = "serving"]
  <1>1. /\ live[c].server = "ingesting" /\ reply.status # "none"
        /\ live' = [live EXCEPT ![c] = w]
        /\ replies' = [replies EXCEPT ![Socket(c)] = NoReply]
        /\ UNCHANGED <<row, oplog, srv, up, actor, requests, faults, history, rep, cl, ex>>
    BY DEF AnswerPush, SetLive, disk, clientVars
  <1>2. /\ BaseInv /\ TypeOK /\ srv \in Replicas /\ rep[c] \in Replicas
        /\ rep[c].cursor <= rep[c].cursor
        /\ Session(live[c], rep[c]) /\ live[c] \in Sessions
        /\ (~up => live[c].server = "off")
    BY DeviceFacts
  <1>3. reply \in Replies BY <1>2, SocketIsCaller DEF TypeOK
  <1>4. /\ KindOf(reply.status) \in {"ack", "reject", "fail"} /\ reply.ops \in SUBSET SequencedOp
    BY <1>1, <1>3 DEF Replies, Statuses, KindOf
  <1>5. m \in Messages /\ m.kind # "ops" /\ m.ops = reply.ops BY <1>4, MessageType
  <1>6. history.removed \/ BackedBy(oplog, reply.ops)
    BY <1>2, SocketIsCaller DEF BaseInv, IInv, AppendOnlyInv, InFlight
  <1> HIDE DEF reply, m
  <1>7. Session(u, rep[c]) BY <1>2, <1>5, <1>6, SendingIsSession
  <1>8. /\ u \in Sessions /\ u.server = "ingesting" BY <1>1, <1>2, <1>7 DEF Session, Sane, Sending, Sessions
  <1> HIDE DEF u
  <1>9. /\ w \in Sessions /\ w.unread = u.unread /\ w.inbox = u.inbox
        /\ w.feed = u.feed /\ w.server = "serving" /\ w.phase = u.phase
        /\ w.lagged = u.lagged /\ w.missed = u.missed
    BY <1>8 DEF Sessions
  <1> HIDE DEF w
  <1>10. Following(w) => Following(u) BY <1>8, <1>9 DEF Following
  <1>11. \A i : Coming(u, i) => Coming(w, i) BY <1>9, MoreIsComing
  <1>12. history.removed \/ history.left \/ (Following(w) => Supplied(w, rep[c]))
    BY <1>2, <1>7, <1>10, <1>11, StillSupplied
  <1>13. up BY <1>1, <1>2
  <1>14. Continues(u, w, rep[c]) BY <1>9, <1>12, <1>13 DEF Continues
  <1>15. Session(w, rep[c]) BY <1>7, <1>14, NextSession
  <1>16. SideStep
    <2>1. NoReply \in Replies /\ NoReply.ops = {} BY IdleTypes DEF NoReply
    <2>2. \A k \in Callers : replies'[k].ops \in {replies[k].ops, {}}
      BY <1>1, <1>2, <2>1 DEF TypeOK
    <2>3. replies' \in [Callers -> Replies] BY <1>1, <1>2, <2>1 DEF TypeOK
    <2>4. \A q \in requests' : q.ops \subseteq Authored
      BY <1>1, <1>2 DEF BaseInv, KnownAuthored
    <2> QED BY <1>1, <1>2, <2>2, <2>3, <2>4 DEF SideStep, TypeOK
  <1>17. BaseInv' BY <1>2, <1>16, SideStepKeeps
  <1>18. Authored' = Authored BY <1>1 DEF Authored
  <1> QED BY <1>1, <1>15, <1>17, <1>18, OneSessionMoves

\* What leaves the channel enters the socket.
LEMMA ForwardStep ==
    ASSUME LiveInv, NEW c \in Clients, Forward(c) PROVE LiveInv'
  <1> DEFINE e == Head(live[c].feed)
             m == Message("ops", {e})
             u == Sending(c, m)
             w == [u EXCEPT !.feed = Tail(@)]
  <1>1. /\ live[c].server = "serving" /\ live[c].feed # <<>>
        /\ live' = [live EXCEPT ![c] = w] /\ UNCHANGED vars
    BY DEF Forward, SetLive
  <1>2. /\ srv \in Replicas /\ rep[c] \in Replicas /\ rep[c].cursor <= rep[c].cursor
        /\ Session(live[c], rep[c]) /\ live[c] \in Sessions
        /\ (~up => live[c].server = "off")
    BY DeviceFacts
  <1>3. live[c].feed \in Seq(SequencedOp) BY <1>2 DEF Sessions
  <1>4. /\ e \in SequencedOp /\ Tail(live[c].feed) \in Seq(SequencedOp)
        /\ Elements(live[c].feed) = {e} \union Elements(Tail(live[c].feed))
    BY <1>1, <1>3, HeadElements
  <1>5. IsFiniteSet({e}) BY FS_Singleton
  <1>6. OpsOf({e}) \subseteq Authored /\ (history.removed \/ BackedBy(oplog, {e}))
    BY <1>2, <1>4 DEF Session, Sane, Backed, OpsOf, BackedBy
  <1> HIDE DEF e
  <1>7. m \in Messages /\ m.kind = "ops" /\ m.ops = {e} BY <1>4, MessageType
  <1> HIDE DEF m
  <1>8. Session(u, rep[c]) BY <1>2, <1>5, <1>6, <1>7, SendingIsSession
  <1>9. live[c].inbox \in Seq(Messages) BY <1>2 DEF Sessions
  <1>10. Elements(Append(live[c].inbox, m)) = Elements(live[c].inbox) \union {m}
    BY <1>7, <1>9, AppendElements
  <1>11. /\ u \in Sessions /\ u.server = "serving" /\ u.feed = live[c].feed
         /\ u.inbox = Append(live[c].inbox, m)
    BY <1>1, <1>2, <1>8 DEF Session, Sane, Sending, Sessions
  <1> HIDE DEF u
  <1>12. /\ w \in Sessions /\ w.unread = u.unread /\ w.inbox = u.inbox
         /\ w.feed = Tail(live[c].feed) /\ w.server = "serving" /\ w.phase = u.phase
         /\ w.lagged = u.lagged /\ w.missed = u.missed
    BY <1>4, <1>11 DEF Sessions
  <1> HIDE DEF w
  <1>13. Following(w) => Following(u) BY <1>11, <1>12 DEF Following
  <1>14. ASSUME NEW i, Coming(u, i) PROVE Coming(w, i)
    <2>1. CASE i \in SeqsOf(Elements(u.feed))
      <3>1. i = e.seq \/ i \in SeqsOf(Elements(w.feed))
        BY <1>4, <1>11, <1>12, <2>1 DEF SeqsOf
      <3>2. m \in Elements(w.inbox) BY <1>10, <1>11, <1>12
      <3>3. e.seq \in SeqsOf(m.ops) BY <1>7 DEF SeqsOf
      <3> QED BY <1>7, <3>1, <3>2, <3>3 DEF Coming
    <2>2. CASE \E x \in Elements(u.inbox) : x.kind = "ops" /\ i \in SeqsOf(x.ops)
      BY <1>12, <2>2 DEF Coming
    <2> QED BY <1>14, <2>1, <2>2 DEF Coming
  <1>15. history.removed \/ history.left \/ (Following(w) => Supplied(w, rep[c]))
    BY <1>2, <1>8, <1>13, <1>14, StillSupplied
  <1>16. up BY <1>1, <1>2
  <1>17. Elements(w.feed) \subseteq Elements(u.feed) BY <1>4, <1>11, <1>12
  <1>18. Continues(u, w, rep[c]) BY <1>12, <1>15, <1>16, <1>17 DEF Continues
  <1>19. Session(w, rep[c]) BY <1>8, <1>18, NextSession
  <1> QED BY <1>1, <1>19, SameProtocol, OneSessionMoves

\* A session that has fallen behind ends.
LEMMA TellLaggedStep ==
    ASSUME LiveInv, NEW c \in Clients, TellLagged(c) PROVE LiveInv'
  <1> DEFINE m == Message("fail", {})
  <1>1. live' = [live EXCEPT ![c] = Cut(Sending(c, m))] /\ UNCHANGED vars
    BY DEF TellLagged, SetLive
  <1>2. srv \in Replicas /\ rep[c] \in Replicas /\ Session(live[c], rep[c]) BY DeviceFacts
  <1>3. m \in Messages /\ m.kind = "fail" /\ m.ops = {} BY MessageType
  <1>4. BackedBy(oplog, {}) BY DEF BackedBy
  <1> HIDE DEF m
  <1>5. Session(Sending(c, m), rep[c]) BY <1>2, <1>3, <1>4, SendingIsSession
  <1>6. Session(Cut(Sending(c, m)), rep[c]) BY <1>5, CutIsSession
  <1> QED BY <1>1, <1>6, SameProtocol, OneSessionMoves

\* Everything the task of a session does keeps the invariant.
LEMMA ServeStep ==
    ASSUME LiveInv, NEW c \in Clients, ServeSession(c) PROVE LiveInv'
  BY BacklogStep, TakePushStep, AnswerPushStep, ForwardStep, TellLaggedStep
     DEF ServeSession

----------------------------------------------------------------------------
(* The device *)

\* A message that was handled leaves the inbox.
LEMMA ReceivedIsSession ==
    ASSUME LiveInv, NEW c \in Clients, live[c].inbox # <<>>, NEW q \in Replicas,
           rep[c].cursor <= q.cursor,
           ~ history.removed => \A i \in (q.cursor + 1) .. srv.cursor :
              ~ (Incoming(c).kind = "ops" /\ i \in SeqsOf(Incoming(c).ops))
    PROVE  Session(Received(c), q)
  <1> DEFINE m == Head(live[c].inbox)
             w == Received(c)
  <1>1. /\ srv \in Replicas /\ rep[c] \in Replicas /\ (~up => live[c].server = "off")
        /\ Session(live[c], rep[c]) /\ live[c] \in Sessions
    BY DeviceFacts
  <1>2. live[c].inbox \in Seq(Messages) BY <1>1 DEF Sessions
  <1>3. /\ Tail(live[c].inbox) \in Seq(Messages)
        /\ Elements(live[c].inbox) = {m} \union Elements(Tail(live[c].inbox))
    BY <1>2, HeadElements
  <1>4. /\ w \in Sessions /\ w.unread = live[c].unread /\ w.inbox = Tail(live[c].inbox)
        /\ w.feed = live[c].feed /\ w.server = live[c].server /\ w.phase = live[c].phase
        /\ w.lagged = live[c].lagged /\ w.missed = live[c].missed
    BY <1>1, <1>3 DEF Sessions, Received
  <1>5. Incoming(c) = m BY DEF Incoming
  <1> HIDE DEF w, m
  <1>6. Following(w) => Following(live[c]) BY <1>4 DEF Following
  <1>7. ASSUME ~ history.removed
        PROVE  \A i \in (q.cursor + 1) .. srv.cursor : Coming(live[c], i) => Coming(w, i)
    BY <1>3, <1>4, <1>5, <1>7 DEF Coming
  <1>8. history.removed \/ history.left \/ (Following(w) => Supplied(w, q))
    BY <1>1, <1>6, <1>7, StillSupplied
  <1>9. Continues(live[c], w, q) BY <1>1, <1>3, <1>4, <1>8 DEF Continues
  <1>10. Session(w, q) BY <1>1, <1>9, NextSession
  <1> QED BY <1>10 DEF w

\* A session that ends in an error follows nothing, whatever it has lost.
LEMMA FailedIsSession ==
    ASSUME LiveInv, NEW c \in Clients, live[c].inbox # <<>>, NEW q
    PROVE  Session(Failed(Received(c)), q)
  <1> DEFINE w == Failed(Received(c))
             p == IF live[c].phase = "pass" THEN "offline" ELSE "ended"
  <1>1. live[c] \in Sessions /\ Session(live[c], rep[c]) /\ (~up => live[c].server = "off")
    BY DeviceFacts
  <1>2. live[c].inbox \in Seq(Messages) BY <1>1 DEF Sessions
  <1>3. /\ Tail(live[c].inbox) \in Seq(Messages)
        /\ Elements(Tail(live[c].inbox)) \subseteq Elements(live[c].inbox)
    BY <1>2, HeadElements
  <1>4. p \in {"offline", "ended"} OBVIOUS
  <1>5. /\ Received(c) \in Sessions /\ Received(c).inbox = Tail(live[c].inbox)
        /\ Received(c).unread = live[c].unread /\ Received(c).feed = live[c].feed
        /\ Received(c).server = live[c].server /\ Received(c).phase = live[c].phase
    BY <1>1, <1>3 DEF Sessions, Received
  <1>6. w = [Received(c) EXCEPT !.phase = p] BY <1>5 DEF Failed
  <1> HIDE DEF p
  <1>7. /\ w \in Sessions /\ w.inbox = Tail(live[c].inbox) /\ w.unread = live[c].unread
        /\ w.feed = live[c].feed /\ w.server = live[c].server /\ w.phase = p
    BY <1>4, <1>5, <1>6 DEF Sessions
  <1> HIDE DEF w
  <1>8. ~ Following(w) BY <1>4, <1>7 DEF Following
  <1>9. Continues(live[c], w, q) BY <1>1, <1>3, <1>7, <1>8 DEF Continues
  <1>10. Session(w, q) BY <1>1, <1>9, NextSession
  <1> QED BY <1>10 DEF w

\* A replica that takes a batch in moves by a side step.
LEMMA ReceivingKeeps ==
    ASSUME LiveInv, NEW c \in Clients, NEW b \in SUBSET SequencedOp,
           history.removed \/ BackedBy(oplog, b), NEW q \in Replicas,
           \/ IsFiniteSet(b) /\ ApplyFault(rep[c], b) = "none" /\ OpsOf(b) \subseteq Authored
              /\ q = ApplySequencedBatch(rep[c], b)
           \/ q = AcknowledgeServerOps(rep[c], b),
           rep' = [rep EXCEPT ![c] = q], UNCHANGED <<serverVars, cl, ex>>
    PROVE  BaseInv'
  <1>1. BaseInv /\ TypeOK /\ rep \in [Clients -> Replicas] /\ cl \in [Clients -> Workers]
    BY DEF LiveInv, BaseInv, IInv, TypeOK
  <1>2. UNCHANGED <<row, oplog, srv, up, history, actor, requests, replies, faults, cl, ex>>
    BY DEF serverVars, disk
  <1>3. Receives(rep[c], q) BY DEF Receives
  <1>4. rep' \in [Clients -> Replicas] BY <1>1
  <1>5. \A d \in Clients : rep'[d] = rep[d] \/ Receives(rep[d], rep'[d])
    BY <1>1, <1>3
  <1>6. \A x \in requests' : x.ops \subseteq Authored
    BY <1>1, <1>2 DEF BaseInv, KnownAuthored
  <1>7. /\ requests' \subseteq Requests /\ replies' \in [Callers -> Replies]
        /\ faults' \in 0 .. MaxFaults
    BY <1>1, <1>2 DEF TypeOK
  <1>8. SideStep BY <1>1, <1>2, <1>4, <1>5, <1>6, <1>7 DEF SideStep
  <1> QED BY <1>1, <1>8, SideStepKeeps

\* A page that applies moves the cursor past all its rows.
LEMMA ReceiveOpsStep ==
    ASSUME LiveInv, NEW c \in Clients, ReceiveOps(c) PROVE LiveInv'
  <1> DEFINE m == Incoming(c)
             q == ApplySequencedBatch(rep[c], m.ops)
  <1>1. /\ live[c].inbox # <<>> /\ m.kind = "ops"
        /\ UNCHANGED <<row, oplog, srv, up, history>> /\ UNCHANGED <<serverVars, cl, ex>>
    BY DEF ReceiveOps, serverVars, disk
  <1>2. /\ TypeOK /\ oplog \in Seq(Ops) /\ srv \in Replicas /\ rep[c] \in Replicas
        /\ rep[c].cursor \in Nat /\ Session(live[c], rep[c]) /\ live[c] \in Sessions
        /\ srv.cursor \in Nat
    BY DeviceFacts
  <1>3. live[c].inbox \in Seq(Messages) BY <1>2 DEF Sessions
  <1>4. m \in Messages /\ m \in Elements(live[c].inbox)
    BY <1>1, <1>3, HeadElements DEF Incoming
  <1>5. /\ m.ops \in SUBSET SequencedOp /\ IsFiniteSet(m.ops) /\ OpsOf(m.ops) \subseteq Authored
        /\ history.removed \/ BackedBy(oplog, m.ops)
    BY <1>1, <1>2, <1>4 DEF Session, Sane, Backed, Messages
  <1>6. Authored' = Authored BY <1>1 DEF Authored
  <1> HIDE DEF m
  <1>7. CASE ApplyFault(rep[c], m.ops) = "none"
    <2>1. /\ rep' = [rep EXCEPT ![c] = q] /\ live' = [live EXCEPT ![c] = Received(c)]
      BY <1>7 DEF ReceiveOps, SetRep, SetLive, m
    <2>2. q \in Replicas BY <1>2, <1>5, ApplySequencedBatchType
    <2>3. BaseInv' BY <1>1, <1>5, <1>7, <2>1, <2>2, ReceivingKeeps
    <2>4. q.cursor = rep[c].cursor + Cardinality(Fresh(rep[c], m.ops))
      BY DEF ApplySequencedBatch, NewCursor
    <2>5. Fresh(rep[c], m.ops) \subseteq m.ops BY DEF Fresh
    <2>6. Cardinality(Fresh(rep[c], m.ops)) \in Nat
      BY <1>5, <2>5, FS_Subset, FS_CardinalityType
    <2>7. rep[c].cursor <= q.cursor /\ q.cursor \in Nat BY <1>2, <2>4, <2>6
    <2>8. ASSUME ~ history.removed, NEW i \in (q.cursor + 1) .. srv.cursor
          PROVE  i \notin SeqsOf(m.ops)
      <3> SUFFICES ASSUME NEW e \in m.ops, e.seq = i PROVE FALSE BY DEF SeqsOf
      <3>1. rep[c].cursor <= Len(oplog)
        BY <2>8 DEF LiveInv, BaseInv, IInv, AppendOnlyInv, SequencesAgree, Agrees, CaughtUp
      <3>2. ~ SeqGap(rep[c], m.ops) BY <1>7 DEF ApplyFault
      <3>3. SeqsOf(Fresh(rep[c], m.ops)) = (rep[c].cursor + 1) .. NewCursor(rep[c], m.ops)
        BY <1>2, <1>5, <2>8, <3>1, <3>2, FreshIsInterval
      <3>4. i > rep[c].cursor BY <1>2, <2>7
      <3>5. e \in Fresh(rep[c], m.ops) BY <3>4 DEF Fresh
      <3>6. i \in SeqsOf(Fresh(rep[c], m.ops)) BY <3>5 DEF SeqsOf
      <3>7. NewCursor(rep[c], m.ops) = q.cursor BY DEF ApplySequencedBatch
      <3> QED BY <1>2, <2>7, <3>3, <3>6, <3>7
    <2> HIDE DEF q
    <2>9. Session(Received(c), q) BY <1>1, <2>2, <2>7, <2>8, ReceivedIsSession DEF m
    <2>10. rep'[c] = q /\ \A d \in Clients : d # c => rep'[d] = rep[d]
      BY <1>2, <2>1 DEF TypeOK
    <2> QED BY <1>1, <1>6, <2>1, <2>3, <2>9, <2>10, OneSessionMoves
  <1>8. CASE ApplyFault(rep[c], m.ops) # "none"
    <2>1. rep' = rep /\ live' = [live EXCEPT ![c] = Failed(Received(c))]
      BY <1>8 DEF ReceiveOps, SetLive, m
    <2>2. UNCHANGED vars BY <1>1, <2>1 DEF vars, clientVars
    <2>3. Session(Failed(Received(c)), rep[c]) BY <1>1, FailedIsSession
    <2> QED BY <2>1, <2>2, <2>3, SameProtocol, OneSessionMoves
  <1> QED BY <1>7, <1>8

\* An acknowledgement leaves the cursor where it is.
LEMMA ReceiveAckStep ==
    ASSUME LiveInv, NEW c \in Clients, ReceiveAck(c) PROVE LiveInv'
  <1> DEFINE m == Incoming(c)
             q == AcknowledgeServerOps(rep[c], m.ops)
  <1>1. /\ live[c].inbox # <<>> /\ m.kind = "ack"
        /\ UNCHANGED <<row, oplog, srv, up, history>> /\ UNCHANGED <<serverVars, cl, ex>>
    BY DEF ReceiveAck, serverVars, disk
  <1>2. /\ TypeOK /\ rep[c] \in Replicas /\ rep[c].cursor <= rep[c].cursor
        /\ Session(live[c], rep[c]) /\ live[c] \in Sessions
    BY DeviceFacts
  <1>3. live[c].inbox \in Seq(Messages) BY <1>2 DEF Sessions
  <1>4. m \in Messages /\ m \in Elements(live[c].inbox)
    BY <1>1, <1>3, HeadElements DEF Incoming
  <1>5. m.ops \in SUBSET SequencedOp /\ (history.removed \/ BackedBy(oplog, m.ops))
    BY <1>2, <1>4 DEF Session, Backed, Messages
  <1>6. Authored' = Authored BY <1>1 DEF Authored
  <1> HIDE DEF m
  <1>7. CASE ~ AckFault(rep[c], m.ops)
    <2>1. /\ rep' = [rep EXCEPT ![c] = q] /\ live' = [live EXCEPT ![c] = Received(c)]
      BY <1>7 DEF ReceiveAck, SetRep, SetLive, m
    <2>2. q \in Replicas BY <1>2, <1>5, AcknowledgeServerOpsType
    <2>3. BaseInv' BY <1>1, <1>5, <2>1, <2>2, ReceivingKeeps
    <2>4. q.cursor = rep[c].cursor BY DEF AcknowledgeServerOps
    <2> HIDE DEF q
    <2>5. rep[c].cursor <= q.cursor BY <1>2, <2>4
    <2>6. Session(Received(c), q) BY <1>1, <2>2, <2>5, ReceivedIsSession DEF m
    <2>7. rep'[c] = q /\ \A d \in Clients : d # c => rep'[d] = rep[d]
      BY <1>2, <2>1 DEF TypeOK
    <2> QED BY <1>1, <1>6, <2>1, <2>3, <2>6, <2>7, OneSessionMoves
  <1>8. CASE AckFault(rep[c], m.ops)
    <2>1. rep' = rep /\ live' = [live EXCEPT ![c] = Failed(Received(c))]
      BY <1>8 DEF ReceiveAck, SetLive, m
    <2>2. UNCHANGED vars BY <1>1, <2>1 DEF vars, clientVars
    <2>3. Session(Failed(Received(c)), rep[c]) BY <1>1, FailedIsSession
    <2> QED BY <2>1, <2>2, <2>3, SameProtocol, OneSessionMoves
  <1> QED BY <1>7, <1>8

\* A failure ends the session.
LEMMA ReceiveFailureStep ==
    ASSUME LiveInv, NEW c \in Clients, ReceiveFailure(c) PROVE LiveInv'
  <1>1. /\ live[c].inbox # <<>> /\ UNCHANGED vars
        /\ live' = [live EXCEPT ![c] = Failed(Received(c))]
    BY DEF ReceiveFailure, SetLive
  <1>2. Session(Failed(Received(c)), rep[c]) BY <1>1, FailedIsSession
  <1> QED BY <1>1, <1>2, SameProtocol, OneSessionMoves

\* A refusal is followed by a pass, during which the session is served on.
LEMMA ReceiveRejectStep ==
    ASSUME LiveInv, NEW c \in Clients, ReceiveReject(c) PROVE LiveInv'
  <1> DEFINE w == [Received(c) EXCEPT !.phase = "resync"]
  <1>1. /\ live[c].inbox # <<>> /\ Incoming(c).kind = "reject" /\ live[c].phase = "open"
        /\ StartPass(c) /\ live' = [live EXCEPT ![c] = w]
    BY DEF ReceiveReject, SetLive
  <1>2. srv \in Replicas /\ rep[c] \in Replicas /\ rep[c].cursor <= rep[c].cursor
    BY DeviceFacts
  <1>3. Session(Received(c), rep[c]) BY <1>1, <1>2, ReceivedIsSession
  <1>4. Received(c).phase = "open"
    <2>1. live[c] \in Sessions BY DeviceFacts
    <2> QED BY <1>1, <2>1 DEF Received, Sessions
  <1>5. Session(w, rep[c]) BY <1>2, <1>3, <1>4, NextPhase
  <1> HIDE DEF w
  <1>6. Next BY <1>1 DEF Next, ClientStep
  <1>7. BaseInv' /\ Authored \subseteq Authored' BY <1>6, ProtocolKeeps DEF LiveInv
  <1>8. UNCHANGED <<row, oplog, srv, up, history, rep>>
    BY <1>1 DEF StartPass, serverVars, disk
  <1> QED BY <1>1, <1>5, <1>7, <1>8, OneSessionMoves

\* No step of the protocol moves a cursor back.
LEMMA CursorNeverBack ==
    ASSUME TypeOK, FiniteBatches, Next, NEW c \in Clients
    PROVE  rep[c].cursor <= rep'[c].cursor
  <1>1. rep[c] \in Replicas /\ rep[c].cursor \in Nat BY DEF TypeOK, Replicas
  <1>2. /\ \A o : AuthorOp(rep[c], o).cursor = rep[c].cursor
        /\ \A o : QuarantineOp(rep[c], o).cursor = rep[c].cursor
        /\ ReleaseQuarantined(rep[c]).cursor = rep[c].cursor
        /\ \A b : AcknowledgeServerOps(rep[c], b).cursor = rep[c].cursor
    BY <1>1 DEF AuthorOp, QuarantineOp, ReleaseQuarantined, AcknowledgeServerOps, Replicas
  <1>3. CASE rep'[c] = ApplySequencedBatch(rep[c], cl[c].page)
    <2>1. Fresh(rep[c], cl[c].page) \subseteq cl[c].page BY DEF Fresh
    <2>2. IsFiniteSet(cl[c].page) BY DEF FiniteBatches
    <2>3. Cardinality(Fresh(rep[c], cl[c].page)) \in Nat
      BY <2>1, <2>2, FS_Subset, FS_CardinalityType
    <2>4. rep'[c].cursor = rep[c].cursor + Cardinality(Fresh(rep[c], cl[c].page))
      BY <1>3 DEF ApplySequencedBatch, NewCursor
    <2> QED BY <1>1, <2>3, <2>4
  <1>4. rep'[c].cursor = rep[c].cursor \/ rep'[c] = ApplySequencedBatch(rep[c], cl[c].page)
    BY <1>2, ReplicaOrigin
  <1> QED BY <1>1, <1>3, <1>4

\* A step of a device's pass, and one that changes nothing, moves at most the
\* phase of its session.
LEMMA DeviceMoves ==
    ASSUME LiveInv, NEW c \in Clients, ClientStep(c) \/ UNCHANGED vars,
           NEW p \in {"offline", "pass", "ready", "open", "resync", "ended"},
           p \in {"open", "resync"} => live[c].phase \in {"open", "resync"},
           live' = live \/ live' = [live EXCEPT ![c] = [live[c] EXCEPT !.phase = p]]
    PROVE  LiveInv'
  <1>1. TypeOK /\ FiniteBatches BY DEF LiveInv, BaseInv, IInv
  <1>2. CASE ClientStep(c)
    <2>1. Next BY <1>2 DEF Next
    <2>2. UNCHANGED <<oplog, srv, up, history>> BY <1>1, <1>2, ClientLeavesServer
    <2>3. \A d \in Clients : d # c => rep'[d] = rep[d] BY <1>1, <1>2, OthersKeepReplica
    <2>4. rep[c].cursor <= rep'[c].cursor BY <1>1, <2>1, CursorNeverBack
    <2> QED BY <2>1, <2>2, <2>3, <2>4, PhaseMoves
  <1>3. CASE UNCHANGED vars
    <2>1. UNCHANGED <<oplog, srv, up, history, rep>>
      BY <1>3 DEF vars, serverVars, clientVars, disk
    <2>2. rep[c].cursor <= rep'[c].cursor BY <2>1, DeviceFacts
    <2> QED BY <1>3, <2>1, <2>2, PhaseMoves
  <1> QED BY <1>2, <1>3

\* Failing is a new phase.
LEMMA FailedPhase ==
    ASSUME NEW s
    PROVE  \E p \in {"offline", "ended"} : Failed(s) = [s EXCEPT !.phase = p]
  BY DEF Failed

\* A push notes its size in the session, and changes nothing else of it.
LEMMA SendOutboxStep ==
    ASSUME LiveInv, NEW c \in Clients, SendOutbox(c), NEW b \in BOOLEAN,
           live' = [live EXCEPT ![c] = [live[c] EXCEPT !.full = b]]
    PROVE  LiveInv'
  <1>1. TypeOK /\ ClientStep(c) BY DEF LiveInv, BaseInv, IInv, ClientStep
  <1>2. UNCHANGED <<oplog, srv, up, history>> BY <1>1, ClientLeavesServer
  <1>3. rep' = rep BY DEF SendOutbox
  <1>4. BaseInv' /\ Authored \subseteq Authored' BY <1>1, ProtocolKeeps DEF LiveInv, Next
  <1>5. Session([live[c] EXCEPT !.full = b], rep[c]) BY DeviceFacts, NextFull
  <1> QED BY <1>2, <1>3, <1>4, <1>5, OneSessionMoves

\* The passes, before a session and in it.
LEMMA PassKeeps ==
    ASSUME LiveInv, NEW c \in Clients, StartSession(c) \/ PassStep(c) \/ EndPass(c)
    PROVE  LiveInv'
  <1>1. live \in [Clients -> Sessions] BY DEF LiveInv
  <1>2. PICK p \in {"offline", "ended"} : Failed(live[c]) = [live[c] EXCEPT !.phase = p]
    BY FailedPhase
  <1>3. CASE StartSession(c)
    <2>1. /\ ClientStep(c) /\ live' = [live EXCEPT ![c] = [live[c] EXCEPT !.phase = "pass"]]
      BY <1>3 DEF StartSession, SetLive, ClientStep
    <2> QED BY <2>1, DeviceMoves
  <1>4. CASE PassStep(c)
    <2>1. ClientStep(c) BY <1>4 DEF PassStep, ClientStep
    <2> DEFINE Full == Cardinality(PendingOutbox(rep[c], row)) = BatchSize
    <2>2. \/ live' = live
          \/ live' = [live EXCEPT ![c] = Failed(live[c])]
          \/ live' = [live EXCEPT ![c] = live[c]]
          \/ SendOutbox(c) /\ live' = [live EXCEPT ![c] = [live[c] EXCEPT !.full = Full]]
      BY <1>4 DEF PassStep, SetLive
    <2>3. CASE SendOutbox(c) /\ live' = [live EXCEPT ![c] = [live[c] EXCEPT !.full = Full]]
      <3>1. Full \in BOOLEAN OBVIOUS
      <3> HIDE DEF Full
      <3> QED BY <2>3, <3>1, SendOutboxStep
    <2>4. CASE live' = live \/ live' = [live EXCEPT ![c] = [live[c] EXCEPT !.phase = p]]
      BY <1>2, <2>1, <2>4, DeviceMoves
    <2> QED BY <1>1, <1>2, <2>2, <2>3, <2>4
  <1>5. CASE EndPass(c)
    <2>1. CASE ~live[c].full /\ ~up
      <3>1. UNCHANGED vars /\ live' = [live EXCEPT ![c] = Failed(live[c])]
        BY <1>5, <2>1 DEF EndPass, SetLive
      <3> QED BY <1>2, <3>1, DeviceMoves
    <2>2. CASE ~live[c].full /\ up /\ OpsSince(rep[c].cursor, 1) # {}
      <3>1. ClientStep(c) /\ live' = live BY <1>5, <2>2 DEF EndPass, ClientStep
      <3> QED BY <3>1, DeviceMoves
    <2>3. CASE ~live[c].full /\ up /\ OpsSince(rep[c].cursor, 1) = {}
      <3> DEFINE phase == IF live[c].phase = "pass" THEN "ready" ELSE "open"
      <3>1. /\ UNCHANGED vars /\ live[c].phase \in {"pass", "resync"}
            /\ live' = [live EXCEPT ![c] = [live[c] EXCEPT !.phase = phase]]
        BY <1>5, <2>3 DEF EndPass, SetLive
      <3>2. phase \in {"ready", "open"} /\ (phase = "open" => live[c].phase = "resync")
        BY <3>1
      <3> HIDE DEF phase
      <3> QED BY <3>1, <3>2, DeviceMoves
    <2>4. CASE live[c].full
      <3>1. ClientStep(c) /\ live' = live BY <1>5, <2>4 DEF EndPass, ClientStep
      <3> QED BY <3>1, DeviceMoves
    <2> QED BY <2>1, <2>2, <2>3, <2>4
  <1> QED BY <1>3, <1>4, <1>5

\* The user's writes, and the end of a socket.
LEMMA OtherKeeps ==
    ASSUME LiveInv, NEW c \in Clients,
           \/ (\E o \in Ops : AuthorLocal(c, o)) /\ live' = live
           \/ ReleaseHeld(c) /\ live' = live
           \/ NoticeEnd(c)
    PROVE  LiveInv'
  <1>1. PICK p \in {"offline", "ended"} : Failed(live[c]) = [live[c] EXCEPT !.phase = p]
    BY FailedPhase
  <1>2. CASE NoticeEnd(c)
    <2>1. UNCHANGED vars /\ live' = [live EXCEPT ![c] = Failed(live[c])]
      BY <1>2 DEF NoticeEnd, SetLive
    <2> QED BY <1>1, <2>1, DeviceMoves
  <1>3. CASE live' = live /\ ClientStep(c) BY <1>1, <1>3, DeviceMoves
  <1> QED BY <1>2, <1>3 DEF ClientStep

\* A session begins with its backlog still to come.
LEMMA ConnectStep ==
    ASSUME LiveInv, NEW c \in Clients, Connect(c) PROVE LiveInv'
  <1> DEFINE w == [live[c] EXCEPT !.phase = "open", !.server = "backlog"]
  <1>1. /\ UNCHANGED vars
        /\ live' = [live EXCEPT ![c] = IF up THEN w ELSE NoSession]
    BY DEF Connect, SetLive
  <1>2. live[c] \in Sessions /\ Session(live[c], rep[c]) BY DeviceFacts
  <1>3. /\ w \in Sessions /\ w.unread = live[c].unread /\ w.inbox = live[c].inbox
        /\ w.feed = live[c].feed /\ w.server = "backlog"
    BY <1>2 DEF Sessions
  <1> HIDE DEF w
  <1>4. CASE up
    <2>1. ~ Following(w) BY <1>3 DEF Following
    <2>2. Continues(live[c], w, rep[c]) BY <1>3, <1>4, <2>1 DEF Continues
    <2>3. Session(w, rep[c]) BY <1>2, <2>2, NextSession
    <2> QED BY <1>1, <1>4, <2>3, SameProtocol, OneSessionMoves
  <1>5. CASE ~up
    <2>1. Session(NoSession, rep[c]) BY NoSessionIsOne
    <2> QED BY <1>1, <1>5, <2>1, SameProtocol, OneSessionMoves
  <1> QED BY <1>4, <1>5

\* The outbox goes into the socket.
LEMMA DrainStep ==
    ASSUME LiveInv, NEW c \in Clients, Drain(c) PROVE LiveInv'
  <1> DEFINE ops == PendingOutbox(rep[c], row)
             w == [live[c] EXCEPT !.unread = Append(@, ops)]
  <1>1. /\ UNCHANGED vars /\ live' = [live EXCEPT ![c] = w]
    BY DEF Drain, SetLive
  <1>2. /\ srv \in Replicas /\ rep[c] \in Replicas /\ rep[c].cursor <= rep[c].cursor
        /\ Session(live[c], rep[c]) /\ live[c] \in Sessions
        /\ (~up => live[c].server = "off") /\ BaseInv
    BY DeviceFacts
  <1>3. ops \subseteq rep[c].outbox BY DEF PendingOutbox
  <1>4. ops \subseteq Authored BY <1>2, <1>3 DEF BaseInv, KnownAuthored
  <1>5. ops \in SUBSET Ops BY <1>4 DEF Authored
  <1>6. live[c].unread \in Seq(SUBSET Ops) BY <1>2 DEF Sessions
  <1> HIDE DEF ops
  <1>7. /\ Append(live[c].unread, ops) \in Seq(SUBSET Ops)
        /\ Elements(Append(live[c].unread, ops)) = Elements(live[c].unread) \union {ops}
    BY <1>5, <1>6, AppendElements
  <1>8. /\ w \in Sessions /\ w.unread = Append(live[c].unread, ops)
        /\ w.inbox = live[c].inbox /\ w.feed = live[c].feed /\ w.server = live[c].server
        /\ w.phase = live[c].phase /\ w.lagged = live[c].lagged /\ w.missed = live[c].missed
    BY <1>2, <1>7 DEF Sessions
  <1> HIDE DEF w
  <1>9. Following(w) => Following(live[c]) BY <1>8 DEF Following
  <1>10. \A i : Coming(live[c], i) => Coming(w, i) BY <1>8, MoreIsComing
  <1>11. history.removed \/ history.left \/ (Following(w) => Supplied(w, rep[c]))
    BY <1>2, <1>9, <1>10, StillSupplied
  <1>12. Continues(live[c], w, rep[c]) BY <1>2, <1>4, <1>7, <1>8, <1>11 DEF Continues
  <1>13. Session(w, rep[c]) BY <1>2, <1>12, NextSession
  <1> QED BY <1>1, <1>13, SameProtocol, OneSessionMoves

----------------------------------------------------------------------------
(* The end of a session *)

\* A connection that breaks cuts what is on its way and brings nothing new.
LEMMA LoseStep ==
    ASSUME LiveInv, NEW c \in Clients, LoseConnection(c) PROVE LiveInv'
  <1>1. PICK n \in 0 .. Len(live[c].inbox) :
          live' = [live EXCEPT ![c] = [Cut(live[c]) EXCEPT
                      !.inbox = SubSeq(live[c].inbox, 1, n), !.unread = live[c].unread]]
    BY DEF LoseConnection, SetLive
  <1> DEFINE w == [Cut(live[c]) EXCEPT !.inbox = SubSeq(live[c].inbox, 1, n),
                                       !.unread = live[c].unread]
  <1>2. /\ UNCHANGED <<row, oplog, srv, up, actor, requests, replies, history, rep, cl, ex>>
        /\ Spend("network")
    BY DEF LoseConnection, disk, clientVars
  <1>3. /\ BaseInv /\ TypeOK /\ Session(live[c], rep[c]) /\ live[c] \in Sessions
    BY DeviceFacts
  <1>4. live[c].inbox \in Seq(Messages) BY <1>3 DEF Sessions
  <1>5. n \in Nat /\ n <= Len(live[c].inbox) /\ 1 \in Nat \ {0} BY <1>4, LenProperties
  <1>6. /\ SubSeq(live[c].inbox, 1, n) \in Seq(Messages)
        /\ Elements(SubSeq(live[c].inbox, 1, n)) \subseteq Elements(live[c].inbox)
    BY <1>4, <1>5, CutElements
  <1>7. <<>> \in Seq(SequencedOp) OBVIOUS
  <1>8. /\ w \in Sessions /\ w.unread = live[c].unread /\ w.feed = <<>>
        /\ w.inbox = SubSeq(live[c].inbox, 1, n) /\ w.server = "off"
    BY <1>3, <1>6, <1>7 DEF Sessions, Cut
  <1> HIDE DEF w
  <1>9. ~ Following(w) BY <1>8 DEF Following
  <1>10. Elements(w.feed) = {} BY <1>8, EmptyElements
  <1>11. Continues(live[c], w, rep[c]) BY <1>6, <1>8, <1>9, <1>10 DEF Continues
  <1>12. Session(w, rep[c]) BY <1>3, <1>11, NextSession
  <1>13. SideStep
    <2>1. faults' \in 0 .. MaxFaults BY <1>2, <1>3, SpendType DEF TypeOK
    <2>2. \A q \in requests' : q.ops \subseteq Authored
      BY <1>2, <1>3 DEF BaseInv, KnownAuthored
    <2> QED BY <1>2, <1>3, <2>1, <2>2 DEF SideStep, TypeOK
  <1>14. BaseInv' BY <1>3, <1>13, SideStepKeeps
  <1>15. Authored' = Authored BY <1>2 DEF Authored
  <1> QED BY <1>1, <1>2, <1>12, <1>14, <1>15, OneSessionMoves DEF w

\* Those who gave up leave the server typed questions about the same operations.
LEMMA AbandonAsks ==
    ASSUME BaseInv, NEW callers
    PROVE  /\ Abandoned(callers) \subseteq Requests
           /\ \A q \in Abandoned(callers) : q.ops \subseteq Authored
  <1>1. requests \subseteq Requests /\ \A q \in requests : q.ops \subseteq Authored
    BY DEF BaseInv, IInv, TypeOK, KnownAuthored
  <1>2. \A q \in Requests : /\ [q EXCEPT !.to = Nobody] \in Requests
                            /\ [q EXCEPT !.to = Nobody].ops = q.ops
    BY DEF Requests
  <1> QED BY <1>1, <1>2 DEF Abandoned

\* A retry drops the worker's push and ends the session.
LEMMA RestartStep ==
    ASSUME LiveInv, NEW c \in Clients, Restart(c) PROVE LiveInv'
  <1>1. /\ UNCHANGED <<row, oplog, srv, up, history, rep, ex>>
        /\ Spend("retry") /\ cl' = [cl EXCEPT ![c] = IdleWorker]
        /\ Abandon({Worker(c)})
        /\ live' = [live EXCEPT ![c] = [live[c] EXCEPT !.phase = "ended"]]
    BY DEF Restart, SetLive, SetCl, disk
  <1>2. /\ BaseInv /\ TypeOK /\ srv \in Replicas /\ rep[c] \in Replicas
        /\ rep[c].cursor <= rep[c].cursor /\ Session(live[c], rep[c])
    BY DeviceFacts
  <1>3. Session([live[c] EXCEPT !.phase = "ended"], rep[c]) BY <1>2, NextPhase
  <1>4. SideStep
    <2>1. requests' \subseteq Requests /\ replies' \in [Callers -> Replies]
      BY <1>1, <1>2, AbandonType
    <2>2. \A q \in requests' : q.ops \subseteq Authored
      BY <1>1, <1>2, AbandonAsks DEF Abandon
    <2>3. \A k \in Callers : replies'[k].ops \in {replies[k].ops, {}}
      BY <1>1 DEF Abandon, NoReply
    <2>4. actor' \in {actor, [actor EXCEPT !.to = Nobody]} BY <1>1 DEF Abandon
    <2>5. faults' \in 0 .. MaxFaults BY <1>1, <1>2, SpendType DEF TypeOK
    <2>6. cl' \in [Clients -> Workers] /\ \A d \in Clients : cl'[d] \in {cl[d], IdleWorker}
      BY <1>1, <1>2, IdleTypes DEF TypeOK
    <2> QED BY <1>1, <1>2, <2>1, <2>2, <2>3, <2>4, <2>5, <2>6 DEF SideStep, TypeOK
  <1>5. BaseInv' BY <1>2, <1>4, SideStepKeeps
  <1>6. Authored' = Authored BY <1>1 DEF Authored
  <1> QED BY <1>1, <1>3, <1>5, <1>6, OneSessionMoves

\* The pushes an ended session has sent may still be found by the server.
LEMMA EndSessionStep ==
    ASSUME LiveInv, NEW c \in Clients, EndSession(c) PROVE LiveInv'
  <1> DEFINE found(n) == {[to |-> Nobody, ops |-> live[c].unread[i]] : i \in 1 .. n}
  <1>1. PICK n \in 0 .. Len(live[c].unread) :
          requests' = Abandoned({Socket(c)}) \union found(n)
    BY DEF EndSession
  <1>2. /\ UNCHANGED <<row, oplog, srv, up, faults, history, rep, cl, ex>>
        /\ actor' \in {actor, [actor EXCEPT !.to = Nobody]}
        /\ replies' = [replies EXCEPT ![Socket(c)] = NoReply]
        /\ live' = [live EXCEPT ![c] = NoSession]
    BY DEF EndSession, SetLive, disk, clientVars
  <1>3. /\ BaseInv /\ TypeOK /\ Session(live[c], rep[c]) /\ live[c] \in Sessions
    BY DeviceFacts
  <1>4. /\ live[c].unread \in Seq(SUBSET Ops) /\ \A b \in Elements(live[c].unread) : b \subseteq Authored
    BY <1>3 DEF Sessions, Session, Sane
  <1>5. ASSUME NEW i \in 1 .. n
        PROVE  live[c].unread[i] \in SUBSET Ops /\ live[c].unread[i] \subseteq Authored
    <2>1. /\ Len(live[c].unread) \in Nat /\ DOMAIN live[c].unread = 1 .. Len(live[c].unread)
      BY <1>4, LenProperties
    <2>2. i \in DOMAIN live[c].unread BY <2>1
    <2>3. live[c].unread[i] \in Elements(live[c].unread) BY <2>2 DEF Elements
    <2> QED BY <1>4, <2>1, <2>2, <2>3, ElementOfSeq
  <1>6. SideStep
    <2>1. found(n) \subseteq Requests /\ \A q \in found(n) : q.ops \subseteq Authored
      BY <1>5 DEF Requests
    <2> HIDE DEF found
    <2>2. requests' \subseteq Requests /\ \A q \in requests' : q.ops \subseteq Authored
      BY <1>1, <1>3, <2>1, AbandonAsks
    <2>3. NoReply \in Replies /\ NoReply.ops = {} BY IdleTypes DEF NoReply
    <2>4. replies' \in [Callers -> Replies] BY <1>2, <1>3, <2>3 DEF TypeOK
    <2>5. \A k \in Callers : replies'[k].ops \in {replies[k].ops, {}}
      BY <1>2, <1>3, <2>3 DEF TypeOK
    <2> QED BY <1>2, <1>3, <2>2, <2>4, <2>5 DEF SideStep, TypeOK
  <1>7. BaseInv' BY <1>3, <1>6, SideStepKeeps
  <1>8. Authored' = Authored BY <1>2 DEF Authored
  <1>9. Session(NoSession, rep[c]) BY NoSessionIsOne
  <1> QED BY <1>2, <1>7, <1>8, <1>9, OneSessionMoves

\* Everything a device does keeps the invariant.
LEMMA DeviceStep ==
    ASSUME LiveInv, NEW c \in Clients, LiveClientStep(c) PROVE LiveInv'
  BY OtherKeeps, PassKeeps, ConnectStep, DrainStep, ReceiveOpsStep, ReceiveAckStep,
     ReceiveRejectStep, ReceiveFailureStep, EndSessionStep, LoseStep, RestartStep
     DEF LiveClientStep, RunSession

----------------------------------------------------------------------------
(* The actor's batch and the broadcast channel *)

\* The rows a batch has inserted are rows of the log; while the server is up and
\* no removal has failed they are all that lie beyond the replica's cursor.
LEMMA InsertedRows ==
    ASSUME LiveInv
    PROVE  /\ Inserted \in Seq(SequencedOp)
           /\ BackedBy(oplog, Elements(Inserted))
           /\ up /\ ~history.left =>
                (srv.cursor + 1) .. Len(oplog) \subseteq SeqsOf(Elements(Inserted))
  <1> DEFINE size == Cardinality(actor.inserted)
             before == Len(oplog) - size
             item(k) == [seq |-> before + k, op |-> oplog[before + k]]
  <1>1. /\ oplog \in Seq(Ops) /\ srv.cursor \in Nat /\ Len(oplog) \in Nat
        /\ srv.cursor <= Len(oplog) /\ DOMAIN oplog = 1 .. Len(oplog)
        /\ actor.inserted \subseteq (srv.cursor + 1) .. Len(oplog)
        /\ up /\ ~history.left => actor.inserted = (srv.cursor + 1) .. Len(oplog)
    <2>2. TypeOK /\ ServerInv BY DEF LiveInv, BaseInv, IInv
    <2>3. srv.cursor <= Len(oplog)
      BY <2>2 DEF ServerInv, ServerHolds, Agrees, CaughtUp
    <2> QED BY <2>2, <2>3, LenProperties DEF TypeOK, Replicas, ServerInv, ActorOwnsTail
  <1>2. /\ IsFiniteSet((srv.cursor + 1) .. Len(oplog))
        /\ Cardinality((srv.cursor + 1) .. Len(oplog)) = Len(oplog) - srv.cursor
    <2>1. srv.cursor + 1 \in Int /\ Len(oplog) \in Int BY <1>1
    <2>2. /\ IsFiniteSet((srv.cursor + 1) .. Len(oplog))
          /\ Cardinality((srv.cursor + 1) .. Len(oplog)) =
               IF srv.cursor + 1 > Len(oplog) THEN 0 ELSE Len(oplog) - (srv.cursor + 1) + 1
      BY <2>1, FS_Interval
    <2> QED BY <1>1, <2>2
  <1>3. /\ size \in Nat /\ size <= Len(oplog) - srv.cursor
    <2>1. IsFiniteSet(actor.inserted) /\ size <= Len(oplog) - srv.cursor
      BY <1>1, <1>2, FS_Subset
    <2> QED BY <2>1, FS_CardinalityType
  <1>4. Inserted = [k \in 1 .. size |-> item(k)] BY DEF Inserted
  <1> HIDE DEF size
  <1>5. before \in Nat /\ \A k \in 1 .. size : before + k \in 1 .. Len(oplog)
    BY <1>1, <1>3
  <1>6. ASSUME NEW k \in 1 .. size
        PROVE  item(k) \in SequencedOp /\ item(k).seq \in DOMAIN oplog
               /\ oplog[item(k).seq] = item(k).op
    <2>1. before + k \in 1 .. Len(oplog) BY <1>5
    <2>2. oplog[before + k] \in Ops BY <1>1, <2>1, ElementOfSeq
    <2> QED BY <1>1, <2>1, <2>2 DEF SequencedOp
  <1>7. Inserted \in Seq(SequencedOp)
    <2>1. \A k \in 1 .. size : item(k) \in SequencedOp BY <1>6
    <2> HIDE DEF item
    <2>2. Inserted \in [1 .. size -> SequencedOp] BY <1>4, <2>1
    <2> QED BY <1>3, <2>2, SeqDef
  <1>8. DOMAIN Inserted = 1 .. size /\ \A k \in 1 .. size : Inserted[k] = item(k)
    <2> HIDE DEF item
    <2> QED BY <1>4
  <1>9. BackedBy(oplog, Elements(Inserted)) BY <1>6, <1>8 DEF Elements, BackedBy
  <1>10. ASSUME up, ~history.left, NEW i \in (srv.cursor + 1) .. Len(oplog)
         PROVE  i \in SeqsOf(Elements(Inserted))
    <2>1. before = srv.cursor BY <1>1, <1>2, <1>10 DEF size
    <2>2. i - before \in 1 .. size BY <1>1, <1>3, <1>10, <2>1
    <2>3. item(i - before).seq = i BY <1>1, <2>1
    <2>4. Inserted[i - before] \in Elements(Inserted) BY <1>8, <2>2 DEF Elements
    <2>5. Inserted[i - before].seq = i BY <1>8, <2>2, <2>3
    <2> HIDE DEF item, before
    <2> QED BY <2>4, <2>5 DEF SeqsOf
  <1> QED BY <1>7, <1>9, <1>10

\* A session that is fed keeps all its rows and gets all the new ones, or lags.
Feeds(s, t, news) ==
    /\ t \in Sessions /\ t.server = s.server /\ t.phase = s.phase
    /\ t.unread = s.unread /\ t.inbox = s.inbox /\ t.missed = s.missed
    /\ Elements(t.feed) \subseteq Elements(s.feed) \union Elements(news)
    /\ Following(t) =>
         /\ Following(s)
         /\ Elements(t.feed) = Elements(s.feed) \union Elements(news)

\* That is what the channel does.
LEMMA FedSession ==
    ASSUME NEW s \in Sessions, NEW news \in Seq(SequencedOp)
    PROVE  Feeds(s, Fed(s, news), news)
  <1> DEFINE all == s.feed \o news
             over == Len(all) - Capacity
             cut == SubSeq(all, over + 1, Len(all))
  <1>0. PICK t : t = Fed(s, news) OBVIOUS
  <1> SUFFICES Feeds(s, t, news) BY <1>0
  <1>1. s.feed \in Seq(SequencedOp) BY DEF Sessions
  <1>2. /\ all \in Seq(SequencedOp)
        /\ Elements(all) = Elements(s.feed) \union Elements(news)
    BY <1>1, ConcatElements
  <1> HIDE DEF all
  <1>3. Len(all) \in Nat /\ Capacity \in Nat \ {0} BY <1>2, LenProperties, LiveAssumption
  <1>4. CASE s.server = "off"
    <2>1. t = s BY <1>0, <1>4 DEF Fed
    <2> QED BY <1>4, <2>1 DEF Feeds, Following
  <1>5. CASE s.server # "off" /\ over <= 0
    <2>1. t = [s EXCEPT !.feed = all] BY <1>0, <1>5 DEF Fed, all
    <2>2. /\ t \in Sessions /\ t.feed = all /\ t.server = s.server /\ t.phase = s.phase
          /\ t.unread = s.unread /\ t.inbox = s.inbox /\ t.missed = s.missed
          /\ t.lagged = s.lagged
      BY <1>2, <2>1 DEF Sessions
    <2> QED BY <1>2, <2>2 DEF Feeds, Following
  <1>6. CASE s.server # "off" /\ ~ (over <= 0)
    <2>1. t = [s EXCEPT !.feed = cut, !.lagged = TRUE] BY <1>0, <1>6 DEF Fed, all
    <2>2. over + 1 \in Nat \ {0} /\ Len(all) <= Len(all) BY <1>3, <1>6
    <2>3. cut \in Seq(SequencedOp) /\ Elements(cut) \subseteq Elements(all)
      BY <1>2, <1>3, <2>2, CutElements
    <2> HIDE DEF cut
    <2>4. /\ t \in Sessions /\ t.feed = cut /\ t.server = s.server /\ t.phase = s.phase
          /\ t.unread = s.unread /\ t.inbox = s.inbox /\ t.missed = s.missed
          /\ t.lagged = TRUE
      BY <2>1, <2>3 DEF Sessions
    <2> QED BY <1>2, <2>3, <2>4 DEF Feeds, Following
  <1> QED BY <1>4, <1>5, <1>6

----------------------------------------------------------------------------
(* The server *)

\* What a step of the server does to the session s of the device with replica r:
\* it loses what is on its way, or gets some of the rows news.
Fares(s, t, r, news) ==
    /\ t \in Sessions
    /\ ~up' => t.server = "off"
    /\ Elements(t.unread) \subseteq Elements(s.unread)
    /\ Elements(t.inbox) \subseteq Elements(s.inbox)
    /\ Elements(t.feed) \subseteq Elements(s.feed) \union news
    /\ \/ history'.removed \/ history'.left
       \/ Following(t) => \A i \in (r.cursor + 1) .. srv'.cursor : Coming(t, i)

\* Then it is a session of the server's next state.
LEMMA SessionFares ==
    ASSUME LiveInv, Next, NEW s, NEW r, Session(s, r), NEW news, BackedBy(oplog, news),
           NEW t, Fares(s, t, r, news)
    PROVE  Session(t, r)'
  <1> USE DEF Fares
  <1>1. /\ TypeOK /\ oplog \in Seq(Ops) /\ Authored \subseteq Authored'
        /\ (history.removed => history'.removed)
    BY ProtocolKeeps, HistoryStep DEF LiveInv, BaseInv, IInv, TypeOK
  <1>2. Sane(s) /\ (history.removed \/ Backed(s)) BY DEF Session
  <1>3. Sane(t)'
    <2>1. OpsOf(news) \subseteq Authored BY RowsAreAuthored
    <2>2. OpsOf(Elements(t.feed)) \subseteq Authored'
      BY <1>1, <1>2, <2>1 DEF Sane, OpsOf
    <2>3. \A b \in Elements(t.unread) : b \subseteq Authored' BY <1>1, <1>2 DEF Sane
    <2>4. \A m \in Elements(t.inbox) :
             m.kind = "ops" => IsFiniteSet(m.ops) /\ OpsOf(m.ops) \subseteq Authored'
      BY <1>1, <1>2 DEF Sane
    <2> QED BY <2>2, <2>3, <2>4 DEF Sane
  <1>4. history'.removed \/ Backed(t)'
    <2> SUFFICES ASSUME ~history'.removed PROVE Backed(t)' OBVIOUS
    <2>1. Grows(oplog, oplog') BY <1>1, LogStep DEF Grows
    <2>2. \A b : BackedBy(oplog, b) => BackedBy(oplog', b) BY <1>1, <2>1, GrowsKeeps
    <2>3. Backed(s) BY <1>1, <1>2
    <2>4. BackedBy(oplog, Elements(t.feed)) BY <2>3 DEF Backed, BackedBy
    <2>5. \A m \in Elements(t.inbox) : BackedBy(oplog', m.ops) BY <2>2, <2>3 DEF Backed
    <2>6. BackedBy(oplog', Elements(t.feed)) BY <2>2, <2>4
    <2> QED BY <2>5, <2>6 DEF Backed, BackedBy
  <1>5. history'.removed \/ history'.left \/ (Following(t) => Supplied(t, r)')
    BY DEF Supplied, Coming
  <1> QED BY <1>3, <1>4, <1>5 DEF Session, Following

\* So are all of them.
LEMMA SessionsFare ==
    ASSUME LiveInv, Next, UNCHANGED clientVars, live' \in [Clients -> Sessions],
           \A c \in Clients : \E news :
              BackedBy(oplog, news) /\ Fares(live[c], live'[c], rep[c], news)
    PROVE  LiveInv'
  <1>1. BaseInv' BY ProtocolKeeps DEF LiveInv
  <1>2. rep' = rep BY DEF clientVars
  <1>3. ASSUME NEW c \in Clients PROVE Session(live[c], rep[c])'
    <2>1. PICK t, r : t = live'[c] /\ r = rep[c] OBVIOUS
    <2>2. PICK news : BackedBy(oplog, news) /\ Fares(live[c], t, r, news) BY <2>1
    <2>3. Session(live[c], r) BY <2>1 DEF LiveInv
    <2>4. Session(t, r)' BY <2>2, <2>3, SessionFares
    <2> QED BY <1>2, <2>1, <2>4
  <1> QED BY <1>1, <1>3 DEF LiveInv

\* A session that is fed all the rows the server has just applied, or falls
\* behind, fares well.
LEMMA FedFares ==
    ASSUME LiveInv, Next, Materialize, NEW c \in Clients, NEW news \in Seq(SequencedOp),
           NEW u, Feeds(live[c], u, news), NEW t \in Sessions,
           t.server = u.server, t.unread = u.unread, t.inbox = u.inbox, t.feed = u.feed,
           Following(t) => /\ Following(u)
                           /\ history.left \/ (srv.cursor + 1) .. Len(oplog)
                                                \subseteq SeqsOf(Elements(news))
    PROVE  Fares(live[c], t, rep[c], Elements(news))
  <1> USE DEF Feeds
  <1>1. /\ Session(live[c], rep[c]) /\ rep[c].cursor \in Nat /\ srv.cursor \in Nat
        /\ (~up => live[c].server = "off") /\ Len(oplog) \in Nat
    BY DeviceFacts
  <1>2. up' = up /\ oplog' = oplog /\ history' = history BY DEF Materialize
  <1>3. /\ BaseInv' /\ srv'.cursor \in Nat /\ srv'.cursor <= Len(oplog)
    <2>1. BaseInv' BY ProtocolKeeps DEF LiveInv
    <2>2. (CaughtUp(oplog, srv) /\ srv \in Replicas)'
      BY <2>1 DEF BaseInv, IInv, TypeOK, ServerInv, ServerHolds, Agrees
    <2> QED BY <1>2, <2>1, <2>2 DEF CaughtUp, Replicas
  <1>4. ASSUME ~history.removed, ~history.left, Following(t),
               NEW i \in (rep[c].cursor + 1) .. srv'.cursor
        PROVE  Coming(t, i)
    <2>1. Following(u) /\ Following(live[c]) BY <1>4
    <2>2. CASE i <= srv.cursor
      <3>1. i \in (rep[c].cursor + 1) .. srv.cursor BY <1>1, <1>3, <2>2
      <3>2. Coming(live[c], i) BY <1>1, <1>4, <2>1, <3>1 DEF Session, Supplied
      <3>3. Elements(live[c].feed) \subseteq Elements(t.feed) BY <2>1
      <3>4. Elements(live[c].inbox) \subseteq Elements(t.inbox) OBVIOUS
      <3>5. \A k : Coming(live[c], k) => Coming(t, k) BY <3>3, <3>4, MoreIsComing
      <3> QED BY <3>2, <3>5
    <2>3. CASE ~ (i <= srv.cursor)
      <3>1. i \in (srv.cursor + 1) .. Len(oplog) BY <1>1, <1>3, <2>3
      <3>2. i \in SeqsOf(Elements(news)) BY <1>4, <3>1
      <3>3. Elements(news) \subseteq Elements(t.feed) BY <2>1
      <3> QED BY <3>2, <3>3 DEF Coming, SeqsOf
    <2> QED BY <2>2, <2>3
  <1> QED BY <1>1, <1>2, <1>4 DEF Fares

\* A batch that was applied is broadcast, whole or, when a snapshot fails, in
\* part.
LEMMA PublishStep ==
    ASSUME LiveInv, UNCHANGED clientVars,
           \/ ApplyIngested /\ Publish(Inserted)
           \/ SnapshotFails /\ PublishSome(Inserted)
    PROVE  LiveInv'
  <1>1. Next /\ Materialize BY DEF Next, ServerStep, ApplyIngested, SnapshotFails
  <1>2. /\ Inserted \in Seq(SequencedOp) /\ BackedBy(oplog, Elements(Inserted))
        /\ ~history.left =>
             (srv.cursor + 1) .. Len(oplog) \subseteq SeqsOf(Elements(Inserted))
    BY <1>1, InsertedRows DEF Materialize
  <1>3. PICK rows : rows = Inserted OBVIOUS
  <1>4. live \in [Clients -> Sessions] BY DEF LiveInv
  <1>5. CASE Publish(Inserted)
    <2>1. live' = [c \in Clients |-> Fed(live[c], rows)] BY <1>3, <1>5 DEF Publish
    <2>2. ASSUME NEW c \in Clients
          PROVE  Feeds(live[c], live'[c], rows) /\ live'[c] \in Sessions
      <3>1. Feeds(live[c], Fed(live[c], rows), rows) BY <1>2, <1>3, <1>4, FedSession
      <3> QED BY <2>1, <3>1 DEF Feeds
    <2>3. ASSUME NEW c \in Clients
          PROVE  \E news : BackedBy(oplog, news) /\ Fares(live[c], live'[c], rep[c], news)
      <3>1. Fares(live[c], live'[c], rep[c], Elements(rows))
        BY <1>1, <1>2, <1>3, <2>2, FedFares
      <3> QED BY <1>2, <1>3, <3>1
    <2>4. live' \in [Clients -> Sessions] BY <2>1, <2>2
    <2> QED BY <1>1, <2>3, <2>4, SessionsFare
  <1>6. CASE PublishSome(Inserted)
    <2>1. PICK n \in 1 .. Len(rows) :
            live' = [c \in Clients |->
              LET s == Fed(live[c], SubSeq(rows, 1, n))
              IN  [s EXCEPT !.missed = @ \/ (s.server # "off" /\ n < Len(rows))]]
      BY <1>3, <1>6 DEF PublishSome
    <2>2. PICK part : part = SubSeq(rows, 1, n) OBVIOUS
    <2>3. Len(rows) \in Nat /\ n \in Nat /\ n <= Len(rows) /\ 1 \in Nat \ {0}
      BY <1>2, <1>3, LenProperties
    <2>4. part \in Seq(SequencedOp) /\ Elements(part) \subseteq Elements(rows)
      BY <1>2, <1>3, <2>2, <2>3, CutElements
    <2>5. n < Len(rows) \/ part = rows
      <3>1. rows \in Seq(SequencedOp) BY <1>2, <1>3
      <3>2. SubSeq(rows, 1, Len(rows)) = rows BY <3>1, SubSeqFull
      <3>3. n < Len(rows) \/ n = Len(rows) BY <2>3
      <3> QED BY <2>2, <3>2, <3>3
    <2>6. ASSUME NEW c \in Clients
          PROVE  live'[c] \in Sessions /\ Fares(live[c], live'[c], rep[c], Elements(part))
      <3>1. PICK u : u = Fed(live[c], part) OBVIOUS
      <3>2. PICK gap \in BOOLEAN : gap <=> live[c].server # "off" /\ n < Len(rows) OBVIOUS
      <3>3. Feeds(live[c], u, part) BY <1>4, <2>4, <3>1, FedSession
      <3>4. u \in Sessions /\ u.missed \in BOOLEAN /\ u.server = live[c].server
        BY <3>3 DEF Feeds, Sessions
      <3>5. PICK t : t = live'[c] OBVIOUS
      <3>6. t = [u EXCEPT !.missed = u.missed \/ gap]
        <4>1. t = [u EXCEPT !.missed = @ \/ (u.server # "off" /\ n < Len(rows))]
          BY <2>1, <2>2, <3>1, <3>5
        <4> QED BY <3>2, <3>4, <4>1
      <3>7. /\ t \in Sessions /\ t.server = u.server /\ t.unread = u.unread
            /\ t.inbox = u.inbox /\ t.feed = u.feed /\ t.phase = u.phase
            /\ t.lagged = u.lagged /\ t.missed = (u.missed \/ gap)
        BY <3>4, <3>6 DEF Sessions
      <3>8. ASSUME Following(t)
            PROVE  /\ Following(u)
                   /\ history.left \/ (srv.cursor + 1) .. Len(oplog)
                                        \subseteq SeqsOf(Elements(part))
        <4>1. /\ ~u.missed /\ ~gap /\ t.server # "off" /\ Following(u)
          BY <3>4, <3>7, <3>8 DEF Following
        <4>2. part = rows BY <2>5, <3>2, <3>4, <3>7, <4>1
        <4> QED BY <1>2, <1>3, <4>1, <4>2
      <3>9. Fares(live[c], t, rep[c], Elements(part))
        BY <1>1, <2>4, <3>3, <3>7, <3>8, FedFares
      <3> QED BY <3>5, <3>7, <3>9
    <2>7. BackedBy(oplog, Elements(part)) BY <1>2, <1>3, <2>4 DEF BackedBy
    <2>8. live' \in [Clients -> Sessions] BY <2>1, <2>6
    <2> QED BY <1>1, <2>6, <2>7, <2>8, SessionsFare
  <1> QED BY <1>5, <1>6

\* A crash of the server cuts every session.
LEMMA CrashStep ==
    ASSUME LiveInv, UNCHANGED clientVars, ServerCrash,
           live' = [c \in Clients |-> Cut(live[c])]
    PROVE  LiveInv'
  <1>1. Next BY DEF Next, ServerStep
  <1>2. live \in [Clients -> Sessions] BY DEF LiveInv
  <1>3. ASSUME NEW c \in Clients
        PROVE  live'[c] \in Sessions /\ Fares(live[c], live'[c], rep[c], {})
    <2>1. PICK s, t : s = live[c] /\ t = live'[c] OBVIOUS
    <2>2. t = Cut(s) /\ s \in Sessions BY <1>2, <2>1
    <2>3. <<>> \in Seq(SUBSET Ops) /\ <<>> \in Seq(SequencedOp) OBVIOUS
    <2>4. /\ t \in Sessions /\ t.server = "off" /\ t.unread = <<>>
          /\ t.inbox = s.inbox /\ t.feed = <<>>
      BY <2>2, <2>3 DEF Sessions, Cut
    <2>5. Elements(<<>>) = {} BY EmptyElements
    <2>6. ~ Following(t) BY <2>4 DEF Following
    <2>7. Fares(s, t, rep[c], {}) BY <2>4, <2>5, <2>6 DEF Fares
    <2> QED BY <2>1, <2>4, <2>7
  <1>4. BackedBy(oplog, {}) BY DEF BackedBy
  <1>5. live' \in [Clients -> Sessions] BY <1>3
  <1> QED BY <1>1, <1>3, <1>4, <1>5, SessionsFare

\* Only a batch that is applied and a restart move the cursor of the server.
LEMMA CursorOfServer ==
    ASSUME TypeOK, ServerStep
    PROVE  srv'.cursor = srv.cursor \/ Materialize \/ (~up /\ up')
  <1>1. \A o : AuthorOp(srv, o).cursor = srv.cursor BY DEF TypeOK, AuthorOp, Replicas
  <1> QED BY <1>1 DEF ServerStep, AuthorServer, PublishAuthored, RefusePush, StartIngest,
       AppendNext, ApplyIngested, SnapshotFails, RejectIngested, StorageFault, RemoveTail,
       RemoveTailFails, FailIngest, ServerCrash, ServerStart, disk

\* No other step of the server touches a session.
LEMMA QuietServerStep ==
    ASSUME LiveInv, UNCHANGED clientVars, ServerStep, ~Applied, up => up', live' = live
    PROVE  LiveInv'
  <1>1. Next /\ TypeOK BY DEF Next, LiveInv, BaseInv, IInv
  <1>2. live' \in [Clients -> Sessions] BY DEF LiveInv
  <1>3. ~ Materialize BY DEF Materialize, Applied, IdleActor
  <1>4. BackedBy(oplog, {}) BY DEF BackedBy
  <1>5. (history.left => history'.left) /\ (history.removed => history'.removed)
    BY <1>1, HistoryStep
  <1>6. ASSUME NEW c \in Clients PROVE Fares(live[c], live'[c], rep[c], {})
    <2>1. PICK t : t = live[c] OBVIOUS
    <2>2. t \in Sessions /\ Session(t, rep[c]) /\ (~up => t.server = "off")
      BY <2>1, DeviceFacts
    <2>3. srv'.cursor = srv.cursor \/ ~up BY <1>1, <1>3, CursorOfServer
    <2>4. \/ history'.removed \/ history'.left
          \/ Following(t) => \A i \in (rep[c].cursor + 1) .. srv'.cursor : Coming(t, i)
      BY <1>5, <2>2, <2>3 DEF Session, Supplied, Following
    <2>5. Fares(t, t, rep[c], {}) BY <2>2, <2>4 DEF Fares
    <2> QED BY <2>1, <2>5
  <1> QED BY <1>1, <1>2, <1>4, <1>6, SessionsFare

\* Everything the server does keeps the invariant.
LEMMA LiveServerKeeps ==
    ASSUME LiveInv, LiveServerStep PROVE LiveInv'
  BY PublishStep, CrashStep, QuietServerStep DEF LiveServerStep

----------------------------------------------------------------------------
(* What a session promises *)

\* No session is open at first.
LEMMA InitLive == LiveInit => LiveInv
  <1> SUFFICES ASSUME LiveInit PROVE LiveInv OBVIOUS
  <1>1. ProtocolInv BY InitProtocol DEF LiveInit
  <1>2. BaseInv BY <1>1 DEF ProtocolInv, BaseInv
  <1>3. ASSUME NEW c \in Clients PROVE Session(live[c], rep[c]) /\ live[c] \in Sessions
    <2>1. live[c] = NoSession BY DEF LiveInit
    <2>2. Session(NoSession, rep[c]) BY NoSessionIsOne
    <2> QED BY <2>1, <2>2 DEF Session, Sane
  <1>4. live \in [Clients -> Sessions] BY <1>3 DEF LiveInit
  <1> QED BY <1>2, <1>3, <1>4 DEF LiveInv

\* A step outside the sessions changes none.
LEMMA LiveStutter ==
    ASSUME LiveInv, UNCHANGED liveVars PROVE LiveInv'
  <1>1. UNCHANGED vars /\ live' = live BY DEF liveVars
  <1>2. /\ BaseInv' /\ Authored \subseteq Authored'
        /\ UNCHANGED <<row, oplog, srv, up, history, rep>>
    BY <1>1, SameProtocol
  <1>3. live' \in [Clients -> Sessions] BY <1>1 DEF LiveInv
  <1>4. ASSUME NEW c \in Clients PROVE Session(live[c], rep[c])'
    <2>1. PICK t, q : t = live[c] /\ q = rep[c] OBVIOUS
    <2>2. Session(t, q) BY <2>1 DEF LiveInv
    <2>3. Sane(t)' BY <1>2, <2>2 DEF Session, Sane, Authored
    <2>4. history'.removed \/ Backed(t)' BY <1>2, <2>2 DEF Session, Backed
    <2>5. history'.removed \/ history'.left \/ (Following(t)' => Supplied(t, q)')
      BY <1>2, <2>2 DEF Session, Following, Supplied, Coming
    <2>6. Session(t, q)' BY <2>3, <2>4, <2>5 DEF Session
    <2> QED BY <1>1, <1>2, <2>1, <2>6
  <1> QED BY <1>2, <1>3, <1>4 DEF LiveInv

\* Every step keeps the invariant.
LEMMA LiveStep == LiveInv /\ [LiveNext]_liveVars => LiveInv'
  <1>1. ASSUME LiveInv, LiveNext PROVE LiveInv'
    BY <1>1, LiveServerKeeps, ServeStep, DeviceStep DEF LiveNext
  <1> QED BY <1>1, LiveStutter

\* The rows that a device with a session lacks are on their way to it in every
\* state, whatever the two loops, the worker, the actor and the faults have done.
THEOREM LiveHolds == LiveSpec => []LiveInv
  BY InitLive, LiveStep, PTL DEF LiveSpec

\* A device whose session is open and silent has everything that is in the log:
\* between the backlog, the broadcast channel and the acknowledgements nothing
\* falls through, whatever their order on the socket (websocket_session,
\* synchronize_session, ingest_operations).
THEOREM QuietSessionIsCurrentAlways == LiveSpec => []QuietSessionIsCurrent
  <1>1. ASSUME LiveInv PROVE QuietSessionIsCurrent
    <2> SUFFICES ASSUME NEW c \in Clients, Quiet(c), ~live[c].missed,
                        ~history.removed, ~history.left
                 PROVE  rep[c].cursor = Len(oplog)
      BY DEF QuietSessionIsCurrent
    <2>1. /\ BaseInv /\ rep[c].cursor \in Nat /\ srv.cursor \in Nat /\ Len(oplog) \in Nat
          /\ srv.cursor <= Len(oplog) /\ Session(live[c], rep[c])
      BY <1>1, DeviceFacts
    <2>2. rep[c].cursor <= Len(oplog)
      BY <2>1 DEF BaseInv, IInv, AppendOnlyInv, SequencesAgree, Agrees, CaughtUp
    <2>3. actor.inserted = {} /\ actor.inserted = (srv.cursor + 1) .. Len(oplog)
      BY <2>1 DEF Quiet, BaseInv, ServerInv, ActorOwnsTail
    <2>4. ~ (srv.cursor < Len(oplog))
      <3>1. srv.cursor < Len(oplog) => Len(oplog) \in (srv.cursor + 1) .. Len(oplog)
        BY <2>1
      <3> QED BY <2>3, <3>1
    <2>5. Supplied(live[c], rep[c]) BY <2>1 DEF Session, Following, Quiet
    <2>6. Elements(live[c].inbox) = {} /\ Elements(live[c].feed) = {}
      BY EmptyElements DEF Quiet
    <2>7. \A i : ~ Coming(live[c], i) BY <2>6 DEF Coming, SeqsOf
    <2>8. ~ (rep[c].cursor < srv.cursor)
      <3>1. rep[c].cursor < srv.cursor => srv.cursor \in (rep[c].cursor + 1) .. srv.cursor
        BY <2>1
      <3> QED BY <2>5, <2>7, <3>1 DEF Supplied
    <2> QED BY <2>1, <2>2, <2>4, <2>8
  <1> QED BY <1>1, LiveHolds, PTL

\* The promises of the protocol hold with sessions too: replicas agree with the
\* log on every sequence number they know, nothing authored is lost, and between
\* two batches the server's replica is the log (handle_server_message,
\* run_user_actor).
THEOREM SessionsKeepTheProtocol ==
    LiveSpec => []/\ SequencesAgreeIfAppendOnly
                  /\ NoLostOpsIfAppendOnly
                  /\ ServerMaterializesLog
  <1>1. ASSUME LiveInv
        PROVE  SequencesAgreeIfAppendOnly /\ NoLostOpsIfAppendOnly /\ ServerMaterializesLog
    <2>1. BaseInv BY <1>1 DEF LiveInv
    <2>2. SequencesAgreeIfAppendOnly /\ NoLostOpsIfAppendOnly
      BY <2>1 DEF BaseInv, IInv, AppendOnlyInv, SequencesAgreeIfAppendOnly,
                  NoLostOpsIfAppendOnly
    <2>3. ServerMaterializesLog BY <2>1, ServerHoldsLog DEF BaseInv, IInv
    <2> QED BY <2>2, <2>3
  <1> QED BY <1>1, LiveHolds, PTL

----------------------------------------------------------------------------
(* The abstract specification *)

\* The server's task, the socket and the end of a session are invisible.
LEMMA InvisibleStep ==
    ASSUME UNCHANGED <<row, oplog, rep>> PROVE UNCHANGED absVars
  BY DEF absVars, Authored, position

\* What a session receives moves the cursor of its device on, inside the log.
LEMMA ReceiveReads ==
    ASSUME LiveInv, ~history.removed, NEW c \in Clients, ReceiveOps(c) \/ ReceiveAck(c)
    PROVE  [Abstract!Next]_absVars
  <1>1. /\ UNCHANGED <<row, oplog, history>>
        /\ \/ rep' = rep
           \/ rep' = [rep EXCEPT ![c] = ApplySequencedBatch(rep[c], Incoming(c).ops)]
              /\ live[c].inbox # <<>> /\ Incoming(c).kind = "ops"
           \/ rep' = [rep EXCEPT ![c] = AcknowledgeServerOps(rep[c], Incoming(c).ops)]
    BY DEF ReceiveOps, ReceiveAck, SetRep, serverVars, disk
  <1>2. LiveInv' BY ReceiveOpsStep, ReceiveAckStep
  <1>3. /\ TypeOK /\ rep \in [Clients -> Replicas] /\ rep[c].cursor \in Nat
        /\ Session(live[c], rep[c]) /\ live[c] \in Sessions
    BY DeviceFacts DEF TypeOK
  <1>4. /\ rep'[c].cursor \in Nat /\ rep'[c].cursor <= Len(oplog)
    <2>1. IInv' BY <1>2 DEF LiveInv, BaseInv
    <2>2. (rep[c] \in Replicas /\ Agrees(oplog, rep[c]))'
      BY <1>1, <2>1 DEF IInv, TypeOK, AppendOnlyInv, SequencesAgree
    <2> QED BY <1>1, <2>2 DEF Replicas, Agrees, CaughtUp
  <1>5. \A d \in Clients : d # c => rep'[d] = rep[d] BY <1>1, <1>3
  <1>6. rep[c].cursor <= rep'[c].cursor
    <2>1. CASE rep' = rep BY <1>3, <2>1
    <2>2. CASE rep' = [rep EXCEPT ![c] = AcknowledgeServerOps(rep[c], Incoming(c).ops)]
      BY <1>3, <2>2 DEF AcknowledgeServerOps
    <2>3. CASE /\ rep' = [rep EXCEPT ![c] = ApplySequencedBatch(rep[c], Incoming(c).ops)]
               /\ live[c].inbox # <<>> /\ Incoming(c).kind = "ops"
      <3>1. live[c].inbox \in Seq(Messages) BY <1>3 DEF Sessions
      <3>2. Incoming(c) \in Elements(live[c].inbox) BY <2>3, <3>1, HeadElements DEF Incoming
      <3>3. IsFiniteSet(Incoming(c).ops) BY <1>3, <2>3, <3>2 DEF Session, Sane
      <3>4. Fresh(rep[c], Incoming(c).ops) \subseteq Incoming(c).ops BY DEF Fresh
      <3>5. Cardinality(Fresh(rep[c], Incoming(c).ops)) \in Nat
        BY <3>3, <3>4, FS_Subset, FS_CardinalityType
      <3>6. rep'[c].cursor = rep[c].cursor + Cardinality(Fresh(rep[c], Incoming(c).ops))
        BY <1>3, <2>3 DEF ApplySequencedBatch, NewCursor
      <3> QED BY <1>3, <3>5, <3>6
    <2> QED BY <1>1, <2>1, <2>2, <2>3
  <1>7. \/ rep'[c].cursor = rep[c].cursor
        \/ rep[c].cursor < rep'[c].cursor /\ rep'[c].cursor <= Len(oplog)
    BY <1>3, <1>4, <1>6
  <1> QED BY <1>1, <1>3, <1>4, <1>5, <1>7, ReaderMoves

\* A step is one of the protocol, one that is invisible, or one that reads.
LEMMA LiveStepForms ==
    ASSUME LiveNext
    PROVE  \/ [Next]_vars
           \/ UNCHANGED <<row, oplog, rep>>
           \/ \E c \in Clients : ReceiveOps(c) \/ ReceiveAck(c)
  <1>1. CASE LiveServerStep
    BY <1>1 DEF LiveServerStep, Next, ServerStep
  <1>2. ASSUME NEW c \in Clients, ServeSession(c)
        PROVE  UNCHANGED vars \/ UNCHANGED <<row, oplog, rep>>
    BY <1>2 DEF ServeSession, SendBacklog, TakePush, AnswerPush, Forward, TellLagged,
       disk, clientVars
  <1>3. ASSUME NEW c \in Clients, RunSession(c)
        PROVE  \/ ClientStep(c) \/ UNCHANGED vars \/ UNCHANGED <<row, oplog, rep>>
               \/ ReceiveOps(c) \/ ReceiveAck(c)
    <2>1. CASE StartSession(c) \/ PassStep(c) \/ EndPass(c)
      BY <2>1 DEF StartSession, PassStep, EndPass, ClientStep
    <2>2. CASE Connect(c) \/ Drain(c) \/ ReceiveFailure(c) \/ NoticeEnd(c)
      BY <2>2 DEF Connect, Drain, ReceiveFailure, NoticeEnd
    <2>3. CASE EndSession(c) BY <2>3 DEF EndSession, disk, clientVars
    <2>4. CASE ReceiveReject(c) BY <2>4 DEF ReceiveReject, ClientStep
    <2> QED BY <1>3, <2>1, <2>2, <2>3, <2>4 DEF RunSession
  <1>4. ASSUME NEW c \in Clients, LiveClientStep(c)
        PROVE  \/ ClientStep(c) \/ UNCHANGED vars \/ UNCHANGED <<row, oplog, rep>>
               \/ ReceiveOps(c) \/ ReceiveAck(c)
    BY <1>3, <1>4 DEF LiveClientStep, ClientStep, LoseConnection, Restart, disk, clientVars
  <1> QED BY <1>1, <1>2, <1>4 DEF LiveNext, Next

\* As long as remove_tail does not run, passes and sessions together are a shared
\* log: whatever arrives through the backlog, the broadcast or an answer, every
\* device reads the log in order (handle_server_message).
THEOREM SessionsImplementTheSharedLog ==
    LiveSpec /\ [](~history.removed) => ImplementsSharedLog
  <1>1. LiveInit => Abstract!Init BY InitRefines DEF LiveInit
  <1>2. ASSUME LiveInv, ~history.removed, (~history.removed)', [LiveNext]_liveVars
        PROVE  [Abstract!Next]_<<{o \in Ops : row[o] > 0}, oplog,
                                 [c \in Clients |-> rep[c].cursor]>>
    <2>1. [Abstract!Next]_absVars
      <3>1. CASE UNCHANGED vars \/ UNCHANGED <<row, oplog, rep>>
        BY <3>1, InvisibleStep DEF vars, serverVars, disk, clientVars
      <3>2. CASE Next BY <1>2, <3>2, RefinementStep DEF LiveInv, BaseInv
      <3>3. ASSUME NEW c \in Clients, ReceiveOps(c) \/ ReceiveAck(c)
            PROVE  [Abstract!Next]_absVars
        BY <1>2, <3>3, ReceiveReads
      <3>4. CASE UNCHANGED liveVars BY <3>1, <3>4 DEF liveVars
      <3> QED BY <1>2, <3>1, <3>2, <3>3, <3>4, LiveStepForms
    <2> QED BY <2>1 DEF absVars, Authored, position
  <1>3. LiveInv /\ ~history.removed /\ (~history.removed)' /\ [LiveNext]_liveVars
          => [Abstract!Next]_<<{o \in Ops : row[o] > 0}, oplog,
                               [c \in Clients |-> rep[c].cursor]>>
    BY <1>2
  <1> QED BY <1>1, <1>3, LiveHolds, PTL DEF LiveSpec, ImplementsSharedLog, Abstract!Spec
=============================================================================
