----------------------------- MODULE DeviceProofs -----------------------------
(***************************************************************************)
(* What TLC checks of the clock and of handwritten notes in DeviceParts,   *)
(* for every set of devices, every width of the counter and every bound.   *)
(*                                                                         *)
(* The argument for the clock: a device's persisted clock is at least as   *)
(* large as every stamp it has seen (Covers), Send returns something       *)
(* strictly larger, so a new operation is larger than all its author knew; *)
(* and two equal stamps would name the same device, which has seen its own *)
(* operations.                                                             *)
(* A counter at its limit breaks the strictness, hence ~Saturated.         *)
(***************************************************************************)
EXTENDS HlcClock, InkVersions, FiniteSetTheorems, SequenceTheorems, TLAPS

----------------------------------------------------------------------------
(* The order and the two clock rules *)

\* The fields of a stamp are numbers (struct Hlc).
LEMMA FieldsAreNumbers ==
    ASSUME NEW a \in Stamps \union {NoStamp}
    PROVE  a.wall \in Nat /\ a.counter \in Nat /\ a.device \in Int
  <1>1. CASE a = NoStamp BY <1>1 DEF NoStamp
  <1>2. CASE a \in Stamps
    <2>1. a.wall \in Nat /\ a.counter \in 0 .. MaxCounter /\ a.device \in Devices
      BY <1>2 DEF Stamps
    <2>2. a.counter \in Nat BY <2>1, MaxCounterAssumption
    <2>3. a.device \in Nat BY <2>1, DevicesAssumption
    <2> QED BY <2>1, <2>2, <2>3
  <1> QED BY <1>1, <1>2

\* The order of stamps (derived Ord of Hlc) is transitive.
LEMMA LessIsTransitive ==
    ASSUME NEW a \in Stamps \union {NoStamp}, NEW b \in Stamps \union {NoStamp},
           NEW c \in Stamps \union {NoStamp}, AtMost(a, b), Less(b, c)
    PROVE  Less(a, c)
  <1>1. /\ a.wall \in Nat /\ a.counter \in Nat /\ a.device \in Int
        /\ b.wall \in Nat /\ b.counter \in Nat /\ b.device \in Int
        /\ c.wall \in Nat /\ c.counter \in Nat /\ c.device \in Int
    BY FieldsAreNumbers
  <1>2. CASE a = b BY <1>2
  <1>3. CASE Less(a, b) BY <1>1, <1>3 DEF Less
  <1> QED BY <1>2, <1>3 DEF AtMost

\* So is its reflexive form.
LEMMA AtMostIsTransitive ==
    ASSUME NEW a \in Stamps \union {NoStamp}, NEW b \in Stamps \union {NoStamp},
           NEW c \in Stamps \union {NoStamp}, AtMost(a, b), AtMost(b, c)
    PROVE  AtMost(a, c)
  BY LessIsTransitive DEF AtMost

\* A stamp is never smaller than itself, so equal stamps are not ordered.
LEMMA LessIsIrreflexive ==
    ASSUME NEW a \in Stamps PROVE ~ Less(a, a)
  BY FieldsAreNumbers DEF Less

\* Hlc::send never goes back, and moves forward unless the counter is full.
LEMMA SendMovesForward ==
    ASSUME NEW d \in Devices, NEW w \in Nat, NEW l \in Stamps \union {NoStamp},
           l # NoStamp => l.device = d
    PROVE  /\ Send(l, w, d) \in Stamps
           /\ Send(l, w, d).device = d
           /\ AtMost(l, Send(l, w, d))
           /\ Send(l, w, d).counter # MaxCounter => Less(l, Send(l, w, d))
  BY DevicesAssumption, MaxCounterAssumption
     DEF Send, Stamp, Bump, AtMost, Less, Stamps, NoStamp

\* Hlc::receive returns a stamp of the receiving device.
LEMMA ReceiveIsStamp ==
    ASSUME NEW d \in Devices, NEW w \in Nat, NEW l \in Stamps \union {NoStamp},
           NEW r \in Stamps
    PROVE  Receive(l, r, w, d) \in Stamps /\ Receive(l, r, w, d).device = d
  <1>1. /\ l.wall \in Nat /\ l.counter \in 0 .. MaxCounter
        /\ r.wall \in Nat /\ r.counter \in 0 .. MaxCounter
    BY MaxCounterAssumption DEF Stamps, NoStamp
  <1>2. \A n \in 0 .. MaxCounter : Bump(n) \in 0 .. MaxCounter
    BY MaxCounterAssumption DEF Bump
  <1>3. /\ Bump(Larger(l.counter, r.counter)) \in 0 .. MaxCounter
        /\ Bump(l.counter) \in 0 .. MaxCounter
        /\ Bump(r.counter) \in 0 .. MaxCounter
        /\ 0 \in 0 .. MaxCounter
        /\ Larger(Larger(w, l.wall), r.wall) \in Nat
    BY <1>1, <1>2, MaxCounterAssumption DEF Larger
  <1> QED BY <1>3 DEF Receive, Stamp, Stamps

\* Hlc::receive is at least as large as both of its inputs.
LEMMA ReceiveMovesForward ==
    ASSUME NEW d \in Devices, NEW w \in Nat, NEW l \in Stamps \union {NoStamp},
           l # NoStamp => l.device = d, NEW r \in Stamps,
           r.counter # MaxCounter
    PROVE  /\ Receive(l, r, w, d) \in Stamps
           /\ Receive(l, r, w, d).device = d
           /\ AtMost(l, Receive(l, r, w, d))
           /\ AtMost(r, Receive(l, r, w, d))
  BY DevicesAssumption, MaxCounterAssumption
     DEF Receive, Stamp, Bump, Larger, AtMost, Less, Stamps, NoStamp

\* ... and never behind the device's own clock, saturated or not.
LEMMA ReceiveNeverGoesBack ==
    ASSUME NEW d \in Devices, NEW w \in Nat, NEW l \in Stamps \union {NoStamp},
           l # NoStamp => l.device = d, NEW r \in Stamps
    PROVE  AtMost(l, Receive(l, r, w, d))
  BY DevicesAssumption, MaxCounterAssumption
     DEF Receive, Stamp, Bump, Larger, AtMost, Less, Stamps, NoStamp

----------------------------------------------------------------------------
(* The inductive invariant *)

\* Bookkeeping of the model: a clock carries its own device, an operation knew
\* only earlier ones, and its author has seen it.
WellFormed ==
    /\ \A d \in Devices : last[d] # NoStamp => last[d].device = d
    /\ \A i \in DOMAIN ops : ops[i].knew \subseteq 1 .. (i - 1)
    /\ \A i \in DOMAIN ops : i \in seen[ops[i].hlc.device]

\* No stamp a device has seen is ahead of its clock.
Covers == \A d \in Devices : \A i \in seen[d] : AtMost(ops[i].hlc, last[d])

Follow == \A i \in DOMAIN ops : \A j \in ops[i].knew : Less(ops[j].hlc, ops[i].hlc)

Unique == \A i, j \in DOMAIN ops : ops[i].hlc = ops[j].hlc => i = j

IInv == TypeOK /\ WellFormed /\ (Saturated \/ (Covers /\ Follow /\ Unique))

\* What a device has applied are operations of the behaviour.
LEMMA SeenAreOps ==
    ASSUME TypeOK, NEW d \in Devices, NEW i \in seen[d]
    PROVE  i \in DOMAIN ops
  <1>1. i \in 1 .. Len(ops) BY DEF TypeOK
  <1>2. ops \in Seq(Records) BY DEF TypeOK
  <1> QED BY <1>1, <1>2

\* Every operation carries a stamp.
LEMMA OpsAreStamped ==
    ASSUME TypeOK, NEW i \in DOMAIN ops
    PROVE  ops[i].hlc \in Stamps /\ ops[i].hlc.device \in Devices
  <1>1. ops \in Seq(Records) /\ i \in 1 .. Len(ops) BY DEF TypeOK
  <1>2. ops[i] \in Records BY <1>1
  <1>3. ops[i].hlc \in Stamps BY <1>2 DEF Records
  <1> QED BY <1>3 DEF Stamps

\* A wall clock reads a number.
LEMMA ReadingIsNat == ASSUME TypeOK, NEW d \in Devices PROVE now[d] \in Nat
  <1>1. now[d] \in 0 .. MaxWall BY DEF TypeOK
  <1> QED BY <1>1, WallAssumption

\* Replicas that have authored nothing satisfy the invariant.
LEMMA InitIInv == Init => IInv
  BY DEF Init, IInv, TypeOK, WellFormed, Covers, Follow, Unique, Stamps, NoStamp

\* A jump of a wall clock keeps the invariant.
LEMMA SetClockIInv ==
    ASSUME IInv, NEW d \in Devices, NEW w \in 0 .. MaxWall, SetClock(d, w)
    PROVE  IInv'
  BY DEF IInv, SetClock, TypeOK, WellFormed, Covers, Follow, Unique, Saturated

\* Applying an operation of another device (observe_hlc) keeps it.
LEMMA ObserveIInv ==
    ASSUME IInv, NEW d \in Devices, NEW i \in 1 .. Len(ops), Observe(d, i)
    PROVE  IInv'
  <1> DEFINE new == Receive(last[d], ops[i].hlc, now[d], d)
  <1>1. /\ last' = [last EXCEPT ![d] = new]
        /\ seen' = [seen EXCEPT ![d] = @ \union {i}]
        /\ now' = now /\ ops' = ops
        /\ i \in DOMAIN ops
    BY DEF Observe
  <1>2. /\ last[d] \in Stamps \union {NoStamp} /\ ops[i].hlc \in Stamps
        /\ now[d] \in Nat /\ (last[d] # NoStamp => last[d].device = d)
    <2>1. now[d] \in Nat BY ReadingIsNat DEF IInv
    <2>2. ops[i].hlc \in Stamps BY <1>1, OpsAreStamped DEF IInv
    <2> QED BY <2>1, <2>2 DEF IInv, TypeOK, WellFormed
  <1>3. CASE ops[i].hlc.counter = MaxCounter
    <2>1. new \in Stamps /\ new.device = d
      BY <1>2, ReceiveIsStamp
    <2>2. TypeOK' BY <1>1, <2>1 DEF IInv, TypeOK
    <2>3. WellFormed' BY <1>1, <2>1 DEF IInv, TypeOK, WellFormed
    <2>4. Saturated' BY <1>1, <1>3 DEF Saturated
    <2> QED BY <2>2, <2>3, <2>4 DEF IInv
  <1>4. CASE ops[i].hlc.counter # MaxCounter
    <2>1. /\ new \in Stamps /\ new.device = d
          /\ AtMost(last[d], new) /\ AtMost(ops[i].hlc, new)
      BY <1>2, <1>4, ReceiveMovesForward
    <2>2. TypeOK' BY <1>1, <2>1 DEF IInv, TypeOK
    <2>3. WellFormed' BY <1>1, <2>1 DEF IInv, TypeOK, WellFormed
    <2>4. CASE Saturated
      BY <1>1, <2>2, <2>3, <2>4 DEF IInv, Saturated
    <2>5. CASE Covers /\ Follow /\ Unique
      <3>1. ASSUME NEW e \in Devices, NEW j \in seen'[e]
            PROVE  AtMost(ops'[j].hlc, last'[e])
        <4>1. CASE e # d BY <1>1, <2>5, <3>1, <4>1 DEF Covers, IInv, TypeOK
        <4>2. CASE e = d /\ j = i BY <1>1, <2>1, <4>2 DEF IInv, TypeOK
        <4>3. CASE e = d /\ j # i
          <5>1. j \in seen[d] BY <1>1, <3>1, <4>3 DEF IInv, TypeOK
          <5>2. AtMost(ops[j].hlc, last[d]) BY <2>5, <5>1 DEF Covers
          <5>3. ops[j].hlc \in Stamps
            BY <5>1, SeenAreOps, OpsAreStamped DEF IInv
          <5>4. AtMost(ops[j].hlc, new)
            BY <1>2, <2>1, <5>2, <5>3, AtMostIsTransitive
          <5> QED BY <1>1, <4>3, <5>4 DEF IInv, TypeOK
        <4> QED BY <4>1, <4>2, <4>3
      <3>2. Covers' BY <3>1 DEF Covers
      <3>3. Follow' /\ Unique' BY <1>1, <2>5 DEF Follow, Unique
      <3> QED BY <2>2, <2>3, <3>2, <3>3 DEF IInv
    <2> QED BY <2>4, <2>5 DEF IInv
  <1> QED BY <1>3, <1>4

\* Stamping a local operation (Hlc::send) keeps it.
LEMMA AuthorIInv ==
    ASSUME IInv, NEW d \in Devices, Author(d)
    PROVE  IInv'
  <1> DEFINE new == Send(last[d], now[d], d)
             n == Len(ops) + 1
  <1>1. /\ last' = [last EXCEPT ![d] = new]
        /\ ops' = Append(ops, [hlc |-> new, knew |-> seen[d]])
        /\ seen' = [seen EXCEPT ![d] = @ \union {n}]
        /\ now' = now
    BY DEF Author
  <1>2. /\ last[d] \in Stamps \union {NoStamp} /\ now[d] \in Nat
        /\ (last[d] # NoStamp => last[d].device = d)
    <2>1. now[d] \in Nat BY ReadingIsNat DEF IInv
    <2> QED BY <2>1 DEF IInv, TypeOK, WellFormed
  <1>3. /\ new \in Stamps /\ new.device = d /\ AtMost(last[d], new)
        /\ new.counter # MaxCounter => Less(last[d], new)
    BY <1>2, SendMovesForward
  <1>4. /\ n \in Nat /\ n \notin DOMAIN ops
        /\ DOMAIN ops' = DOMAIN ops \union {n} /\ Len(ops') = n
        /\ ops'[n] = [hlc |-> new, knew |-> seen[d]]
        /\ \A i \in DOMAIN ops : ops'[i] = ops[i]
        /\ \A e \in Devices : seen[e] \subseteq DOMAIN ops
    BY <1>1 DEF IInv, TypeOK
  <1>5. TypeOK'
    <2>1. ops' \in Seq(Records)
      <3>1. seen[d] \subseteq Nat BY <1>4 DEF IInv, TypeOK
      <3>2. [hlc |-> new, knew |-> seen[d]] \in Records
        BY <1>3, <3>1 DEF Records
      <3> QED BY <1>1, <3>2 DEF IInv, TypeOK
    <2>2. seen' \in [Devices -> SUBSET (1 .. Len(ops'))]
      BY <1>1, <1>4 DEF IInv, TypeOK
    <2> QED BY <1>1, <1>3, <2>1, <2>2 DEF IInv, TypeOK
  <1>6. WellFormed'
    <2>1. \A e \in Devices : last'[e] # NoStamp => last'[e].device = e
      BY <1>1, <1>3 DEF IInv, TypeOK, WellFormed
    <2>2. \A i \in DOMAIN ops' : ops'[i].knew \subseteq 1 .. (i - 1)
      BY <1>4 DEF IInv, TypeOK, WellFormed
    <2>3. \A i \in DOMAIN ops' : i \in seen'[ops'[i].hlc.device]
      <3> TAKE i \in DOMAIN ops'
      <3>1. CASE i = n BY <1>1, <1>3, <1>4, <3>1 DEF IInv, TypeOK
      <3>2. CASE i # n
        <4>1. /\ i \in DOMAIN ops /\ ops'[i] = ops[i]
              /\ ops[i].hlc.device \in Devices
          BY <1>4, <3>2, OpsAreStamped DEF IInv
        <4>2. i \in seen[ops[i].hlc.device] BY <4>1 DEF IInv, WellFormed
        <4> QED BY <1>1, <4>1, <4>2 DEF IInv, TypeOK
      <3> QED BY <3>1, <3>2
    <2> QED BY <2>1, <2>2, <2>3 DEF WellFormed
  <1>7. CASE Saturated \/ new.counter = MaxCounter
    <2>1. Saturated' BY <1>4, <1>7 DEF Saturated
    <2> QED BY <1>5, <1>6, <2>1 DEF IInv
  <1>8. CASE ~Saturated /\ new.counter # MaxCounter
    <2>1. Covers /\ Follow /\ Unique BY <1>8 DEF IInv
    <2>2. \A i \in seen[d] : ops[i].hlc \in Stamps /\ Less(ops[i].hlc, new)
      <3> TAKE i \in seen[d]
      <3>1. ops[i].hlc \in Stamps BY SeenAreOps, OpsAreStamped DEF IInv
      <3>2. AtMost(ops[i].hlc, last[d]) BY <2>1 DEF Covers
      <3> QED BY <1>2, <1>3, <1>8, <3>1, <3>2, LessIsTransitive
    <2>3. Covers'
      <3> SUFFICES ASSUME NEW e \in Devices, NEW j \in seen'[e]
                   PROVE  AtMost(ops'[j].hlc, last'[e])
        BY DEF Covers
      <3>1. CASE j = n
        <4>1. e = d BY <1>1, <1>4, <3>1 DEF IInv, TypeOK
        <4> QED BY <1>1, <1>4, <3>1, <4>1 DEF AtMost, IInv, TypeOK
      <3>2. CASE j # n /\ e = d
        BY <1>1, <1>4, <2>2, <3>2 DEF AtMost, IInv, TypeOK
      <3>3. CASE j # n /\ e # d
        BY <1>1, <1>4, <2>1, <3>3 DEF Covers, IInv, TypeOK
      <3> QED BY <3>1, <3>2, <3>3
    <2>4. Follow'
      <3> SUFFICES ASSUME NEW i \in DOMAIN ops', NEW j \in ops'[i].knew
                   PROVE  Less(ops'[j].hlc, ops'[i].hlc)
        BY DEF Follow
      <3>1. CASE i = n BY <1>4, <2>2, <3>1
      <3>2. CASE i # n
        <4>1. i \in DOMAIN ops /\ j \in ops[i].knew BY <1>4, <3>2
        <4>2. j \in DOMAIN ops BY <4>1 DEF IInv, WellFormed, TypeOK
        <4> QED BY <1>4, <2>1, <4>1, <4>2 DEF Follow
      <3> QED BY <3>1, <3>2
    <2>5. \A i \in DOMAIN ops : ops[i].hlc # new
      <3> TAKE i \in DOMAIN ops
      <3>1. CASE ops[i].hlc.device # d BY <1>3, <3>1
      <3>2. CASE ops[i].hlc.device = d
        <4>1. i \in seen[d] BY <3>2 DEF IInv, WellFormed
        <4> QED BY <1>3, <2>2, <4>1, LessIsIrreflexive
      <3> QED BY <3>1, <3>2
    <2>6. Unique' BY <1>4, <2>1, <2>5 DEF Unique
    <2> QED BY <1>5, <1>6, <2>3, <2>4, <2>6 DEF IInv
  <1> QED BY <1>7, <1>8

\* Every step keeps the invariant.
LEMMA NextIInv == IInv /\ [Next]_vars => IInv'
  <1> SUFFICES ASSUME IInv, [Next]_vars PROVE IInv'
    OBVIOUS
  <1>1. ASSUME NEW d \in Devices, NEW w \in 0 .. MaxWall, SetClock(d, w)
        PROVE  IInv'
    BY <1>1, SetClockIInv
  <1>2. ASSUME NEW d \in Devices, Author(d) PROVE IInv'
    BY <1>2, AuthorIInv
  <1>3. ASSUME NEW d \in Devices, NEW i \in 1 .. Len(ops), Observe(d, i)
        PROVE  IInv'
    BY <1>3, ObserveIInv
  <1>4. CASE UNCHANGED vars
    BY <1>4 DEF IInv, vars, TypeOK, WellFormed, Covers, Follow, Unique, Saturated
  <1> QED BY <1>1, <1>2, <1>3, <1>4 DEF Next

\* Every reachable state satisfies the invariant.
THEOREM ClockInvariant == Spec => []IInv
  BY InitIInv, NextIInv, PTL DEF Spec

----------------------------------------------------------------------------
(* What is worth knowing *)

\* An operation made in the knowledge of another one has the larger stamp,
\* however the wall clocks of the devices jump (Hlc::send, Hlc::receive).
THEOREM StampsFollowKnowledgeAlways == Spec => []StampsFollowKnowledge
  <1>1. IInv => StampsFollowKnowledge
    BY DEF IInv, StampsFollowKnowledge, Follow
  <1> QED BY <1>1, ClockInvariant, PTL

\* Two different operations never carry the same stamp.
THEOREM StampsAreUniqueAlways == Spec => []StampsAreUnique
  <1>1. IInv => StampsAreUnique
    BY DEF IInv, StampsAreUnique, Unique
  <1> QED BY <1>1, ClockInvariant, PTL

\* The persisted clock of a device never goes back, even when its wall clock
\* does or the counter is full (last_hlc in sync_meta).
THEOREM ClockNeverGoesBackAlways == Spec => ClockNeverGoesBack
  <1> DEFINE Forward == \A d \in Devices : AtMost(last[d], last'[d])
  <1>1. ASSUME IInv, Next PROVE Forward
    <2> TAKE e \in Devices
    <2>1. /\ last \in [Devices -> Stamps \union {NoStamp}]
          /\ last[e] \in Stamps \union {NoStamp}
          /\ last[e] # NoStamp => last[e].device = e
          /\ now[e] \in Nat
      BY <1>1, ReadingIsNat DEF IInv, TypeOK, WellFormed
    <2>2. ASSUME NEW d \in Devices, NEW w \in 0 .. MaxWall, SetClock(d, w)
          PROVE  AtMost(last[e], last'[e])
      BY <2>2 DEF SetClock, AtMost
    <2>3. ASSUME NEW d \in Devices, Author(d)
          PROVE  AtMost(last[e], last'[e])
      <3>1. CASE d # e BY <2>1, <2>3, <3>1 DEF Author, AtMost
      <3>2. CASE d = e
        <4>1. last'[e] = Send(last[e], now[e], e) BY <2>1, <2>3, <3>2 DEF Author
        <4> QED BY <2>1, <4>1, SendMovesForward
      <3> QED BY <3>1, <3>2
    <2>4. ASSUME NEW d \in Devices, NEW i \in 1 .. Len(ops), Observe(d, i)
          PROVE  AtMost(last[e], last'[e])
      <3>1. CASE d # e BY <2>1, <2>4, <3>1 DEF Observe, AtMost
      <3>2. CASE d = e
        <4>1. last'[e] = Receive(last[e], ops[i].hlc, now[e], e)
          BY <2>1, <2>4, <3>2 DEF Observe
        <4>2. ops[i].hlc \in Stamps
          BY <1>1, <2>4, OpsAreStamped DEF Observe, IInv
        <4> QED BY <2>1, <4>1, <4>2, ReceiveNeverGoesBack
      <3> QED BY <3>1, <3>2
    <2> QED BY <1>1, <2>2, <2>3, <2>4 DEF Next
  <1>2. IInv /\ [Next]_vars => [Forward]_vars BY <1>1
  <1> QED BY <1>2, ClockInvariant, PTL DEF Spec, ClockNeverGoesBack

----------------------------------------------------------------------------
(* The versions of a handwritten note.                                       *)
(*                                                                           *)
(* The argument for NoStrokeLost: what a version holds is in a head, because *)
(* a child holds all that its parent held and a resolution drops nothing     *)
(* silently (FollowsBase, StillOffered); and what is in no version is on a   *)
(* dirty page, which nothing exchanges (StillSomewhere).  For CleanShowsBase *)
(* one needs to know that packing cannot reach a published chunk: what is    *)
(* not sealed on a device nobody else knows (Own), and no version holds it.  *)

\* The chunks that packing writes.
Packs == Tablets \X SUBSET Strokes

\* The type of the state, by device.
InkTyped ==
    /\ page \in [Tablets -> InkPages]
    /\ session \in [Tablets -> Sessions]
    /\ known \in [Tablets -> SUBSET Ids]
    /\ graphs \in [Tablets -> SUBSET {versions[v].root : v \in Ids}]
    /\ sealed \in [Tablets -> SUBSET (Strokes \union Packs)]
    /\ versions \in Seq(Versions) /\ Len(versions) <= MaxVersions
    /\ notes \subseteq Roots
    /\ drawn \subseteq Strokes /\ discarded \subseteq drawn
    /\ turns \in 0 .. MaxTurns
    /\ torn \subseteq Tablets

\* The drawings a page can be moved to.
States(p) == Range(p.history)
\* The chunks those drawings lie in.
Places(p) == UNION {Range(root) : root \in States(p)}
\* The chunks of published drawings.
VersionPlaces == UNION {Range(versions[v].root) : v \in Ids}

\* The cursor is inside the history, and what is unpublished is there.
PointsInside(t) ==
    /\ HasRoot(page[t]) => page[t].cursor \in DOMAIN page[t].history
    /\ page[t].dirty => HasRoot(page[t])
\* The base is a version whose graph the device holds.
BaseIsHere(t) == page[t].base # 0 =>
    /\ page[t].base \in Ids
    /\ HasRoot(page[t])
    /\ versions[page[t].base].root \in graphs[t]
\* A stroke lies in one chunk, whichever state of the page one looks at.
OnePlace(t) == \A r1, r2 \in States(page[t]) :
    \A s \in DOMAIN r1 \cap DOMAIN r2 : r1[s] = r2[s]
\* An editor that may save shows what the page holds.
SeesCurrent(t) == session[t].view = "open" => session[t].sees = DOMAIN Current(page[t])
\* What was built on a version keeps its strokes, but for the discarded ones.
FollowsBase(t) == page[t].base # 0 =>
    DOMAIN versions[page[t].base].root \ discarded \subseteq DOMAIN Current(page[t])
\* CleanShowsBase, on one device.
CleanIsBase(t) == ~page[t].dirty /\ page[t].base # 0 =>
    Current(page[t]) = versions[page[t].base].root
\* The chunks of downloaded and published graphs are sealed.
GraphsAreSealed(t) == \A root \in graphs[t] : Range(root) \subseteq sealed[t]
\* A chunk only the device itself can know: it holds a stroke that was drawn, and
\* neither a version nor another device has it.
Own(t, c) ==
    /\ c \in drawn /\ c \notin VersionPlaces
    /\ \A u \in Tablets \ {t} : c \notin Places(page[u])
\* What is not sealed is the device's own.
FreshIsOwn(t) == \A c \in Places(page[t]) \ sealed[t] : Own(t, c)
\* What a packing job means to move is the device's own.
PlanIsOwn(t) == session[t].task = "packing" =>
    \A s \in session[t].plan.at : Own(t, session[t].plan.from[s])
\* A page holds strokes that were drawn, in their chunks or in packed ones.
DrawnBefore(t) ==
    /\ Places(page[t]) \subseteq drawn \union Packs
    /\ \A root \in States(page[t]) : DOMAIN root \subseteq drawn

\* A version names older ones as its parents, and holds strokes that were drawn.
VersionsGrow ==
    \A v \in Ids :
        /\ \A w \in versions[v].parents : w < v
        /\ DOMAIN versions[v].root \subseteq drawn
        /\ Range(versions[v].root) \subseteq drawn \union Packs

\* What a version holds and nobody discarded is in a head or in a note.
StillOffered ==
    \A v \in Ids : \A s \in DOMAIN versions[v].root \ discarded :
        \/ \E h \in Heads(Ids) : s \in DOMAIN versions[h].root
        \/ \E root \in notes : s \in DOMAIN root
\* What was drawn and nobody discarded is in a version, in a note or unpublished.
StillSomewhere ==
    \A s \in drawn \ discarded :
        \/ \E v \in Ids : s \in DOMAIN versions[v].root
        \/ \E root \in notes : s \in DOMAIN root
        \/ \E t \in Tablets : page[t].dirty /\ s \in DOMAIN Current(page[t])

\* All that holds on one device.
TabletOk(t) ==
    /\ PointsInside(t) /\ BaseIsHere(t) /\ OnePlace(t) /\ SeesCurrent(t)
    /\ FollowsBase(t) /\ CleanIsBase(t) /\ GraphsAreSealed(t) /\ FreshIsOwn(t)
    /\ PlanIsOwn(t) /\ DrawnBefore(t)

\* QuietPageIsCurrent, on one device.
Quiet(t) ==
    LET heads == Heads(known[t])
    IN  /\ ~page[t].dirty /\ ~page[t].editing
        /\ session[t].task # "closing"
        /\ Cardinality(heads) = 1
        /\ \A v \in heads : Available(t, v)
        => page[t].base \in heads

\* The inductive invariant of a handwritten note.
InkInv ==
    /\ InkTyped
    /\ \A t \in Tablets : TabletOk(t)
    /\ VersionsGrow /\ StillOffered /\ StillSomewhere
    /\ QuietPageIsCurrent

----------------------------------------------------------------------------
(* Roots and pages *)

\* A page that became version h.
Taken(p, h) == [p EXCEPT !.history = <<versions[h].root>>, !.cursor = 1, !.base = h]

\* A root maps strokes to chunks.
LEMMA RootFacts ==
    ASSUME NEW root \in Roots
    PROVE  /\ DOMAIN root \subseteq Strokes
           /\ root = [s \in DOMAIN root |-> root[s]]
           /\ \A s \in DOMAIN root : root[s] \in Range(root)
           /\ Range(root) \subseteq Strokes \union Packs
  <1>1. PICK S \in SUBSET Strokes : root \in [S -> Strokes \union (Tablets \X SUBSET Strokes)]
    BY DEF Roots
  <1> QED BY <1>1 DEF Range, Packs

\* Every map of strokes to chunks is a root.
LEMMA RootIntro ==
    ASSUME NEW S \in SUBSET Strokes, NEW f \in [S -> Strokes \union Packs]
    PROVE  f \in Roots
  BY DEF Roots, Packs

\* The empty drawing has neither strokes nor chunks.
LEMMA BlankFacts ==
    /\ Blank \in Roots /\ DOMAIN Blank = {} /\ Range(Blank) = {}
  <1>1. Blank \in [{} -> Strokes \union Packs] BY DEF Blank
  <1> QED BY <1>1, RootIntro DEF Blank, Range

\* The states of a page are roots, and the current one is among them.
LEMMA StatesOfPage ==
    ASSUME NEW p \in InkPages
    PROVE  /\ States(p) \subseteq Roots
           /\ \A i \in DOMAIN p.history : p.history[i] \in States(p)
           /\ Places(p) \subseteq Strokes \union Packs
           /\ \A root \in States(p) : Range(root) \subseteq Places(p)
           /\ HasRoot(p) /\ p.cursor \in DOMAIN p.history => Current(p) \in States(p)
           /\ ~HasRoot(p) => Current(p) = Blank
           /\ (HasRoot(p) => p.cursor \in DOMAIN p.history) => Current(p) \in Roots
  <1>1. p.history \in Seq(Roots) BY DEF InkPages
  <1>2. States(p) \subseteq Roots /\ \A i \in DOMAIN p.history : p.history[i] \in States(p)
    BY <1>1 DEF States, Range
  <1>3. \A root \in States(p) : Range(root) \subseteq Places(p) BY DEF Places
  <1>4. Places(p) \subseteq Strokes \union Packs
    BY <1>2, RootFacts DEF Places
  <1>5. HasRoot(p) /\ p.cursor \in DOMAIN p.history => Current(p) \in States(p)
    BY <1>2 DEF Current
  <1>6. ~HasRoot(p) => Current(p) = Blank BY DEF Current
  <1> QED BY <1>2, <1>3, <1>4, <1>5, <1>6, BlankFacts

\* A page with one state shows it.
LEMMA OneStatePage ==
    ASSUME NEW p \in InkPages, NEW root \in Roots, p.history = <<root>>, p.cursor = 1
    PROVE  /\ States(p) = {root} /\ Places(p) = Range(root)
           /\ HasRoot(p) /\ p.cursor \in DOMAIN p.history /\ Current(p) = root
  <1>1. DOMAIN p.history = {1} /\ p.history[1] = root /\ p.history # <<>> OBVIOUS
  <1>2. States(p) = {root} BY <1>1 DEF States, Range
  <1>3. Places(p) = Range(root) BY <1>2 DEF Places
  <1> QED BY <1>1, <1>2, <1>3 DEF HasRoot, Current

\* The same history and the same place in it.
SameDrawing(p, q) ==
    /\ q.history = p.history /\ q.cursor = p.cursor

\* Two pages with the same drawing have the same states.
LEMMA SameDrawingFacts ==
    ASSUME NEW p, NEW q, SameDrawing(p, q)
    PROVE  /\ States(q) = States(p) /\ Places(q) = Places(p) /\ Current(q) = Current(p)
           /\ HasRoot(q) = HasRoot(p)
  BY DEF SameDrawing, States, Places, Current, HasRoot

\* Adoption exchanges the history and the base, and nothing else.
LEMMA TakenFacts ==
    ASSUME NEW p \in InkPages, NEW h \in Ids, versions \in Seq(Versions),
           Len(versions) <= MaxVersions
    PROVE  /\ Taken(p, h) \in InkPages
           /\ Taken(p, h).history = <<versions[h].root>> /\ Taken(p, h).cursor = 1
           /\ Taken(p, h).base = h /\ Taken(p, h).dirty = p.dirty
           /\ Taken(p, h).editing = p.editing /\ Taken(p, h).requested = p.requested
  <1>1. h \in 0 .. MaxVersions BY InkAssumption DEF Ids
  <1>2. versions[h] \in Versions BY DEF Ids
  <1>3. versions[h].root \in Roots BY <1>2 DEF Versions
  <1> DEFINE root == versions[h].root
  <1>4. <<root>> \in Seq(Roots) BY <1>3
  <1> HIDE DEF root
  <1>5. Taken(p, h) = [p EXCEPT !.history = <<root>>, !.cursor = 1, !.base = h] BY DEF Taken, root
  <1>6. /\ Taken(p, h) \in InkPages
        /\ Taken(p, h).history = <<root>> /\ Taken(p, h).cursor = 1
        /\ Taken(p, h).base = h /\ Taken(p, h).dirty = p.dirty
        /\ Taken(p, h).editing = p.editing /\ Taken(p, h).requested = p.requested
    <2>1. PICK H \in Seq(Roots), c \in Nat, b1 \in BOOLEAN, b2 \in BOOLEAN, b3 \in BOOLEAN,
               v \in 0 .. MaxVersions :
            p = [history |-> H, cursor |-> c, dirty |-> b1, requested |-> b2,
                 editing |-> b3, base |-> v]
      BY DEF InkPages
    <2>2. Taken(p, h) = [history |-> <<root>>, cursor |-> 1, dirty |-> b1, requested |-> b2,
                         editing |-> b3, base |-> h]
      BY <1>5, <2>1
    <2>3. PICK one : one = <<root>> OBVIOUS
    <2>4. one \in Seq(Roots) BY <1>4, <2>3
    <2>5. Taken(p, h) = [history |-> one, cursor |-> 1, dirty |-> b1, requested |-> b2,
                         editing |-> b3, base |-> h]
      BY <2>2, <2>3
    <2>6. Taken(p, h) \in InkPages BY <1>1, <2>4, <2>5 DEF InkPages
    <2> QED BY <2>1, <2>2, <2>6
  <1> QED BY <1>6 DEF root

\* Versions are numbered from 1, and there are finitely many.
LEMMA IdsAreFinite ==
    ASSUME versions \in Seq(Versions)
    PROVE  /\ Ids = 1 .. Len(versions) /\ Len(versions) \in Nat
           /\ IsFiniteSet(Ids)
           /\ \A K \in SUBSET Ids : IsFiniteSet(K) /\ IsFiniteSet(Heads(K))
           /\ \A v \in Ids : v \in Nat \ {0} /\ versions[v] \in Versions /\ versions[v].root \in Roots
  <1>1. Ids = 1 .. Len(versions) /\ Len(versions) \in Nat BY DEF Ids
  <1>2. IsFiniteSet(Ids) BY <1>1, FS_Interval
  <1>3. \A K \in SUBSET Ids : IsFiniteSet(K) /\ IsFiniteSet(Heads(K))
    <2> TAKE K \in SUBSET Ids
    <2>1. Heads(K) \in SUBSET Ids BY DEF Heads
    <2> QED BY <1>2, <2>1, FS_Subset
  <1>4. \A v \in Ids : v \in Nat \ {0} /\ versions[v] \in Versions BY <1>1
  <1>5. \A v \in Ids : versions[v].root \in Roots BY <1>4 DEF Versions
  <1> QED BY <1>1, <1>2, <1>3, <1>4, <1>5

\* What becomes of a page when versions arrive: it stays, or becomes the only head.
AdoptedOk(p, K, R, q) ==
    \/ q = p
    \/ \E h \in K : /\ Heads(K) = {h} /\ ~p.dirty /\ ~p.editing /\ p.base # h
                    /\ versions[h].root \in R /\ q = Taken(p, h)

\* adopt_single_head keeps a page or makes it the only head, for the reasons it names.
LEMMA AdoptedCases ==
    ASSUME NEW p, NEW K \in SUBSET Ids, NEW R, versions \in Seq(Versions)
    PROVE  AdoptedOk(p, K, R, Adopted(p, K, R))
  <1>1. CASE Cardinality(Heads(K)) # 1 BY <1>1 DEF Adopted, AdoptedOk
  <1>2. CASE Cardinality(Heads(K)) = 1
    <2>1. PICK h : Heads(K) = {h} BY <1>2, IdsAreFinite, FS_Singleton
    <2>2. h \in K BY <2>1 DEF Heads
    <2>3. (CHOOSE v \in Heads(K) : TRUE) = h BY <2>1
    <2> QED BY <2>1, <2>2, <2>3 DEF Adopted, Taken, AdoptedOk
  <1> QED BY <1>1, <1>2

\* A page that may follow the only head does.
LEMMA AdoptedFollows ==
    ASSUME NEW p \in InkPages, NEW K \in SUBSET Ids, NEW R, versions \in Seq(Versions), NEW h,
           Heads(K) = {h}, ~p.dirty, ~p.editing, versions[h].root \in R
    PROVE  Adopted(p, K, R).base = h
  <1>1. Cardinality(Heads(K)) = 1 BY FS_Singleton
  <1>2. (CHOOSE v \in Heads(K) : TRUE) = h OBVIOUS
  <1>3. CASE p.base = h BY <1>1, <1>2, <1>3 DEF Adopted
  <1>4. CASE p.base # h
    <2>1. Adopted(p, K, R) = [p EXCEPT !.history = <<versions[h].root>>, !.cursor = 1, !.base = h]
      BY <1>1, <1>2, <1>4 DEF Adopted
    <2> QED BY <2>1 DEF InkPages
  <1> QED BY <1>3, <1>4

\* A save keeps the strokes it shows where they are and adds the new ones.
LEMMA BuiltFacts ==
    ASSUME NEW old \in Roots, NEW shown \in SUBSET Strokes
    PROVE  /\ Built(old, shown) \in Roots
           /\ DOMAIN Built(old, shown) = shown
           /\ \A s \in shown : Built(old, shown)[s] = IF s \in DOMAIN old THEN old[s] ELSE s
           /\ Range(Built(old, shown)) \subseteq Range(old) \union (shown \ DOMAIN old)
  <1>1. /\ DOMAIN Built(old, shown) = shown
        /\ \A s \in shown : Built(old, shown)[s] = IF s \in DOMAIN old THEN old[s] ELSE s
        /\ Built(old, shown) = [s \in shown |-> Built(old, shown)[s]]
    BY DEF Built
  <1>2. \A s \in shown : s \in DOMAIN old => old[s] \in Range(old)
    BY RootFacts
  <1>3. \A s \in shown : Built(old, shown)[s] \in Range(old) \union (shown \ DOMAIN old)
    BY <1>1, <1>2
  <1>4. Range(Built(old, shown)) \subseteq Range(old) \union (shown \ DOMAIN old)
    BY <1>1, <1>3 DEF Range
  <1>5. Range(old) \subseteq Strokes \union Packs BY RootFacts
  <1>6. \A s \in shown : Built(old, shown)[s] \in Strokes \union Packs BY <1>3, <1>5
  <1>7. Built(old, shown) \in [shown -> Strokes \union Packs] BY <1>1, <1>6
  <1>8. Built(old, shown) \in Roots BY <1>7, RootIntro
  <1> QED BY <1>1, <1>4, <1>8

\* The history after a save ends in the new root and holds no root but old ones.
LEMMA PushedFacts ==
    ASSUME NEW p \in InkPages, NEW root \in Roots,
           HasRoot(p) => p.cursor \in DOMAIN p.history
    PROVE  /\ Pushed(p, root) \in Seq(Roots)
           /\ Pushed(p, root) # <<>>
           /\ Len(Pushed(p, root)) \in DOMAIN Pushed(p, root)
           /\ Pushed(p, root)[Len(Pushed(p, root))] = root
           /\ Range(Pushed(p, root)) \subseteq States(p) \union {Blank, root}
  <1> DEFINE past == IF HasRoot(p) THEN SubSeq(p.history, 1, p.cursor) ELSE <<Blank>>
             drop == IF Len(past) > HistoryDepth THEN Len(past) - HistoryDepth ELSE 0
             kept == SubSeq(past, drop + 1, Len(past))
  <1>1. p.history \in Seq(Roots) BY DEF InkPages
  <1>2. past \in Seq(Roots) /\ \A i \in DOMAIN past : past[i] \in States(p) \union {Blank}
    <2>1. CASE HasRoot(p)
      <3>1. p.cursor \in 1 .. Len(p.history) BY <1>1, <2>1
      <3>2. SubSeq(p.history, 1, p.cursor) \in Seq(Roots) /\ Len(SubSeq(p.history, 1, p.cursor)) = p.cursor
        BY <1>1, <3>1
      <3>3. \A i \in 1 .. p.cursor : SubSeq(p.history, 1, p.cursor)[i] = p.history[i]
        BY <1>1, <3>1
      <3>4. \A i \in 1 .. p.cursor : p.history[i] \in States(p)
        BY <1>1, <3>1 DEF States, Range
      <3> QED BY <2>1, <3>2, <3>3, <3>4
    <2>2. CASE ~HasRoot(p) BY <2>2, BlankFacts
    <2> QED BY <2>1, <2>2
  <1> HIDE DEF past
  <1>3. drop \in Nat /\ drop <= Len(past) /\ Len(past) \in Nat BY <1>2, InkAssumption
  <1>4. kept \in Seq(Roots) /\ \A i \in DOMAIN kept : kept[i] \in States(p) \union {Blank}
    <2> HIDE DEF drop
    <2>1. kept \in Seq(Roots) /\ Len(kept) = Len(past) - drop BY <1>2, <1>3
    <2>2. \A i \in 1 .. Len(kept) : kept[i] = past[i + drop] /\ i + drop \in DOMAIN past
      BY <1>2, <1>3, <2>1
    <2> QED BY <1>2, <2>1, <2>2
  <1>5. Pushed(p, root) = Append(kept, root) BY DEF Pushed, past
  <1> HIDE DEF drop, kept
  <1>6. /\ Append(kept, root) \in Seq(Roots) /\ Len(Append(kept, root)) = Len(kept) + 1
        /\ Append(kept, root)[Len(kept) + 1] = root /\ Len(kept) \in Nat
        /\ \A i \in 1 .. Len(kept) : Append(kept, root)[i] = kept[i]
    BY <1>4
  <1>7. \A i \in DOMAIN Append(kept, root) : Append(kept, root)[i] \in States(p) \union {Blank, root}
    BY <1>4, <1>6
  <1> QED BY <1>5, <1>6, <1>7 DEF Range

\* new is old with the planned strokes in the new chunk.
MovedOk(old, new, plan, chunk) ==
    /\ new \in Roots /\ DOMAIN new = DOMAIN old
    /\ \A s \in DOMAIN old : new[s] = IF s \in plan.at THEN chunk ELSE old[s]
    /\ Range(new) \subseteq Range(old) \union {chunk}

\* Moved does that.
LEMMA MovedFacts ==
    ASSUME NEW root \in Roots, NEW plan, NEW chunk \in Packs
    PROVE  MovedOk(root, Moved(root, plan, chunk), plan, chunk)
  <1>1. /\ DOMAIN Moved(root, plan, chunk) = DOMAIN root
        /\ \A s \in DOMAIN root :
              Moved(root, plan, chunk)[s] = IF s \in plan.at THEN chunk ELSE root[s]
        /\ Moved(root, plan, chunk) = [s \in DOMAIN root |-> Moved(root, plan, chunk)[s]]
    BY DEF Moved
  <1>2. \A s \in DOMAIN root : Moved(root, plan, chunk)[s] \in Range(root) \union {chunk}
    BY <1>1, RootFacts
  <1>3. Range(Moved(root, plan, chunk)) \subseteq Range(root) \union {chunk}
    BY <1>1, <1>2 DEF Range
  <1>4. DOMAIN root \in SUBSET Strokes /\ Range(root) \subseteq Strokes \union Packs
    BY RootFacts
  <1>5. Moved(root, plan, chunk) \in [DOMAIN root -> Strokes \union Packs]
    BY <1>1, <1>2, <1>4
  <1>6. Moved(root, plan, chunk) \in Roots BY <1>4, <1>5, RootIntro
  <1> QED BY <1>1, <1>3, <1>6 DEF MovedOk

\* Every state of the packed page is a state of the old one, moved.
PackedOk(p, q, plan, chunk) ==
    /\ q \in InkPages
    /\ q.cursor = p.cursor /\ q.dirty = p.dirty /\ q.requested = p.requested
    /\ q.editing = p.editing /\ q.base = p.base
    /\ DOMAIN q.history = DOMAIN p.history
    /\ \/ q = p
       \/ /\ ~Overtaken(p, plan)
          /\ \A i \in DOMAIN p.history : MovedOk(p.history[i], q.history[i], plan, chunk)

\* compaction::publish does that to every state, or to none.
LEMMA PackedFacts ==
    ASSUME NEW p \in InkPages, NEW plan, NEW chunk \in Packs
    PROVE  PackedOk(p, Packed(p, plan, chunk), plan, chunk)
  <1>1. CASE Overtaken(p, plan) BY <1>1 DEF Packed, PackedOk
  <1>2. CASE ~Overtaken(p, plan)
    <2> DEFINE H == [i \in DOMAIN p.history |-> Moved(p.history[i], plan, chunk)]
    <2>1. p.history \in Seq(Roots) BY DEF InkPages
    <2>2. \A i \in DOMAIN p.history : MovedOk(p.history[i], H[i], plan, chunk)
      BY <2>1, MovedFacts
    <2>3. H \in Seq(Roots) /\ DOMAIN H = DOMAIN p.history
      <3>3. DOMAIN p.history = 1 .. Len(p.history) BY <2>1
      <3>4. \A i \in 1 .. Len(p.history) : H[i] \in Roots BY <2>2, <3>3 DEF MovedOk
      <3>5. H = [i \in 1 .. Len(p.history) |-> H[i]] BY <3>3
      <3> HIDE DEF H
      <3>1. H \in [1 .. Len(p.history) -> Roots] BY <3>4, <3>5
      <3>2. Len(p.history) \in Nat BY <2>1
      <3> QED BY <3>1, <3>2, <2>1
    <2> HIDE DEF H
    <2>4. Packed(p, plan, chunk) = [p EXCEPT !.history = H] BY <1>2 DEF Packed, H
    <2>5. /\ [p EXCEPT !.history = H] \in InkPages
          /\ [p EXCEPT !.history = H].history = H
          /\ [p EXCEPT !.history = H].cursor = p.cursor
          /\ [p EXCEPT !.history = H].dirty = p.dirty
          /\ [p EXCEPT !.history = H].requested = p.requested
          /\ [p EXCEPT !.history = H].editing = p.editing
          /\ [p EXCEPT !.history = H].base = p.base
      BY <2>3 DEF InkPages
    <2> QED BY <1>2, <2>2, <2>3, <2>4, <2>5 DEF PackedOk
  <1> QED BY <1>1, <1>2

\* An editor stays current only if its page keeps its base.
LEMMA OutdatedFacts ==
    ASSUME NEW s \in Sessions, NEW p, NEW q
    PROVE  /\ Outdated(s, p, q) \in Sessions
           /\ Outdated(s, p, q).view = "open" => s.view = "open" /\ q.base = p.base
           /\ Outdated(s, p, q).sees = s.sees
           /\ Outdated(s, p, q).task = s.task /\ Outdated(s, p, q).plan = s.plan
           /\ Outdated(s, p, q).dialog = s.dialog
  BY DEF Outdated, Sessions

----------------------------------------------------------------------------
(* Packing *)

\* A packed page holds no places but the old ones and the new chunk, and the
\* same strokes; if the plan names only the device's own unpublished places, a
\* drawing that has none of them is the same afterwards.
LEMMA PackedPlaces ==
    ASSUME NEW p \in InkPages, NEW q, NEW plan, NEW chunk \in Packs, PackedOk(p, q, plan, chunk),
           HasRoot(p) => p.cursor \in DOMAIN p.history
    PROVE  /\ Places(q) \subseteq Places(p) \union (IF q = p THEN {} ELSE {chunk})
           /\ HasRoot(q) = HasRoot(p)
           /\ DOMAIN Current(q) = DOMAIN Current(p)
           /\ \A new \in States(q) : \E old \in States(p) : DOMAIN new = DOMAIN old
           /\ (\A r1, r2 \in States(p) : \A s \in DOMAIN r1 \cap DOMAIN r2 : r1[s] = r2[s])
              => \A r1, r2 \in States(q) : \A s \in DOMAIN r1 \cap DOMAIN r2 : r1[s] = r2[s]
           /\ (\A s \in DOMAIN Current(p) \cap plan.at : Current(p)[s] # plan.from[s])
              => Current(q) = Current(p)
  <1>1. CASE q = p BY <1>1
  <1>2. CASE q # p
    <2>1. ~Overtaken(p, plan) /\ \A i \in DOMAIN p.history : MovedOk(p.history[i], q.history[i], plan, chunk)
      BY <1>2 DEF PackedOk
    <2>2. DOMAIN q.history = DOMAIN p.history /\ q.cursor = p.cursor /\ q \in InkPages
      BY DEF PackedOk
    <2>3. p.history \in Seq(Roots) /\ q.history \in Seq(Roots) BY <2>2 DEF InkPages
    <2>4. HasRoot(q) = HasRoot(p)
      <3>1. Len(p.history) = Len(q.history) BY <2>2, <2>3
      <3>2. (p.history = <<>> <=> Len(p.history) = 0) /\ (q.history = <<>> <=> Len(q.history) = 0)
        BY <2>3, EmptySeq
      <3> QED BY <3>1, <3>2 DEF HasRoot
    <2>5. \A new \in States(q) : \E old \in States(p) : MovedOk(old, new, plan, chunk)
      BY <2>1, <2>2 DEF States, Range
    <2>6. Places(q) \subseteq Places(p) \union {chunk}
      <3> SUFFICES ASSUME NEW c \in Places(q) PROVE c \in Places(p) \union {chunk} OBVIOUS
      <3>1. PICK new \in States(q) : c \in Range(new) BY DEF Places
      <3>2. PICK old \in States(p) : MovedOk(old, new, plan, chunk) BY <2>5
      <3>3. c \in Range(old) \union {chunk} BY <3>1, <3>2 DEF MovedOk
      <3> QED BY <3>2, <3>3 DEF Places
    <2>7. /\ HasRoot(p) => MovedOk(Current(p), Current(q), plan, chunk)
          /\ ~HasRoot(p) => Current(q) = Current(p)
      BY <2>1, <2>2, <2>4 DEF Current
    <2>8. DOMAIN Current(q) = DOMAIN Current(p) BY <2>7 DEF MovedOk
    <2>9. ASSUME \A r1, r2 \in States(p) : \A s \in DOMAIN r1 \cap DOMAIN r2 : r1[s] = r2[s]
          PROVE  \A r1, r2 \in States(q) : \A s \in DOMAIN r1 \cap DOMAIN r2 : r1[s] = r2[s]
      <3> TAKE r1, r2 \in States(q)
      <3> TAKE s \in DOMAIN r1 \cap DOMAIN r2
      <3>1. PICK o1 \in States(p) : MovedOk(o1, r1, plan, chunk) BY <2>5
      <3>2. PICK o2 \in States(p) : MovedOk(o2, r2, plan, chunk) BY <2>5
      <3>3. s \in DOMAIN o1 \cap DOMAIN o2 /\ o1[s] = o2[s] BY <2>9, <3>1, <3>2 DEF MovedOk
      <3> QED BY <3>1, <3>2, <3>3 DEF MovedOk
    <2>10. ASSUME \A s \in DOMAIN Current(p) \cap plan.at : Current(p)[s] # plan.from[s]
           PROVE  Current(q) = Current(p)
      <3>1. CASE HasRoot(p)
        <4>1. Current(p) \in States(p) BY <3>1, StatesOfPage
        <4>2. \A s \in DOMAIN Current(p) : s \notin plan.at
          BY <2>1, <2>10, <4>1 DEF Overtaken, States
        <4>3. Current(p) \in Roots /\ Current(q) \in Roots
          BY <2>7, <3>1, <4>1, StatesOfPage DEF MovedOk
        <4>4. Current(p) = [s \in DOMAIN Current(p) |-> Current(p)[s]]
              /\ Current(q) = [s \in DOMAIN Current(q) |-> Current(q)[s]]
          BY <4>3, RootFacts
        <4>5. \A s \in DOMAIN Current(p) : Current(q)[s] = Current(p)[s]
          BY <2>7, <3>1, <4>2 DEF MovedOk
        <4> QED BY <2>8, <4>4, <4>5
      <3> QED BY <2>7, <3>1
    <2>11. \A new \in States(q) : \E old \in States(p) : DOMAIN new = DOMAIN old
      BY <2>5 DEF MovedOk
    <2> QED BY <1>2, <2>4, <2>6, <2>8, <2>9, <2>10, <2>11
  <1> QED BY <1>1, <1>2

\* What a plan made now would move is the device's own and is where the plan says.
LEMMA PlannedIsOwn ==
    ASSUME InkTyped, NEW t \in Tablets, OnePlace(t), FreshIsOwn(t)
    PROVE  LET from == SourcesOf(t, FreshSegments(t))
           IN  /\ FreshSegments(t) \subseteq Strokes
               /\ from \in Roots /\ DOMAIN from = FreshSegments(t)
               /\ \A s \in FreshSegments(t) : Own(t, from[s])
  <1> DEFINE fresh == FreshSegments(t)
             from == SourcesOf(t, fresh)
             holder(s) == CHOOSE root \in Range(page[t].history) : s \in DOMAIN root
  <1>1. page[t] \in InkPages BY DEF InkTyped
  <1>2. \A s \in fresh : \E root \in States(page[t]) : s \in DOMAIN root /\ root[s] \notin sealed[t]
    BY DEF FreshSegments, States
  <1>3. fresh \subseteq Strokes BY <1>1, <1>2, StatesOfPage, RootFacts
  <1>4. \A s \in fresh : from[s] \in Places(page[t]) \ sealed[t]
    <2> TAKE s \in fresh
    <2>1. PICK root \in States(page[t]) : s \in DOMAIN root /\ root[s] \notin sealed[t] BY <1>2
    <2>2. holder(s) \in States(page[t]) /\ s \in DOMAIN holder(s)
      <3>1. \E r \in Range(page[t].history) : s \in DOMAIN r BY <2>1 DEF States
      <3> QED BY <3>1 DEF States
    <2>3. from[s] = holder(s)[s] BY DEF SourcesOf
    <2> HIDE DEF holder, from, fresh
    <2>4. holder(s)[s] = root[s] BY <2>1, <2>2 DEF OnePlace
    <2>5. root \in Roots BY <1>1, <2>1, StatesOfPage
    <2>6. root[s] \in Range(root) BY <2>1, <2>5, RootFacts
    <2>7. root[s] \in Places(page[t]) BY <2>1, <2>6 DEF Places
    <2> QED BY <2>1, <2>3, <2>4, <2>7
  <1>5. DOMAIN from = fresh /\ from = [s \in fresh |-> from[s]] BY DEF SourcesOf
  <1> HIDE DEF holder, from, fresh
  <1>6. \A s \in fresh : from[s] \in Strokes \union Packs BY <1>1, <1>4, StatesOfPage
  <1>7. from \in [fresh -> Strokes \union Packs] BY <1>5, <1>6
  <1>8. from \in Roots BY <1>3, <1>7, RootIntro
  <1>9. \A s \in fresh : Own(t, from[s]) BY <1>4 DEF FreshIsOwn
  <1> QED BY <1>3, <1>5, <1>8, <1>9 DEF fresh, from

\* A clean page on a version has nothing a plan of its own places would move.
LEMMA CleanIsNotPlanned ==
    ASSUME InkTyped, NEW t \in Tablets, BaseIsHere(t), CleanIsBase(t), NEW plan,
           \A s \in plan.at : Own(t, plan.from[s]),
           ~page[t].dirty, page[t].base # 0
    PROVE  \A s \in DOMAIN Current(page[t]) \cap plan.at : Current(page[t])[s] # plan.from[s]
  <1>1. page[t].base \in Ids /\ Current(page[t]) = versions[page[t].base].root
    BY DEF BaseIsHere, CleanIsBase
  <1>2. Current(page[t]) \in Roots BY <1>1, IdsAreFinite DEF InkTyped
  <1>3. Range(Current(page[t])) \subseteq VersionPlaces BY <1>1 DEF VersionPlaces
  <1>4. \A s \in DOMAIN Current(page[t]) : Current(page[t])[s] \in VersionPlaces
    BY <1>2, <1>3, RootFacts
  <1> QED BY <1>4 DEF Own

\* Whatever the compaction before a publication leaves was packed by such a plan.
LEMMA AfterCompactionOk ==
    ASSUME InkTyped, NEW t \in Tablets, OnePlace(t), FreshIsOwn(t), NEW q \in AfterCompaction(t)
    PROVE  \E plan : /\ PackedOk(page[t], q, plan, <<t, FreshSegments(t)>>)
                     /\ \A s \in plan.at : Own(t, plan.from[s])
                     /\ <<t, FreshSegments(t)>> \in Packs
  <1> DEFINE from == SourcesOf(t, FreshSegments(t))
             plan == [at |-> FreshSegments(t), from |-> from]
  <1>1. page[t] \in InkPages BY DEF InkTyped
  <1>2. <<t, FreshSegments(t)>> \in Packs BY PlannedIsOwn DEF Packs
  <1>3. \A s \in plan.at : Own(t, plan.from[s]) BY PlannedIsOwn
  <1>4. q = page[t] \/ q = Packed(page[t], plan, <<t, FreshSegments(t)>>)
    BY DEF AfterCompaction
  <1> HIDE DEF plan
  <1>5. q = page[t] => PackedOk(page[t], q, plan, <<t, FreshSegments(t)>>)
    BY <1>1 DEF PackedOk
  <1>6. PackedOk(page[t], q, plan, <<t, FreshSegments(t)>>) BY <1>1, <1>2, <1>4, <1>5, PackedFacts
  <1> QED BY <1>2, <1>3, <1>6

----------------------------------------------------------------------------
(* What every step has in common: it concerns one device, versions and the  *)
(* ghosts only grow, and its places come from the device itself, from        *)
(* versions or from a stroke that is new.                                    *)

Alone(t) ==
    /\ \A u \in Tablets \ {t} :
        /\ page'[u] = page[u] /\ session'[u] = session[u] /\ known'[u] = known[u]
        /\ graphs'[u] = graphs[u] /\ sealed'[u] = sealed[u]
    /\ \A v \in Ids : v \in Ids' /\ versions'[v] = versions[v]
    /\ drawn \subseteq drawn' /\ discarded \subseteq discarded' /\ torn \subseteq torn'
    /\ VersionPlaces' \subseteq VersionPlaces \union Places(page[t]) \union Packs
    /\ Places(page'[t]) \subseteq
           Places(page[t]) \union VersionPlaces \union (drawn' \ drawn) \union Packs

\* Published chunks hold strokes that were drawn.
LEMMA VersionPlacesAreOld ==
    ASSUME InkTyped, VersionsGrow
    PROVE  VersionPlaces \subseteq drawn \union Packs
  BY DEF VersionPlaces, VersionsGrow

\* Without a new version there are no new published chunks.
LEMMA VersionPlacesStay ==
    ASSUME UNCHANGED versions
    PROVE  VersionPlaces' = VersionPlaces /\ Ids' = Ids
  BY DEF VersionPlaces, Ids

\* No step of another device makes a device's own chunk known.
LEMMA OwnStays ==
    ASSUME InkTyped, InkTyped', VersionsGrow, NEW t \in Tablets, Alone(t),
           NEW u \in Tablets \ {t}, NEW c, Own(u, c)
    PROVE  Own(u, c)'
  <1>1. c \in drawn /\ c \notin VersionPlaces /\ c \notin Places(page[t]) BY DEF Own
  <1>2. c \in Strokes BY <1>1 DEF InkTyped
  <1>3. c \notin Packs BY <1>2, InkAssumption DEF Packs
  <1>4. c \notin VersionPlaces' BY <1>1, <1>3 DEF Alone
  <1>5. c \notin Places(page'[t]) BY <1>1, <1>3 DEF Alone
  <1>6. \A w \in Tablets \ {u} : c \notin Places(page'[w])
    BY <1>5 DEF Own, Alone
  <1> QED BY <1>1, <1>4, <1>6 DEF Own, Alone

\* A step of one device keeps what holds on the others.
LEMMA OthersKeep ==
    ASSUME InkTyped, InkTyped', VersionsGrow, NEW t \in Tablets, Alone(t),
           NEW u \in Tablets \ {t}, TabletOk(u)
    PROVE  TabletOk(u)'
  <1>1. /\ page'[u] = page[u] /\ session'[u] = session[u]
        /\ graphs'[u] = graphs[u] /\ sealed'[u] = sealed[u]
    BY DEF Alone
  <1>2. PointsInside(u)' /\ OnePlace(u)' /\ SeesCurrent(u)' /\ GraphsAreSealed(u)'
    BY <1>1 DEF TabletOk, PointsInside, OnePlace, SeesCurrent, GraphsAreSealed
  <1>3. page[u].base # 0 => /\ page[u].base \in Ids /\ page[u].base \in Ids'
                            /\ versions'[page[u].base] = versions[page[u].base]
    BY DEF TabletOk, BaseIsHere, Alone
  <1>4. BaseIsHere(u)' /\ CleanIsBase(u)'
    BY <1>1, <1>3 DEF TabletOk, BaseIsHere, CleanIsBase
  <1>5. FollowsBase(u)'
    BY <1>1, <1>3 DEF TabletOk, FollowsBase, Alone
  <1>6. FreshIsOwn(u)' BY <1>1, OwnStays DEF TabletOk, FreshIsOwn
  <1>7. PlanIsOwn(u)' BY <1>1, OwnStays DEF TabletOk, PlanIsOwn
  <1>8. DrawnBefore(u)' BY <1>1 DEF TabletOk, DrawnBefore, Alone
  <1> QED BY <1>2, <1>4, <1>5, <1>6, <1>7, <1>8 DEF TabletOk

\* A step of one device keeps the pages of others current.
LEMMA OthersStayQuiet ==
    ASSUME InkTyped, NEW t \in Tablets, Alone(t), NEW u \in Tablets \ {t}, Quiet(u)
    PROVE  Quiet(u)'
  <1>1. known[u] \subseteq Ids BY DEF InkTyped
  <1>2. /\ page'[u] = page[u] /\ session'[u] = session[u]
        /\ graphs'[u] = graphs[u] /\ known'[u] = known[u]
        /\ \A v \in known[u] : versions'[v] = versions[v]
    BY <1>1 DEF Alone
  <1>3. Heads(known[u])' = Heads(known[u]) BY <1>2 DEF Heads
  <1>4. \A v \in Heads(known[u]) : Available(u, v)' = Available(u, v)
    BY <1>2 DEF Available, Heads
  <1> QED BY <1>2, <1>3, <1>4 DEF Quiet

\* What the drawings of t must show so that no stroke is lost by its step.
LEMMA SomewhereKept ==
    ASSUME InkTyped, InkTyped', StillSomewhere, NEW t \in Tablets, Alone(t), notes \subseteq notes',
           \A s \in drawn' \ discarded' :
               s \notin drawn \/ (page[t].dirty /\ s \in DOMAIN Current(page[t])) =>
                   \/ \E v \in Ids' : s \in DOMAIN versions'[v].root
                   \/ page'[t].dirty /\ s \in DOMAIN Current(page'[t])
    PROVE  StillSomewhere'
  <1> SUFFICES ASSUME NEW s \in drawn' \ discarded'
               PROVE  \/ \E v \in Ids' : s \in DOMAIN versions'[v].root
                      \/ \E root \in notes' : s \in DOMAIN root
                      \/ \E u \in Tablets : page'[u].dirty /\ s \in DOMAIN Current(page'[u])
    BY DEF StillSomewhere, Current, HasRoot
  <1>1. CASE s \notin drawn BY <1>1
  <1>2. CASE s \in drawn
    <2>1. s \in drawn \ discarded BY <1>2 DEF Alone
    <2>2. CASE \E v \in Ids : s \in DOMAIN versions[v].root BY <2>2 DEF Alone
    <2>3. CASE \E root \in notes : s \in DOMAIN root BY <2>3
    <2>4. CASE \E u \in Tablets : page[u].dirty /\ s \in DOMAIN Current(page[u])
      <3>1. PICK u \in Tablets : page[u].dirty /\ s \in DOMAIN Current(page[u]) BY <2>4
      <3>2. CASE u = t BY <3>1, <3>2
      <3>3. CASE u # t
        <4>1. page'[u] = page[u] BY <3>3 DEF Alone
        <4> QED BY <3>1, <4>1
      <3> QED BY <3>2, <3>3
    <2> QED BY <2>1, <2>2, <2>3, <2>4 DEF StillSomewhere
  <1> QED BY <1>1, <1>2

\* Versions and notes that stay the same keep offering the same strokes.
LEMMA OfferedStays ==
    ASSUME InkTyped, StillOffered, UNCHANGED <<versions, notes>>, discarded \subseteq discarded'
    PROVE  StillOffered'
  BY DEF StillOffered, Ids, Heads

\* Versions that stay the same stay in order.
LEMMA GrowStays ==
    ASSUME VersionsGrow, UNCHANGED versions, drawn \subseteq drawn'
    PROVE  VersionsGrow'
  BY DEF VersionsGrow, Ids

\* The drawing of t stays as it is.
LEMMA KeptTablet ==
    ASSUME InkTyped, InkTyped', VersionsGrow, NEW t \in Tablets, Alone(t), TabletOk(t),
           UNCHANGED <<versions, drawn>>,
           SameDrawing(page[t], page'[t]),
           page'[t].base = page[t].base, page'[t].dirty = page[t].dirty,
           graphs[t] \subseteq graphs'[t], sealed[t] \subseteq sealed'[t],
           GraphsAreSealed(t)',
           session'[t].view = "open" => session'[t].sees = DOMAIN Current(page[t]),
           session'[t].task = "packing" =>
               \A s \in session'[t].plan.at : Own(t, session'[t].plan.from[s])
    PROVE  TabletOk(t)'
  <1>1. /\ States(page'[t]) = States(page[t]) /\ Places(page'[t]) = Places(page[t])
        /\ Current(page'[t]) = Current(page[t]) /\ HasRoot(page'[t]) = HasRoot(page[t])
        /\ page'[t].history = page[t].history /\ page'[t].cursor = page[t].cursor
    BY SameDrawingFacts DEF SameDrawing
  <1>2. Ids' = Ids /\ VersionPlaces' = VersionPlaces /\ versions' = versions BY VersionPlacesStay
  <1>3. PointsInside(t)' /\ OnePlace(t)' /\ SeesCurrent(t)'
    BY <1>1 DEF TabletOk, PointsInside, OnePlace, SeesCurrent
  <1>4. BaseIsHere(t)' /\ CleanIsBase(t)'
    BY <1>1, <1>2 DEF TabletOk, BaseIsHere, CleanIsBase
  <1>5. FollowsBase(t)' BY <1>1, <1>2 DEF TabletOk, FollowsBase, Alone
  <1>6. \A c : Own(t, c) => Own(t, c)'
    BY <1>2 DEF Own, Alone
  <1>7. FreshIsOwn(t)' BY <1>1, <1>6 DEF TabletOk, FreshIsOwn
  <1>8. PlanIsOwn(t)' BY <1>6 DEF PlanIsOwn
  <1>9. DrawnBefore(t)' BY <1>1 DEF TabletOk, DrawnBefore
  <1> QED BY <1>3, <1>4, <1>5, <1>7, <1>8, <1>9 DEF TabletOk

\* The drawing of t becomes a version that is on the device.
LEMMA TakenTablet ==
    ASSUME InkTyped, InkTyped', VersionsGrow, NEW t \in Tablets, Alone(t), TabletOk(t),
           NEW h \in Ids', VersionsGrow', VersionPlaces' \subseteq VersionPlaces,
           page'[t].history = <<versions'[h].root>>, page'[t].cursor = 1,
           page'[t].base = h, versions'[h].root \in graphs'[t],
           GraphsAreSealed(t)',
           session'[t].view # "open",
           session'[t].task = "packing" =>
               session[t].task = "packing" /\ session'[t].plan = session[t].plan
    PROVE  TabletOk(t)'
  <1> DEFINE root == versions'[h].root
  <1>1. page'[t] \in InkPages BY DEF InkTyped
  <1>2. /\ root \in Roots
        /\ Range(root) \subseteq VersionPlaces'
        /\ DOMAIN root \subseteq drawn' /\ Range(root) \subseteq drawn' \union Packs
    <2>1. versions'[h] \in Versions BY DEF InkTyped, Ids
    <2>2. root \in Roots BY <2>1 DEF Versions
    <2>3. Range(root) \subseteq VersionPlaces' BY DEF VersionPlaces
    <2> QED BY <2>2, <2>3 DEF VersionsGrow
  <1>3. /\ States(page'[t]) = {root} /\ Places(page'[t]) = Range(root)
        /\ HasRoot(page'[t]) /\ page'[t].cursor \in DOMAIN page'[t].history
        /\ Current(page'[t]) = root
    BY <1>1, <1>2, OneStatePage
  <1>4. Range(root) \subseteq sealed'[t] BY DEF GraphsAreSealed
  <1>5. h # 0 BY DEF InkTyped, Ids
  <1> HIDE DEF root
  <1>6. PointsInside(t)' /\ OnePlace(t)' /\ SeesCurrent(t)'
    BY <1>3 DEF PointsInside, OnePlace, SeesCurrent
  <1>7. BaseIsHere(t)' /\ CleanIsBase(t)' /\ FollowsBase(t)'
    BY <1>3 DEF BaseIsHere, CleanIsBase, FollowsBase, root
  <1>8. FreshIsOwn(t)' BY <1>3, <1>4 DEF FreshIsOwn
  <1>9. \A c : Own(t, c) => Own(t, c)' BY DEF Own, Alone
  <1>10. PlanIsOwn(t)' BY <1>9 DEF TabletOk, PlanIsOwn
  <1>11. DrawnBefore(t)' BY <1>2, <1>3 DEF DrawnBefore
  <1> QED BY <1>6, <1>7, <1>8, <1>10, <1>11 DEF TabletOk

----------------------------------------------------------------------------
(* The steps that keep a drawing, and the ones that may exchange it for a    *)
(* version.                                                                   *)

\* Nothing but t's own state changes.
OthersSame(t) ==
    \A u \in Tablets \ {t} :
        /\ page'[u] = page[u] /\ session'[u] = session[u] /\ known'[u] = known[u]
        /\ graphs'[u] = graphs[u] /\ sealed'[u] = sealed[u]

\* What is to be shown of a step of t.
Progress(t) ==
    /\ Alone(t) /\ TabletOk(t)' /\ (t \notin torn' => Quiet(t)')
    /\ VersionsGrow' /\ StillOffered' /\ StillSomewhere'

\* The rest of the invariant follows from what every step has in common.
LEMMA ProgressIsEnough ==
    ASSUME InkInv, InkTyped', NEW t \in Tablets, Progress(t)
    PROVE  InkInv'
  <1>1. \A u \in Tablets : TabletOk(u)'
    <2> TAKE u \in Tablets
    <2>1. CASE u = t BY <2>1 DEF Progress
    <2>2. CASE u # t BY <2>2, OthersKeep DEF Progress, InkInv
    <2> QED BY <2>1, <2>2
  <1>2. \A u \in Tablets \ torn' : Quiet(u)'
    <2> TAKE u \in Tablets \ torn'
    <2>1. CASE u = t BY <2>1 DEF Progress
    <2>2. CASE u # t
      <3>1. u \notin torn BY DEF Progress, Alone
      <3>2. Quiet(u) BY <3>1 DEF InkInv, QuietPageIsCurrent, Quiet
      <3> QED BY <2>2, <3>2, OthersStayQuiet DEF Progress, InkInv
    <2> QED BY <2>1, <2>2
  <1>3. QuietPageIsCurrent' BY <1>2 DEF QuietPageIsCurrent, Quiet
  <1> QED BY <1>1, <1>3 DEF Progress, InkInv

\* A step that keeps the drawing of t keeps the invariant.
LEMMA KeptStep ==
    ASSUME InkInv, InkTyped', NEW t \in Tablets, OthersSame(t),
           UNCHANGED <<versions, notes, known, graphs, sealed, drawn, discarded>>,
           torn \subseteq torn',
           SameDrawing(page[t], page'[t]),
           page'[t].base = page[t].base, page'[t].dirty = page[t].dirty,
           session'[t].view = "open" => session'[t].sees = DOMAIN Current(page[t]),
           session'[t].task = "packing" =>
               \A s \in session'[t].plan.at : Own(t, session'[t].plan.from[s]),
           t \notin torn' => /\ page[t].editing => page'[t].editing
                             /\ session[t].task = "closing" => session'[t].task = "closing"
    PROVE  InkInv'
  <1>1. Ids' = Ids /\ VersionPlaces' = VersionPlaces BY VersionPlacesStay
  <1>2. Places(page'[t]) = Places(page[t]) /\ Current(page'[t]) = Current(page[t])
    BY SameDrawingFacts
  <1>3. Alone(t) BY <1>1, <1>2 DEF Alone, OthersSame
  <1>4. GraphsAreSealed(t)' BY DEF InkInv, TabletOk, GraphsAreSealed
  <1>5. TabletOk(t)' BY <1>3, <1>4, KeptTablet DEF InkInv
  <1>6. VersionsGrow' /\ StillOffered' BY GrowStays, OfferedStays DEF InkInv
  <1>7. StillSomewhere'
    BY <1>2, <1>3, SomewhereKept DEF InkInv
  <1>8. ASSUME t \notin torn' PROVE Quiet(t)'
    <2>1. t \notin torn BY <1>8
    <2>2. Quiet(t) BY <2>1 DEF InkInv, QuietPageIsCurrent, Quiet
    <2>3. Heads(known[t])' = Heads(known[t]) BY DEF Heads
    <2>4. \A v : Available(t, v)' = Available(t, v) BY DEF Available
    <2>5. page'[t].editing \in BOOLEAN /\ page[t].editing \in BOOLEAN
      BY DEF InkInv, InkTyped, InkPages
    <2> QED BY <1>8, <2>2, <2>3, <2>4, <2>5 DEF Quiet
  <1> QED BY <1>3, <1>5, <1>6, <1>7, <1>8, ProgressIsEnough DEF Progress

\* A step after which t may adopt the only head keeps the invariant.
LEMMA ArrivalStep ==
    ASSUME InkInv, InkTyped', NEW t \in Tablets, OthersSame(t),
           UNCHANGED <<versions, notes, drawn, discarded>>, torn \subseteq torn',
           NEW p \in InkPages, SameDrawing(page[t], p), p.base = page[t].base,
           p.dirty = page[t].dirty,
           page'[t] = Adopted(p, known'[t], graphs'[t]),
           graphs[t] \subseteq graphs'[t], sealed[t] \subseteq sealed'[t], GraphsAreSealed(t)',
           session'[t].view = "open" =>
               /\ session[t].view = "open" /\ page'[t].base = page[t].base
               /\ session'[t].sees = session[t].sees,
           session'[t].task = "packing" =>
               session[t].task = "packing" /\ session'[t].plan = session[t].plan
    PROVE  InkInv'
  <1>k. PICK K : K = known'[t] OBVIOUS
  <1>g. PICK G : G = graphs'[t] OBVIOUS
  <1>1. Ids' = Ids /\ VersionPlaces' = VersionPlaces BY VersionPlacesStay
  <1>2. K \in SUBSET Ids /\ versions \in Seq(Versions) /\ Len(versions) <= MaxVersions
    BY <1>1, <1>k DEF InkInv, InkTyped
  <1>3. Places(p) = Places(page[t]) /\ Current(p) = Current(page[t])
    BY SameDrawingFacts
  <1>4. VersionsGrow' /\ StillOffered' BY GrowStays, OfferedStays DEF InkInv
  <1>5. Alone(t) /\ TabletOk(t)' /\ StillSomewhere'
    <2>1. CASE page'[t] = p
      <3>1. Alone(t) BY <1>1, <1>3, <2>1 DEF Alone, OthersSame
      <3>2. session'[t].view = "open" => session'[t].sees = DOMAIN Current(page[t])
        BY DEF InkInv, TabletOk, SeesCurrent
      <3>3. session'[t].task = "packing" =>
               \A s \in session'[t].plan.at : Own(t, session'[t].plan.from[s])
        BY DEF InkInv, TabletOk, PlanIsOwn
      <3>4. TabletOk(t)'
        BY <2>1, <3>1, <3>2, <3>3, KeptTablet DEF InkInv
      <3>5. StillSomewhere' BY <1>3, <2>1, <3>1, SomewhereKept DEF InkInv
      <3> QED BY <3>1, <3>4, <3>5
    <2>2. ASSUME NEW h \in known'[t], ~p.dirty, p.base # h, versions[h].root \in graphs'[t],
                 page'[t] = Taken(p, h)
          PROVE  Alone(t) /\ TabletOk(t)' /\ StillSomewhere'
      <3>1. h \in Ids BY <1>2, <1>k, <2>2
      <3>2. /\ page'[t].history = <<versions[h].root>> /\ page'[t].cursor = 1
            /\ page'[t].base = h
        BY <1>2, <2>2, <3>1, TakenFacts
      <3>3. versions[h].root \in Roots BY <1>2, <3>1, IdsAreFinite
      <3>4. page'[t] \in InkPages BY DEF InkTyped
      <3>5. Places(page'[t]) = Range(versions[h].root) BY <3>2, <3>3, <3>4, OneStatePage
      <3>6. Places(page'[t]) \subseteq VersionPlaces BY <3>1, <3>5 DEF VersionPlaces
      <3>7. Alone(t) BY <1>1, <3>6 DEF Alone, OthersSame
      <3>8. session'[t].view # "open" BY <2>2, <3>2
      <3>9. TabletOk(t)'
        BY <1>1, <1>4, <2>2, <3>1, <3>2, <3>7, <3>8, TakenTablet DEF InkInv
      <3>10. StillSomewhere' BY <2>2, <3>7, SomewhereKept DEF InkInv
      <3> QED BY <3>7, <3>9, <3>10
    <2>3. page'[t] = Adopted(p, K, G) BY <1>k, <1>g
    <2>5. AdoptedOk(p, K, G, page'[t]) BY <1>2, <2>3, AdoptedCases
    <2>4. \/ page'[t] = p
          \/ \E h \in known'[t] : /\ ~p.dirty /\ p.base # h
                                  /\ versions[h].root \in graphs'[t] /\ page'[t] = Taken(p, h)
      BY <1>k, <1>g, <2>5 DEF AdoptedOk
    <2> QED BY <2>1, <2>2, <2>4
  <1>6. Quiet(t)'
    <2> SUFFICES ASSUME ~page'[t].dirty, ~page'[t].editing,
                        Cardinality(Heads(known[t])') = 1,
                        \A v \in Heads(known[t])' : Available(t, v)'
                 PROVE  page'[t].base \in Heads(known[t])'
      BY DEF Quiet
    <2>1. page'[t] = Adopted(p, K, G) BY <1>k, <1>g
    <2>2. Heads(known[t])' = Heads(K) BY <1>k DEF Heads
    <2>4. PICK h : Heads(K) = {h} BY <1>2, <2>2, IdsAreFinite, FS_Singleton
    <2>5. versions[h].root \in G BY <1>g, <2>2, <2>4 DEF Available
    <2>6. ~p.dirty /\ ~p.editing
      <3>1. CASE Adopted(p, K, G) = p BY <2>1, <3>1
      <3>2. ASSUME NEW v \in K, ~p.dirty, ~p.editing PROVE ~p.dirty /\ ~p.editing
        BY <3>2
      <3>3. AdoptedOk(p, K, G, Adopted(p, K, G)) BY <1>2, AdoptedCases
      <3> QED BY <3>1, <3>2, <3>3 DEF AdoptedOk
    <2>7. Adopted(p, K, G).base = h BY <1>2, <2>4, <2>5, <2>6, AdoptedFollows
    <2> QED BY <2>1, <2>2, <2>4, <2>7
  <1> QED BY <1>4, <1>5, <1>6, ProgressIsEnough DEF Progress

\* Types, for the steps that neither publish nor draw.
LEMMA TypedQuietly ==
    ASSUME InkTyped, UNCHANGED <<versions, notes, drawn, discarded>>,
           page' \in [Tablets -> InkPages], session' \in [Tablets -> Sessions],
           known' \in [Tablets -> SUBSET Ids],
           graphs' \in [Tablets -> SUBSET {versions[v].root : v \in Ids}],
           sealed' \in [Tablets -> SUBSET (Strokes \union Packs)],
           turns' \in 0 .. MaxTurns, torn' \subseteq Tablets
    PROVE  InkTyped'
  BY DEF InkTyped, Ids

\* The bound on turns is kept.
LEMMA TypedTurn ==
    ASSUME InkTyped, Turn PROVE turns' \in 0 .. MaxTurns
  BY InkAssumption DEF InkTyped, Turn

\* Each step in turn: open_editor.
LEMMA OpenEditorStep ==
    ASSUME InkInv, NEW t \in Tablets, OpenEditor(t) PROVE InkInv'
  <1> DEFINE q == [page[t] EXCEPT !.editing = TRUE]
             z == [session[t] EXCEPT !.view = "open", !.sees = DOMAIN Current(page[t])]
  <1>1. page[t] \in InkPages /\ session[t] \in Sessions /\ InkTyped BY DEF InkInv, InkTyped
  <1>2. DOMAIN Current(page[t]) \subseteq Strokes
    BY <1>1, StatesOfPage, RootFacts DEF InkInv, TabletOk, PointsInside
  <1>3. page' = [page EXCEPT ![t] = q] /\ session' = [session EXCEPT ![t] = z]
    BY DEF OpenEditor
  <1>4. /\ q \in InkPages /\ q.base = page[t].base /\ q.dirty = page[t].dirty /\ q.editing
        /\ SameDrawing(page[t], q)
    BY <1>1 DEF InkPages, SameDrawing
  <1>5. /\ z \in Sessions /\ z.sees = DOMAIN Current(page[t])
        /\ z.task = session[t].task /\ z.plan = session[t].plan
    BY <1>1, <1>2 DEF Sessions
  <1> HIDE DEF q, z
  <1>6. page'[t] = q /\ session'[t] = z /\ OthersSame(t)
    BY <1>3 DEF OpenEditor, OthersSame, InkInv, InkTyped
  <1>7. InkTyped'
    <2>1. page' \in [Tablets -> InkPages] /\ session' \in [Tablets -> Sessions]
      BY <1>1, <1>3, <1>4, <1>5 DEF InkTyped
    <2> QED BY <1>1, <2>1, TypedQuietly DEF OpenEditor, InkTyped
  <1>8. \A s \in session[t].plan.at : session[t].task = "packing" => Own(t, session[t].plan.from[s])
    BY DEF InkInv, TabletOk, PlanIsOwn
  <1> QED BY <1>4, <1>5, <1>6, <1>7, <1>8, KeptStep DEF OpenEditor

\* prepare_with_limits.
LEMMA StartPackingStep ==
    ASSUME InkInv, NEW t \in Tablets, StartPacking(t) PROVE InkInv'
  <1> DEFINE fresh == FreshSegments(t)
             from == SourcesOf(t, fresh)
             plan == [at |-> fresh, from |-> from]
             z == [session[t] EXCEPT !.task = "packing", !.plan = plan]
  <1>1. page[t] \in InkPages /\ session[t] \in Sessions /\ InkTyped /\ TabletOk(t)
    BY DEF InkInv, InkTyped
  <1>2. /\ fresh \subseteq Strokes /\ from \in Roots
        /\ \A s \in fresh : Own(t, from[s])
    BY <1>1, PlannedIsOwn DEF TabletOk
  <1>3. session' = [session EXCEPT ![t] = z] BY DEF StartPacking
  <1> HIDE DEF fresh, from
  <1>4. /\ z \in Sessions /\ z.view = session[t].view /\ z.sees = session[t].sees
        /\ z.plan = plan /\ z.task = "packing"
    BY <1>1, <1>2 DEF Sessions
  <1> HIDE DEF z
  <1>5. page' = page /\ session'[t] = z /\ OthersSame(t)
    BY <1>1, <1>3 DEF StartPacking, OthersSame, InkTyped
  <1>6. InkTyped'
    <2>1. session' \in [Tablets -> Sessions] BY <1>1, <1>3, <1>4 DEF InkTyped
    <2> QED BY <1>1, <2>1, TypedQuietly, TypedTurn DEF StartPacking, InkTyped
  <1>7. session[t].view = "open" => session[t].sees = DOMAIN Current(page[t])
    BY <1>1 DEF TabletOk, SeesCurrent
  <1>8. session[t].task = "idle" BY DEF StartPacking
  <1>9. \A s \in z.plan.at : Own(t, z.plan.from[s]) BY <1>2, <1>4
  <1> HIDE DEF plan
  <1>10. /\ UNCHANGED <<versions, notes, known, graphs, sealed, drawn, discarded>> /\ torn' = torn
         /\ SameDrawing(page[t], page'[t])
    BY <1>5 DEF StartPacking, SameDrawing
  <1> QED BY <1>4, <1>5, <1>6, <1>7, <1>8, <1>9, <1>10, KeptStep

\* complete.
LEMMA AskCompletionStep ==
    ASSUME InkInv, NEW t \in Tablets, AskCompletion(t) PROVE InkInv'
  <1> DEFINE q == [page[t] EXCEPT !.requested = @ \/ page[t].dirty]
             z1 == [session[t] EXCEPT !.wanted = TRUE]
             z2 == [session[t] EXCEPT !.wanted = TRUE, !.view = "closed", !.sees = {}, !.dialog = {}]
  <1>1. page[t] \in InkPages /\ session[t] \in Sessions /\ InkTyped /\ TabletOk(t)
    BY DEF InkInv, InkTyped
  <1>2. page' = [page EXCEPT ![t] = q] BY DEF AskCompletion
  <1>3. PICK z \in {z1, z2} : session' = [session EXCEPT ![t] = z]
    <2>1. CASE session' = [session EXCEPT ![t].wanted = TRUE] BY <2>1
    <2>2. CASE session' = [session EXCEPT ![t].wanted = TRUE, ![t].view = "closed",
                        ![t].sees = {}, ![t].dialog = {}] BY <2>2
    <2> QED BY <2>1, <2>2 DEF AskCompletion
  <1>4. /\ q \in InkPages /\ q.base = page[t].base /\ q.dirty = page[t].dirty
        /\ q.editing = page[t].editing /\ SameDrawing(page[t], q)
    BY <1>1 DEF InkPages, SameDrawing
  <1>5. /\ z \in Sessions
        /\ z.view = "open" => session[t].view = "open" /\ z.sees = session[t].sees
        /\ z.task = session[t].task /\ z.plan = session[t].plan
    <2>1. CASE z = z1 BY <1>1, <2>1 DEF Sessions
    <2>2. CASE z = z2 BY <1>1, <2>2 DEF Sessions
    <2> QED BY <2>1, <2>2
  <1> HIDE DEF q, z1, z2
  <1>6. page'[t] = q /\ session'[t] = z /\ OthersSame(t)
    BY <1>1, <1>2, <1>3 DEF AskCompletion, OthersSame, InkTyped
  <1>7. InkTyped'
    <2>1. page' \in [Tablets -> InkPages] /\ session' \in [Tablets -> Sessions]
      BY <1>1, <1>2, <1>3, <1>4, <1>5 DEF InkTyped
    <2> QED BY <1>1, <2>1, TypedQuietly DEF AskCompletion, InkTyped
  <1>8. /\ \A s \in session[t].plan.at : session[t].task = "packing" => Own(t, session[t].plan.from[s])
        /\ session[t].view = "open" => session[t].sees = DOMAIN Current(page[t])
    BY <1>1 DEF TabletOk, PlanIsOwn, SeesCurrent
  <1> QED BY <1>4, <1>5, <1>6, <1>7, <1>8, KeptStep DEF AskCompletion

\* A completion that fails.
LEMMA FailCompletionStep ==
    ASSUME InkInv, NEW t \in Tablets, FailCompletion(t) PROVE InkInv'
  <1> DEFINE z == [session[t] EXCEPT !.wanted = FALSE]
  <1>1. page[t] \in InkPages /\ session[t] \in Sessions /\ InkTyped /\ TabletOk(t)
    BY DEF InkInv, InkTyped
  <1>2. session' = [session EXCEPT ![t] = z] /\ page' = page BY DEF FailCompletion
  <1>3. /\ z \in Sessions /\ z.view = session[t].view /\ z.sees = session[t].sees
        /\ z.task = session[t].task /\ z.plan = session[t].plan
    BY <1>1 DEF Sessions
  <1> HIDE DEF z
  <1>4. session'[t] = z /\ OthersSame(t)
    BY <1>1, <1>2 DEF FailCompletion, OthersSame, InkTyped
  <1>5. InkTyped'
    <2>1. session' \in [Tablets -> Sessions] BY <1>1, <1>2, <1>3 DEF InkTyped
    <2> QED BY <1>1, <2>1, TypedQuietly, TypedTurn DEF FailCompletion, InkTyped
  <1>6. /\ \A s \in session[t].plan.at : session[t].task = "packing" => Own(t, session[t].plan.from[s])
        /\ session[t].view = "open" => session[t].sees = DOMAIN Current(page[t])
    BY <1>1 DEF TabletOk, PlanIsOwn, SeesCurrent
  <1> QED BY <1>2, <1>3, <1>4, <1>5, <1>6, KeptStep DEF FailCompletion, SameDrawing

\* close_editor fails after the publication, and the process goes on.
LEMMA FailCloseStep ==
    ASSUME InkInv, NEW t \in Tablets, FailClose(t) PROVE InkInv'
  <1>1. page[t] \in InkPages /\ session[t] \in Sessions /\ InkTyped /\ TabletOk(t)
    BY DEF InkInv, InkTyped
  <1>2. PICK again \in BOOLEAN :
            session' = [session EXCEPT ![t].task = "idle", ![t].wanted = again]
    BY DEF FailClose
  <1> DEFINE z == [session[t] EXCEPT !.task = "idle", !.wanted = again]
  <1>3. session' = [session EXCEPT ![t] = z] /\ page' = page BY <1>2 DEF FailClose
  <1>4. /\ z \in Sessions /\ z.view = session[t].view /\ z.sees = session[t].sees
        /\ z.task = "idle"
    BY <1>1 DEF Sessions
  <1> HIDE DEF z
  <1>5. session'[t] = z /\ OthersSame(t)
    BY <1>1, <1>3 DEF FailClose, OthersSame, InkTyped
  <1>6. torn \subseteq torn' /\ torn' \subseteq Tablets /\ t \in torn'
    BY <1>1 DEF FailClose, InkTyped
  <1>7. InkTyped'
    <2>1. session' \in [Tablets -> Sessions] BY <1>1, <1>3, <1>4 DEF InkTyped
    <2> QED BY <1>1, <1>6, <2>1, TypedQuietly, TypedTurn DEF FailClose, InkTyped
  <1>8. session[t].view = "open" => session[t].sees = DOMAIN Current(page[t])
    BY <1>1 DEF TabletOk, SeesCurrent
  <1> QED BY <1>3, <1>4, <1>5, <1>6, <1>7, <1>8, KeptStep DEF FailClose, SameDrawing

\* status.
LEMMA LookAtHeadsStep ==
    ASSUME InkInv, NEW t \in Tablets, LookAtHeads(t) PROVE InkInv'
  <1> DEFINE z == [session[t] EXCEPT !.dialog = Heads(known[t])]
  <1>1. page[t] \in InkPages /\ session[t] \in Sessions /\ InkTyped /\ TabletOk(t)
    BY DEF InkInv, InkTyped
  <1>2. session' = [session EXCEPT ![t] = z] /\ page' = page BY DEF LookAtHeads
  <1>3. Heads(known[t]) \subseteq 1 .. MaxVersions
    BY <1>1, InkAssumption DEF Heads, InkTyped, Ids
  <1>4. /\ z \in Sessions /\ z.view = session[t].view /\ z.sees = session[t].sees
        /\ z.task = session[t].task /\ z.plan = session[t].plan
    BY <1>1, <1>3 DEF Sessions
  <1> HIDE DEF z
  <1>5. session'[t] = z /\ OthersSame(t)
    BY <1>1, <1>2 DEF LookAtHeads, OthersSame, InkTyped
  <1>6. InkTyped'
    <2>1. session' \in [Tablets -> Sessions] BY <1>1, <1>2, <1>4 DEF InkTyped
    <2> QED BY <1>1, <2>1, TypedQuietly DEF LookAtHeads, InkTyped
  <1>7. /\ \A s \in session[t].plan.at : session[t].task = "packing" => Own(t, session[t].plan.from[s])
        /\ session[t].view = "open" => session[t].sees = DOMAIN Current(page[t])
    BY <1>1 DEF TabletOk, PlanIsOwn, SeesCurrent
  <1> QED BY <1>2, <1>4, <1>5, <1>6, <1>7, KeptStep DEF LookAtHeads, SameDrawing

\* The end of the process.
LEMMA CutStep ==
    ASSUME InkInv, NEW t \in Tablets, Cut(t) PROVE InkInv'
  <1> DEFINE q == [page[t] EXCEPT !.requested = @ \/ page[t].dirty]
             z == [view |-> "closed", sees |-> {}, dialog |-> {}, task |-> "idle",
                   plan |-> NoPlan,
                   wanted |-> page[t].dirty \/ page[t].requested \/ page[t].editing]
  <1>1. page[t] \in InkPages /\ session[t] \in Sessions /\ InkTyped /\ TabletOk(t)
    BY DEF InkInv, InkTyped
  <1>2. page' = [page EXCEPT ![t] = q] /\ session' = [session EXCEPT ![t] = z] BY DEF Cut
  <1>3. /\ q \in InkPages /\ q.base = page[t].base /\ q.dirty = page[t].dirty
        /\ q.editing = page[t].editing /\ SameDrawing(page[t], q)
    BY <1>1 DEF InkPages, SameDrawing
  <1>4. z \in Sessions /\ z.view = "closed" /\ z.task = "idle"
    <2>1. NoPlan \in [at : SUBSET Strokes, from : Roots] BY BlankFacts DEF NoPlan
    <2>2. page[t].dirty \in BOOLEAN /\ page[t].requested \in BOOLEAN /\ page[t].editing \in BOOLEAN
      BY <1>1 DEF InkPages
    <2>3. PICK b \in BOOLEAN : b = (page[t].dirty \/ page[t].requested \/ page[t].editing)
      BY <2>2
    <2>4. z = [view |-> "closed", sees |-> {}, dialog |-> {}, task |-> "idle",
               plan |-> NoPlan, wanted |-> b] BY <2>3
    <2> QED BY <2>1, <2>4 DEF Sessions
  <1> HIDE DEF q, z
  <1>5. page'[t] = q /\ session'[t] = z /\ OthersSame(t)
    BY <1>1, <1>2 DEF Cut, OthersSame, InkTyped
  <1>6. torn \subseteq torn' /\ torn' \subseteq Tablets
        /\ (t \notin torn' => session[t].task # "closing")
    BY <1>1 DEF Cut, InkTyped
  <1>7. InkTyped'
    <2>1. page' \in [Tablets -> InkPages] /\ session' \in [Tablets -> Sessions]
      BY <1>1, <1>2, <1>3, <1>4 DEF InkTyped
    <2> QED BY <1>1, <1>6, <2>1, TypedQuietly, TypedTurn DEF Cut, InkTyped
  <1> QED BY <1>3, <1>4, <1>5, <1>6, <1>7, KeptStep DEF Cut

\* A device knows versions and holds the roots of versions.
LEMMA GraphsOfVersions ==
    ASSUME InkTyped, NEW t \in Tablets
    PROVE  /\ known[t] \in SUBSET Ids
           /\ \A root \in graphs[t] : root \in Roots
  <1>1. \A root \in graphs[t] : \E v \in Ids : root = versions[v].root BY DEF InkTyped
  <1> QED BY <1>1, IdsAreFinite DEF InkTyped

\* What adoption makes is a page.
LEMMA AdoptedIsPage ==
    ASSUME InkTyped, NEW p \in InkPages, NEW K \in SUBSET Ids, NEW R
    PROVE  Adopted(p, K, R) \in InkPages
  <1>1. AdoptedOk(p, K, R, Adopted(p, K, R)) BY AdoptedCases DEF InkTyped
  <1>2. ASSUME NEW h \in K PROVE Taken(p, h) \in InkPages
    BY TakenFacts DEF InkTyped
  <1> QED BY <1>1, <1>2 DEF AdoptedOk

\* apply.
LEMMA ReceiveVersionStep ==
    ASSUME InkInv, NEW t \in Tablets, ReceiveVersion(t) PROVE InkInv'
  <1>1. page[t] \in InkPages /\ session[t] \in Sessions /\ InkTyped /\ TabletOk(t)
    BY DEF InkInv, InkTyped
  <1>2. PICK v \in Ids : /\ known' = [known EXCEPT ![t] = @ \union {v}]
                         /\ Replace(t, Adopted(page[t], known'[t], graphs[t]))
    BY DEF ReceiveVersion
  <1>3. PICK K : K = known'[t] OBVIOUS
  <1>4. PICK q : q = Adopted(page[t], K, graphs[t]) OBVIOUS
  <1>5. PICK z : z = Outdated(session[t], page[t], q) OBVIOUS
  <1>6. page' = [page EXCEPT ![t] = q] /\ session' = [session EXCEPT ![t] = z]
    BY <1>2, <1>3, <1>4, <1>5 DEF Replace
  <1>7. known' \in [Tablets -> SUBSET Ids] /\ K \in SUBSET Ids
    BY <1>1, <1>2, <1>3 DEF InkTyped
  <1>8. q \in InkPages BY <1>1, <1>4, <1>7, AdoptedIsPage
  <1>9. /\ z \in Sessions /\ z.task = session[t].task /\ z.plan = session[t].plan
        /\ z.sees = session[t].sees
        /\ z.view = "open" => session[t].view = "open" /\ q.base = page[t].base
    BY <1>1, <1>5, OutdatedFacts
  <1>10. page'[t] = q /\ session'[t] = z /\ OthersSame(t)
    BY <1>1, <1>2, <1>6 DEF ReceiveVersion, OthersSame, InkTyped
  <1>11. InkTyped'
    <2>1. page' \in [Tablets -> InkPages] /\ session' \in [Tablets -> Sessions]
      BY <1>1, <1>6, <1>8, <1>9 DEF InkTyped
    <2> QED BY <1>1, <1>7, <2>1, TypedQuietly DEF ReceiveVersion, InkTyped
  <1>12. GraphsAreSealed(t)' /\ graphs'[t] = graphs[t] /\ sealed'[t] = sealed[t]
    BY <1>1 DEF ReceiveVersion, TabletOk, GraphsAreSealed
  <1>13. page'[t] = Adopted(page[t], known'[t], graphs'[t]) BY <1>3, <1>4, <1>10, <1>12
  <1>14. SameDrawing(page[t], page[t]) BY DEF SameDrawing
  <1> QED BY <1>1, <1>9, <1>10, <1>11, <1>12, <1>13, <1>14, ArrivalStep DEF ReceiveVersion

\* stage.
LEMMA StageGraphStep ==
    ASSUME InkInv, NEW t \in Tablets, StageGraph(t) PROVE InkInv'
  <1>1. page[t] \in InkPages /\ session[t] \in Sessions /\ InkTyped /\ TabletOk(t)
    BY DEF InkInv, InkTyped
  <1>2. PICK v \in Ids :
            /\ versions[v].root \notin graphs[t]
            /\ graphs' = [graphs EXCEPT ![t] = @ \union {versions[v].root}]
            /\ sealed' = [sealed EXCEPT ![t] = @ \union Range(versions[v].root)]
            /\ Replace(t, IF \E w \in known[t] : versions[w].root = versions[v].root
                            THEN Adopted(page[t], known[t], graphs'[t]) ELSE page[t])
            /\ UNCHANGED <<versions, notes, known, drawn, discarded, turns, torn>>
    BY DEF StageGraph
  <1> DEFINE root == versions[v].root
             pinned == \E w \in known[t] : versions[w].root = root
  <1>3. PICK G : G = graphs'[t] OBVIOUS
  <1>4. PICK q : q = IF pinned THEN Adopted(page[t], known[t], G) ELSE page[t] OBVIOUS
  <1>5. PICK z : z = Outdated(session[t], page[t], q) OBVIOUS
  <1>6. page' = [page EXCEPT ![t] = q] /\ session' = [session EXCEPT ![t] = z]
    BY <1>2, <1>3, <1>4, <1>5 DEF Replace
  <1>7. /\ known[t] \in SUBSET Ids /\ root \in Roots /\ root \in {versions[w].root : w \in Ids}
        /\ Range(root) \subseteq Strokes \union Packs
    BY <1>1, GraphsOfVersions, IdsAreFinite, RootFacts DEF InkTyped
  <1>8. q \in InkPages BY <1>1, <1>4, <1>7, AdoptedIsPage
  <1>9. /\ z \in Sessions /\ z.task = session[t].task /\ z.plan = session[t].plan
        /\ z.sees = session[t].sees
        /\ z.view = "open" => session[t].view = "open" /\ q.base = page[t].base
    BY <1>1, <1>5, OutdatedFacts
  <1> HIDE DEF root
  <1>10. /\ page'[t] = q /\ session'[t] = z /\ OthersSame(t)
         /\ graphs'[t] = graphs[t] \union {root} /\ sealed'[t] = sealed[t] \union Range(root)
    BY <1>1, <1>2, <1>6 DEF OthersSame, InkTyped, root
  <1>11. InkTyped'
    <2>1. page' \in [Tablets -> InkPages] /\ session' \in [Tablets -> Sessions]
      BY <1>1, <1>6, <1>8, <1>9 DEF InkTyped
    <2>2. graphs' \in [Tablets -> SUBSET {versions[w].root : w \in Ids}]
      BY <1>1, <1>2, <1>7 DEF InkTyped, root
    <2>3. sealed' \in [Tablets -> SUBSET (Strokes \union Packs)]
      BY <1>1, <1>2, <1>7 DEF InkTyped, root
    <2> QED BY <1>1, <1>2, <2>1, <2>2, <2>3, TypedQuietly DEF InkTyped
  <1>12. GraphsAreSealed(t)'
    BY <1>1, <1>10 DEF TabletOk, GraphsAreSealed
  <1>13. SameDrawing(page[t], page[t]) BY DEF SameDrawing
  <1>14. CASE pinned
    <2>1. page'[t] = Adopted(page[t], known'[t], graphs'[t])
      BY <1>2, <1>3, <1>4, <1>10, <1>14
    <2> QED BY <1>1, <1>2, <1>9, <1>10, <1>11, <1>12, <1>13, <2>1, ArrivalStep
  <1>15. CASE ~pinned
    <2>1. page'[t] = page[t] BY <1>4, <1>10, <1>15
    <2>2. Ids' = Ids /\ VersionPlaces' = VersionPlaces BY <1>2, VersionPlacesStay
    <2>3. Alone(t) BY <1>2, <1>10, <2>1, <2>2 DEF Alone, OthersSame
    <2>4. /\ \A s \in session[t].plan.at : session[t].task = "packing" => Own(t, session[t].plan.from[s])
          /\ session[t].view = "open" => session[t].sees = DOMAIN Current(page[t])
      BY <1>1 DEF TabletOk, PlanIsOwn, SeesCurrent
    <2>5. TabletOk(t)'
      BY <1>1, <1>2, <1>9, <1>10, <1>11, <1>12, <1>13, <2>1, <2>3, <2>4, KeptTablet DEF InkInv
    <2>6. VersionsGrow' /\ StillOffered' BY <1>2, GrowStays, OfferedStays DEF InkInv
    <2>7. StillSomewhere' BY <1>2, <1>11, <2>1, <2>3, SomewhereKept DEF InkInv
    <2>8. ASSUME t \notin torn' PROVE Quiet(t)'
      <3>1. Quiet(t) BY <1>2, <2>8 DEF InkInv, QuietPageIsCurrent, Quiet
      <3>2. Heads(known[t])' = Heads(known[t]) BY <1>2 DEF Heads
      <3>3. \A w \in Heads(known[t]) : Available(t, w)' => Available(t, w)
        BY <1>2, <1>10, <1>15 DEF Available, Heads
      <3> QED BY <1>2, <1>9, <1>10, <2>1, <3>1, <3>2, <3>3 DEF Quiet
    <2> QED BY <1>11, <2>3, <2>5, <2>6, <2>7, <2>8, ProgressIsEnough DEF Progress
  <1> QED BY <1>14, <1>15

\* close_editor.
LEMMA CloseEditorStep ==
    ASSUME InkInv, NEW t \in Tablets, CloseEditor(t) PROVE InkInv'
  <1>1. page[t] \in InkPages /\ session[t] \in Sessions /\ InkTyped /\ TabletOk(t)
    BY DEF InkInv, InkTyped
  <1>2. PICK p : p = [page[t] EXCEPT !.editing = FALSE] OBVIOUS
  <1>3. PICK q : q = Adopted(p, known[t], graphs[t]) OBVIOUS
  <1>4. PICK o : o = Outdated(session[t], p, q) OBVIOUS
  <1>5. PICK z : z = [o EXCEPT !.task = "idle"] OBVIOUS
  <1>6. page' = [page EXCEPT ![t] = q] /\ session' = [session EXCEPT ![t] = z]
    BY <1>2, <1>3, <1>4, <1>5 DEF CloseEditor
  <1>7. p \in InkPages /\ p.base = page[t].base /\ p.dirty = page[t].dirty /\ SameDrawing(page[t], p)
    BY <1>1, <1>2 DEF InkPages, SameDrawing
  <1>8. q \in InkPages BY <1>1, <1>3, <1>7, AdoptedIsPage, GraphsOfVersions
  <1>9. /\ o \in Sessions /\ o.sees = session[t].sees
        /\ o.view = "open" => session[t].view = "open" /\ q.base = p.base
    BY <1>1, <1>4, OutdatedFacts
  <1>10. /\ z \in Sessions /\ z.sees = session[t].sees /\ z.task = "idle"
         /\ z.view = "open" => session[t].view = "open" /\ q.base = p.base
    BY <1>5, <1>9 DEF Sessions
  <1>11. page'[t] = q /\ session'[t] = z /\ OthersSame(t)
    BY <1>1, <1>6 DEF CloseEditor, OthersSame, InkTyped
  <1>12. InkTyped'
    <2>1. page' \in [Tablets -> InkPages] /\ session' \in [Tablets -> Sessions]
      BY <1>1, <1>6, <1>8, <1>10 DEF InkTyped
    <2> QED BY <1>1, <2>1, TypedQuietly DEF CloseEditor, InkTyped
  <1>13. /\ GraphsAreSealed(t)'
         /\ graphs'[t] = graphs[t] /\ sealed'[t] = sealed[t] /\ known'[t] = known[t]
    BY <1>1 DEF CloseEditor, TabletOk, GraphsAreSealed
  <1>14. page'[t] = Adopted(p, known'[t], graphs'[t]) BY <1>3, <1>11, <1>13
  <1> QED BY <1>7, <1>10, <1>11, <1>12, <1>13, <1>14, ArrivalStep DEF CloseEditor

----------------------------------------------------------------------------
(* The editor's steps *)

\* A device's own chunk stays its own when nothing is published.
LEMMA OwnStaysOwn ==
    ASSUME NEW t \in Tablets, OthersSame(t), UNCHANGED versions, drawn \subseteq drawn',
           NEW c, Own(t, c)
    PROVE  Own(t, c)'
  BY VersionPlacesStay DEF Own, OthersSame

\* The chunk of a new stroke is the device's own.
LEMMA NewStrokeIsOwn ==
    ASSUME InkInv, NEW t \in Tablets, OthersSame(t), UNCHANGED versions,
           NEW c \in Strokes \ drawn, c \in drawn'
    PROVE  Own(t, c)'
  <1>1. c \notin Packs BY InkAssumption DEF Packs
  <1>2. c \notin VersionPlaces' BY <1>1, VersionPlacesAreOld, VersionPlacesStay DEF InkInv
  <1>3. \A u \in Tablets \ {t} : c \notin Places(page'[u])
    BY <1>1 DEF InkInv, TabletOk, DrawnBefore, OthersSame
  <1> QED BY <1>2, <1>3 DEF Own

\* A save of what the editor shows: new strokes are new, missing ones discarded.
LEMMA SaveStep ==
    ASSUME InkInv, NEW t \in Tablets, session[t].view = "open", NEW shown \in SUBSET Strokes,
           Save(t, shown), UNCHANGED <<versions, notes, known, graphs, sealed, torn>>,
           shown \ session[t].sees \subseteq drawn' \ drawn, drawn' \ drawn \subseteq shown,
           shown \subseteq drawn', drawn \subseteq drawn', drawn' \subseteq Strokes,
           session[t].sees \ shown \subseteq discarded', discarded \subseteq discarded',
           discarded' \subseteq drawn', turns' \in 0 .. MaxTurns
    PROVE  InkInv'
  <1> DEFINE old == Current(page[t])
             root == Built(old, shown)
             history == Pushed(page[t], root)
             q == [page[t] EXCEPT !.history = history, !.cursor = Len(history), !.dirty = TRUE]
             z == [session[t] EXCEPT !.view = "open", !.sees = shown]
  <1>1. page[t] \in InkPages /\ session[t] \in Sessions /\ InkTyped /\ TabletOk(t) /\ VersionsGrow
    BY DEF InkInv, InkTyped
  <1>2. HasRoot(page[t]) => page[t].cursor \in DOMAIN page[t].history
    BY <1>1 DEF TabletOk, PointsInside
  <1>3. old \in Roots /\ session[t].sees = DOMAIN old
    BY <1>1, <1>2, StatesOfPage DEF TabletOk, SeesCurrent
  <1>4. page' = [page EXCEPT ![t] = q] /\ session' = [session EXCEPT ![t] = z]
    BY DEF Save
  <1> HIDE DEF old
  <1>5. /\ root \in Roots /\ DOMAIN root = shown
        /\ \A s \in shown : root[s] = IF s \in DOMAIN old THEN old[s] ELSE s
        /\ Range(root) \subseteq Range(old) \union (shown \ DOMAIN old)
    BY <1>3, BuiltFacts
  <1> HIDE DEF root
  <1>6. /\ history \in Seq(Roots) /\ history # <<>> /\ Len(history) \in DOMAIN history
        /\ history[Len(history)] = root
        /\ Range(history) \subseteq States(page[t]) \union {Blank, root}
    BY <1>1, <1>2, <1>5, PushedFacts
  <1> HIDE DEF history
  <1>7. /\ q \in InkPages /\ q.history = history /\ q.cursor = Len(history) /\ q.dirty
        /\ q.base = page[t].base /\ q.editing = page[t].editing
    <2>1. Len(history) \in Nat BY <1>6
    <2> QED BY <1>1, <1>6, <2>1 DEF InkPages
  <1>8. /\ z \in Sessions /\ z.sees = shown
        /\ z.task = session[t].task /\ z.plan = session[t].plan
    BY <1>1 DEF Sessions
  <1> HIDE DEF q, z
  <1>9. page'[t] = q /\ session'[t] = z /\ OthersSame(t)
    BY <1>1, <1>4 DEF OthersSame, InkTyped
  <1>10. InkTyped'
    <2>1. page' \in [Tablets -> InkPages] /\ session' \in [Tablets -> Sessions]
      BY <1>1, <1>4, <1>7, <1>8 DEF InkTyped
    <2> QED BY <1>1, <2>1 DEF InkTyped, Ids
  <1>11. Current(q) = root /\ HasRoot(q) /\ States(q) = Range(history)
    BY <1>6, <1>7 DEF Current, HasRoot, States
  <1>12. Range(old) \subseteq Places(page[t])
    <2>1. CASE HasRoot(page[t])
      <3>1. old \in States(page[t]) BY <1>1, <1>2, <2>1, StatesOfPage DEF old
      <3> QED BY <3>1 DEF Places
    <2>2. CASE ~HasRoot(page[t])
      <3>1. old = Blank BY <1>1, <2>2, StatesOfPage DEF old
      <3> QED BY <3>1, BlankFacts
    <2> QED BY <2>1, <2>2
  <1>13. Places(q) \subseteq Places(page[t]) \union (shown \ DOMAIN old)
    <2> SUFFICES ASSUME NEW c \in Places(q)
                 PROVE  c \in Places(page[t]) \union (shown \ DOMAIN old)
      OBVIOUS
    <2>1. PICK r \in States(q) : c \in Range(r) BY DEF Places
    <2>2. r \in States(page[t]) \union {Blank, root} BY <1>6, <1>11, <2>1
    <2>3. CASE r \in States(page[t]) BY <2>1, <2>3 DEF Places
    <2>4. CASE r = Blank BY <2>1, <2>4, BlankFacts
    <2>5. CASE r = root BY <1>5, <1>12, <2>1, <2>5
    <2> QED BY <2>2, <2>3, <2>4, <2>5
  <1>14. shown \ DOMAIN old \subseteq drawn' \ drawn BY <1>3
  <1>15. Ids' = Ids /\ VersionPlaces' = VersionPlaces BY VersionPlacesStay
  <1>16. Alone(t) BY <1>9, <1>13, <1>14, <1>15 DEF Alone, OthersSame
  <1>17. TabletOk(t)'
    <2>1. PointsInside(t)' BY <1>6, <1>7, <1>9, <1>11 DEF PointsInside
    <2>2. BaseIsHere(t)' /\ CleanIsBase(t)'
      BY <1>1, <1>7, <1>9, <1>11, <1>15 DEF TabletOk, BaseIsHere, CleanIsBase
    <2>3. OnePlace(t)'
      <3>1. ASSUME NEW r \in States(page[t]), NEW s \in DOMAIN r \cap shown
            PROVE  r[s] = root[s]
        <4>1. HasRoot(page[t]) BY <3>1, <1>1 DEF States, Range, HasRoot
        <4>2. old \in States(page[t]) BY <1>1, <1>2, <4>1, StatesOfPage DEF old
        <4>3. CASE s \in DOMAIN old
          <5>1. r[s] = old[s] BY <1>1, <3>1, <4>2, <4>3 DEF TabletOk, OnePlace
          <5> QED BY <1>5, <3>1, <4>3, <5>1
        <4>4. CASE s \notin DOMAIN old
          <5>1. s \notin drawn BY <1>14, <3>1, <4>4
          <5>2. DOMAIN r \subseteq drawn BY <1>1, <3>1 DEF TabletOk, DrawnBefore
          <5> QED BY <3>1, <5>1, <5>2
        <4> QED BY <4>3, <4>4
      <3>2. \A r1, r2 \in States(page[t]) : \A s \in DOMAIN r1 \cap DOMAIN r2 : r1[s] = r2[s]
        BY <1>1 DEF TabletOk, OnePlace
      <3> SUFFICES ASSUME NEW r1 \in States(q), NEW r2 \in States(q),
                          NEW s \in DOMAIN r1 \cap DOMAIN r2
                   PROVE  r1[s] = r2[s]
        BY <1>9 DEF OnePlace
      <3>3. r1 \in States(page[t]) \/ r1 = root BY <1>6, <1>11, BlankFacts
      <3>4. r2 \in States(page[t]) \/ r2 = root BY <1>6, <1>11, BlankFacts
      <3> QED BY <1>5, <3>1, <3>2, <3>3, <3>4
    <2>4. SeesCurrent(t)' BY <1>5, <1>8, <1>9, <1>11 DEF SeesCurrent
    <2>5. FollowsBase(t)'
      BY <1>1, <1>3, <1>5, <1>7, <1>9, <1>11 DEF TabletOk, FollowsBase, old
    <2>6. GraphsAreSealed(t)' BY <1>1 DEF TabletOk, GraphsAreSealed
    <2>7. FreshIsOwn(t)'
      <3> SUFFICES ASSUME NEW c \in Places(q) \ sealed[t] PROVE Own(t, c)'
        BY <1>9 DEF FreshIsOwn
      <3>1. CASE c \in Places(page[t])
        <4>1. Own(t, c) BY <1>1, <3>1 DEF TabletOk, FreshIsOwn
        <4> QED BY <1>9, <4>1, OwnStaysOwn
      <3>2. CASE c \in shown \ DOMAIN old
        BY <1>9, <1>14, <3>2, NewStrokeIsOwn
      <3> QED BY <1>13, <3>1, <3>2
    <2>8. PlanIsOwn(t)' BY <1>1, <1>8, <1>9, OwnStaysOwn DEF TabletOk, PlanIsOwn
    <2>9. DrawnBefore(t)'
      <3>1. Places(q) \subseteq drawn' \union Packs
        BY <1>1, <1>13 DEF TabletOk, DrawnBefore
      <3>2. \A r \in States(q) : DOMAIN r \subseteq drawn'
        BY <1>1, <1>5, <1>6, <1>11, BlankFacts DEF TabletOk, DrawnBefore
      <3> QED BY <1>9, <3>1, <3>2 DEF DrawnBefore
    <2> QED BY <2>1, <2>2, <2>3, <2>4, <2>5, <2>6, <2>7, <2>8, <2>9 DEF TabletOk
  <1>18. VersionsGrow' /\ StillOffered' BY <1>1, GrowStays, OfferedStays DEF InkInv
  <1>19. StillSomewhere'
    <2>1. \A s \in drawn' \ discarded' :
             s \notin drawn \/ (page[t].dirty /\ s \in DOMAIN Current(page[t])) =>
                page'[t].dirty /\ s \in DOMAIN Current(page'[t])
      BY <1>3, <1>5, <1>7, <1>9, <1>11 DEF old
    <2> QED BY <1>10, <1>16, <2>1, SomewhereKept DEF InkInv
  <1>20. Quiet(t)' BY <1>7, <1>9 DEF Quiet
  <1> QED BY <1>10, <1>16, <1>17, <1>18, <1>19, <1>20, ProgressIsEnough DEF Progress

\* The editor shows strokes that were drawn.
LEMMA SeesIsDrawn ==
    ASSUME InkInv, NEW t \in Tablets, session[t].view = "open"
    PROVE  session[t].sees = DOMAIN Current(page[t]) /\ session[t].sees \subseteq drawn
  <1>1. session[t].sees = DOMAIN Current(page[t]) BY DEF InkInv, TabletOk, SeesCurrent
  <1>2. page[t] \in InkPages BY DEF InkInv, InkTyped
  <1>3. CASE HasRoot(page[t])
    <2>1. Current(page[t]) \in States(page[t])
      BY <1>2, <1>3, StatesOfPage DEF InkInv, TabletOk, PointsInside
    <2> QED BY <1>1, <2>1 DEF InkInv, TabletOk, DrawnBefore
  <1>4. CASE ~HasRoot(page[t])
    <2>1. Current(page[t]) = Blank BY <1>2, <1>4, StatesOfPage
    <2> QED BY <1>1, <2>1, BlankFacts
  <1> QED BY <1>3, <1>4

\* A stroke is added.
LEMMA DrawStep ==
    ASSUME InkInv, NEW t \in Tablets, Draw(t) PROVE InkInv'
  <1>1. PICK s \in Strokes \ drawn : Save(t, session[t].sees \union {s}) /\ drawn' = drawn \union {s}
    BY DEF Draw
  <1>2. session[t].view = "open" BY DEF Draw, CanEdit, SameRevision
  <1>3. session[t].sees = DOMAIN Current(page[t]) /\ session[t].sees \subseteq drawn BY <1>2, SeesIsDrawn
  <1>4. drawn \subseteq Strokes /\ discarded \subseteq drawn /\ turns \in 0 .. MaxTurns
    BY DEF InkInv, InkTyped
  <1>5. UNCHANGED <<versions, notes, known, graphs, sealed, discarded, turns, torn>> BY DEF Draw
  <1>6. session[t].sees \union {s} \in SUBSET Strokes BY <1>3, <1>4
  <1> QED BY <1>1, <1>2, <1>3, <1>4, <1>5, <1>6, SaveStep

\* A stroke is erased.
LEMMA EraseStep ==
    ASSUME InkInv, NEW t \in Tablets, Erase(t) PROVE InkInv'
  <1>1. PICK s \in session[t].sees : Save(t, session[t].sees \ {s}) /\ discarded' = discarded \union {s}
    BY DEF Erase
  <1>2. session[t].view = "open" BY DEF Erase, CanEdit, SameRevision
  <1>3. session[t].sees = DOMAIN Current(page[t]) /\ session[t].sees \subseteq drawn BY <1>2, SeesIsDrawn
  <1>4. drawn \subseteq Strokes /\ discarded \subseteq drawn /\ turns' \in 0 .. MaxTurns
    BY TypedTurn DEF InkInv, InkTyped, Erase
  <1>5. UNCHANGED <<versions, notes, known, graphs, sealed, drawn, torn>> BY DEF Erase
  <1>6. session[t].sees \ {s} \in SUBSET Strokes BY <1>3, <1>4
  <1> QED BY <1>1, <1>2, <1>3, <1>4, <1>5, <1>6, SaveStep

\* Undo and redo.
LEMMA NavigateStep ==
    ASSUME InkInv, NEW t \in Tablets, Navigate(t) PROVE InkInv'
  <1>1. page[t] \in InkPages /\ session[t] \in Sessions /\ InkTyped /\ TabletOk(t) /\ VersionsGrow
    BY DEF InkInv, InkTyped
  <1>2. PICK target \in {page[t].cursor - 1, page[t].cursor + 1} \cap DOMAIN page[t].history :
            /\ page' = [page EXCEPT ![t].cursor = target, ![t].dirty = TRUE]
            /\ session' = [session EXCEPT ![t].sees = DOMAIN page[t].history[target]]
            /\ discarded' = discarded \union (session[t].sees \ DOMAIN page[t].history[target])
    BY DEF Navigate
  <1>3. UNCHANGED <<versions, notes, known, graphs, sealed, drawn, torn>>
        /\ turns' \in 0 .. MaxTurns /\ session[t].view = "open"
    BY <1>1, TypedTurn DEF Navigate, CanEdit, SameRevision
  <1>4. PICK root : root = page[t].history[target] OBVIOUS
  <1>5. root \in States(page[t]) /\ root \in Roots /\ target \in Nat /\ HasRoot(page[t])
    <2>1. page[t].history \in Seq(Roots) BY <1>1 DEF InkPages
    <2>2. target \in 1 .. Len(page[t].history) BY <2>1
    <2>3. page[t].history # <<>> BY <2>1, <2>2
    <2> QED BY <1>1, <1>4, <2>1, <2>2, <2>3, StatesOfPage DEF HasRoot
  <1>6. DOMAIN root \subseteq drawn BY <1>1, <1>5 DEF TabletOk, DrawnBefore
  <1>7. session[t].sees = DOMAIN Current(page[t]) /\ session[t].sees \subseteq drawn
    BY <1>3, SeesIsDrawn
  <1>8. PICK q : q = [page[t] EXCEPT !.cursor = target, !.dirty = TRUE] OBVIOUS
  <1>9. PICK z : z = [session[t] EXCEPT !.sees = DOMAIN root] OBVIOUS
  <1>10. page' = [page EXCEPT ![t] = q] /\ session' = [session EXCEPT ![t] = z]
    BY <1>2, <1>4, <1>8, <1>9
  <1>11. /\ q \in InkPages /\ q.history = page[t].history /\ q.cursor = target /\ q.dirty
         /\ q.base = page[t].base /\ q.editing = page[t].editing
    BY <1>1, <1>5, <1>8 DEF InkPages
  <1>12. DOMAIN root \subseteq Strokes BY <1>5, RootFacts
  <1>13. /\ z \in Sessions /\ z.sees = DOMAIN root /\ z.view = session[t].view
         /\ z.task = session[t].task /\ z.plan = session[t].plan
    BY <1>1, <1>9, <1>12 DEF Sessions
  <1>14. page'[t] = q /\ session'[t] = z /\ OthersSame(t)
    BY <1>1, <1>3, <1>10 DEF OthersSame, InkTyped
  <1>15. InkTyped'
    <2>1. page' \in [Tablets -> InkPages] /\ session' \in [Tablets -> Sessions]
      BY <1>1, <1>10, <1>11, <1>13 DEF InkTyped
    <2>2. discarded' \subseteq drawn BY <1>1, <1>2, <1>7 DEF InkTyped
    <2> QED BY <1>1, <1>3, <2>1, <2>2 DEF InkTyped, Ids
  <1>16. /\ States(q) = States(page[t]) /\ Places(q) = Places(page[t])
         /\ HasRoot(q) /\ Current(q) = root
    BY <1>4, <1>5, <1>11 DEF States, Places, HasRoot, Current
  <1>17. Ids' = Ids /\ VersionPlaces' = VersionPlaces BY <1>3, VersionPlacesStay
  <1>18. Alone(t) BY <1>2, <1>3, <1>14, <1>16, <1>17 DEF Alone, OthersSame
  <1>19. TabletOk(t)'
    <2>1. PointsInside(t)' /\ OnePlace(t)' /\ SeesCurrent(t)'
      BY <1>1, <1>11, <1>13, <1>14, <1>16 DEF TabletOk, PointsInside, OnePlace, SeesCurrent
    <2>2. BaseIsHere(t)' /\ CleanIsBase(t)'
      BY <1>1, <1>3, <1>11, <1>14, <1>16, <1>17 DEF TabletOk, BaseIsHere, CleanIsBase
    <2>3. FollowsBase(t)'
      BY <1>1, <1>2, <1>3, <1>4, <1>7, <1>11, <1>14, <1>16 DEF TabletOk, FollowsBase
    <2>4. GraphsAreSealed(t)' BY <1>1, <1>3 DEF TabletOk, GraphsAreSealed
    <2>5. \A c : Own(t, c) => Own(t, c)' BY <1>3, <1>14, OwnStaysOwn
    <2>6. FreshIsOwn(t)' /\ PlanIsOwn(t)'
      BY <1>1, <1>3, <1>13, <1>14, <1>16, <2>5 DEF TabletOk, FreshIsOwn, PlanIsOwn
    <2>7. DrawnBefore(t)' BY <1>1, <1>3, <1>14, <1>16 DEF TabletOk, DrawnBefore
    <2> QED BY <2>1, <2>2, <2>3, <2>4, <2>6, <2>7 DEF TabletOk
  <1>20. VersionsGrow' /\ StillOffered'
    BY <1>1, <1>2, <1>3, GrowStays, OfferedStays DEF InkInv
  <1>21. StillSomewhere'
    <2>1. \A s \in drawn' \ discarded' :
             s \notin drawn \/ (page[t].dirty /\ s \in DOMAIN Current(page[t])) =>
                page'[t].dirty /\ s \in DOMAIN Current(page'[t])
      BY <1>2, <1>3, <1>4, <1>7, <1>11, <1>14, <1>16
    <2> QED BY <1>3, <1>15, <1>18, <2>1, SomewhereKept DEF InkInv
  <1>22. Quiet(t)' BY <1>11, <1>14 DEF Quiet
  <1> QED BY <1>15, <1>18, <1>19, <1>20, <1>21, <1>22, ProgressIsEnough DEF Progress

\* compaction::publish.
LEMMA FinishPackingStep ==
    ASSUME InkInv, NEW t \in Tablets, FinishPacking(t) PROVE InkInv'
  <1>1. page[t] \in InkPages /\ session[t] \in Sessions /\ InkTyped /\ TabletOk(t) /\ VersionsGrow
    BY DEF InkInv, InkTyped
  <1>2. PICK plan : plan = session[t].plan OBVIOUS
  <1>3. PICK chunk : chunk = <<t, plan.at>> OBVIOUS
  <1>4. PICK z : z = [session[t] EXCEPT !.task = "idle", !.plan = NoPlan] OBVIOUS
  <1>5. /\ session[t].task = "packing" /\ session' = [session EXCEPT ![t] = z]
        /\ UNCHANGED <<versions, notes, known, graphs, drawn, discarded, turns, torn>>
        /\ \/ /\ page' = [page EXCEPT ![t] = Packed(@, plan, chunk)]
              /\ sealed' = [sealed EXCEPT ![t] = @ \union
                    (IF page'[t] = page[t] THEN {} ELSE {chunk})]
           \/ UNCHANGED <<page, sealed>>
    BY <1>2, <1>3, <1>4 DEF FinishPacking
  <1>6. /\ z \in Sessions /\ z.view = session[t].view /\ z.sees = session[t].sees
        /\ z.task = "idle"
    <2>1. NoPlan \in [at : SUBSET Strokes, from : Roots] BY BlankFacts DEF NoPlan
    <2> QED BY <1>1, <1>4, <2>1 DEF Sessions
  <1>7. chunk \in Packs
    <2>1. plan.at \in SUBSET Strokes BY <1>1, <1>2 DEF Sessions
    <2> QED BY <1>3, <2>1 DEF Packs
  <1>8. session' \in [Tablets -> Sessions] /\ session'[t] = z
    BY <1>1, <1>5, <1>6 DEF InkTyped
  <1>9. Ids' = Ids /\ VersionPlaces' = VersionPlaces BY <1>5, VersionPlacesStay
  <1>10. VersionsGrow' /\ StillOffered' BY <1>1, <1>5, GrowStays, OfferedStays DEF InkInv
  <1>11. CASE UNCHANGED <<page, sealed>>
    <2>1. InkTyped' BY <1>1, <1>5, <1>8, <1>11, TypedQuietly DEF InkTyped
    <2>2. OthersSame(t) BY <1>1, <1>5, <1>11 DEF OthersSame, InkTyped
    <2>3. session[t].view = "open" => session[t].sees = DOMAIN Current(page[t])
      BY <1>1 DEF TabletOk, SeesCurrent
    <2>4. SameDrawing(page[t], page'[t]) BY <1>11 DEF SameDrawing
    <2> QED BY <1>5, <1>6, <1>8, <1>11, <2>1, <2>2, <2>3, <2>4, KeptStep
  <1>12. CASE /\ page' = [page EXCEPT ![t] = Packed(@, plan, chunk)]
              /\ sealed' = [sealed EXCEPT ![t] = @ \union
                    (IF page'[t] = page[t] THEN {} ELSE {chunk})]
    <2>1. PICK q : q = Packed(page[t], plan, chunk) OBVIOUS
    <2>2. PICK more : more = IF q = page[t] THEN {} ELSE {chunk} OBVIOUS
    <2>3. page' = [page EXCEPT ![t] = q] /\ page'[t] = q /\ sealed'[t] = sealed[t] \union more
          /\ sealed' = [sealed EXCEPT ![t] = @ \union more]
      BY <1>1, <1>12, <2>1, <2>2 DEF InkTyped
    <2>4. PackedOk(page[t], q, plan, chunk) BY <1>1, <1>7, <2>1, PackedFacts
    <2>5. /\ q \in InkPages /\ q.cursor = page[t].cursor /\ q.dirty = page[t].dirty
          /\ q.editing = page[t].editing /\ q.base = page[t].base
          /\ DOMAIN q.history = DOMAIN page[t].history
      BY <2>4 DEF PackedOk
    <2>6. OthersSame(t) BY <1>1, <1>5, <2>3 DEF OthersSame, InkTyped
    <2>7. InkTyped'
      <3>1. page' \in [Tablets -> InkPages] BY <1>1, <2>3, <2>5 DEF InkTyped
      <3>2. sealed' \in [Tablets -> SUBSET (Strokes \union Packs)]
        BY <1>1, <1>7, <2>2, <2>3 DEF InkTyped
      <3> QED BY <1>1, <1>5, <1>8, <3>1, <3>2, TypedQuietly DEF InkTyped
    <2>8. HasRoot(page[t]) => page[t].cursor \in DOMAIN page[t].history
      BY <1>1 DEF TabletOk, PointsInside
    <2>9. /\ Places(q) \subseteq Places(page[t]) \union more
          /\ HasRoot(q) = HasRoot(page[t]) /\ DOMAIN Current(q) = DOMAIN Current(page[t])
          /\ \A new \in States(q) : \E old \in States(page[t]) : DOMAIN new = DOMAIN old
          /\ \A r1, r2 \in States(q) : \A s \in DOMAIN r1 \cap DOMAIN r2 : r1[s] = r2[s]
          /\ (\A s \in DOMAIN Current(page[t]) \cap plan.at : Current(page[t])[s] # plan.from[s])
              => Current(q) = Current(page[t])
      BY <1>1, <1>7, <2>2, <2>4, <2>8, PackedPlaces DEF TabletOk, OnePlace
    <2>10. Alone(t) BY <1>5, <1>7, <1>9, <2>2, <2>3, <2>6, <2>9 DEF Alone, OthersSame
    <2>11. \A s \in plan.at : Own(t, plan.from[s])
      BY <1>1, <1>2, <1>5 DEF TabletOk, PlanIsOwn
    <2>12. TabletOk(t)'
      <3>1. PointsInside(t)' /\ OnePlace(t)' /\ SeesCurrent(t)'
        BY <1>1, <1>6, <1>8, <2>3, <2>5, <2>9 DEF TabletOk, PointsInside, OnePlace, SeesCurrent
      <3>2. BaseIsHere(t)' BY <1>1, <1>5, <1>9, <2>3, <2>5, <2>9 DEF TabletOk, BaseIsHere
      <3>3. FollowsBase(t)' BY <1>1, <1>5, <2>3, <2>5, <2>9 DEF TabletOk, FollowsBase
      <3>4. CleanIsBase(t)'
        <4> SUFFICES ASSUME ~page[t].dirty, page[t].base # 0
                     PROVE  Current(q) = versions[page[t].base].root
          BY <1>5, <2>3, <2>5 DEF CleanIsBase
        <4>1. Current(q) = Current(page[t])
          BY <1>1, <2>9, <2>11, CleanIsNotPlanned DEF TabletOk
        <4> QED BY <1>1, <4>1 DEF TabletOk, CleanIsBase
      <3>5. GraphsAreSealed(t)' BY <1>1, <1>5, <2>3 DEF TabletOk, GraphsAreSealed
      <3>6. FreshIsOwn(t)'
        <4> SUFFICES ASSUME NEW c \in Places(q) \ (sealed[t] \union more) PROVE Own(t, c)'
          BY <2>3 DEF FreshIsOwn
        <4>1. Own(t, c) BY <1>1, <2>9 DEF TabletOk, FreshIsOwn
        <4> QED BY <1>5, <2>6, <4>1, OwnStaysOwn
      <3>7. PlanIsOwn(t)' BY <1>6, <1>8 DEF PlanIsOwn
      <3>8. DrawnBefore(t)'
        <4>1. Places(q) \subseteq drawn \union Packs
          BY <1>1, <1>7, <2>2, <2>9 DEF TabletOk, DrawnBefore
        <4>2. \A r \in States(q) : DOMAIN r \subseteq drawn
          BY <1>1, <2>9 DEF TabletOk, DrawnBefore
        <4> QED BY <1>5, <2>3, <4>1, <4>2 DEF DrawnBefore
      <3> QED BY <3>1, <3>2, <3>3, <3>4, <3>5, <3>6, <3>7, <3>8 DEF TabletOk
    <2>13. StillSomewhere'
      BY <1>5, <2>3, <2>5, <2>7, <2>9, <2>10, SomewhereKept DEF InkInv
    <2>14. ASSUME t \notin torn' PROVE Quiet(t)'
      <3>1. Quiet(t) BY <1>5, <2>14 DEF InkInv, QuietPageIsCurrent, Quiet
      <3>2. Heads(known[t])' = Heads(known[t]) BY <1>5 DEF Heads
      <3>3. \A w : Available(t, w)' = Available(t, w) BY <1>5 DEF Available
      <3> QED BY <1>5, <2>3, <2>5, <3>1, <3>2, <3>3 DEF Quiet
    <2> QED BY <1>10, <2>7, <2>10, <2>12, <2>13, <2>14, ProgressIsEnough DEF Progress
  <1> QED BY <1>5, <1>11, <1>12

----------------------------------------------------------------------------
(* Publication *)

\* The page that publish leaves behind when the compaction before it made p.
LEMMA CompactedPage ==
    ASSUME InkInv, NEW t \in Tablets, NEW p \in AfterCompaction(t), NEW more,
           more = IF p = page[t] THEN {} ELSE {<<t, FreshSegments(t)>>}
    PROVE  /\ p \in InkPages /\ p.base = page[t].base /\ p.dirty = page[t].dirty
           /\ p.editing = page[t].editing /\ p.cursor = page[t].cursor
           /\ DOMAIN p.history = DOMAIN page[t].history
           /\ more \subseteq Packs
           /\ Places(p) \subseteq Places(page[t]) \union more
           /\ HasRoot(p) = HasRoot(page[t]) /\ DOMAIN Current(p) = DOMAIN Current(page[t])
           /\ \A new \in States(p) : DOMAIN new \subseteq drawn
           /\ \A r1, r2 \in States(p) : \A s \in DOMAIN r1 \cap DOMAIN r2 : r1[s] = r2[s]
           /\ ~page[t].dirty /\ page[t].base # 0 => Current(p) = Current(page[t])
           /\ HasRoot(p) => p.cursor \in DOMAIN p.history /\ Current(p) \in States(p)
           /\ Current(p) \in Roots
           /\ Range(Current(p)) \subseteq Places(page[t]) \union more
           /\ DOMAIN Current(p) \subseteq drawn
  <1>1. page[t] \in InkPages /\ InkTyped /\ TabletOk(t) BY DEF InkInv, InkTyped
  <1>2. PICK plan : /\ PackedOk(page[t], p, plan, <<t, FreshSegments(t)>>)
                    /\ \A s \in plan.at : Own(t, plan.from[s])
                    /\ <<t, FreshSegments(t)>> \in Packs
    BY <1>1, AfterCompactionOk DEF TabletOk
  <1>3. PICK chunk \in Packs : chunk = <<t, FreshSegments(t)>> BY <1>2
  <1>4. HasRoot(page[t]) => page[t].cursor \in DOMAIN page[t].history
    BY <1>1 DEF TabletOk, PointsInside
  <1>5. PackedOk(page[t], p, plan, chunk) BY <1>2, <1>3
  <1>6. /\ p \in InkPages /\ p.base = page[t].base /\ p.dirty = page[t].dirty
        /\ p.editing = page[t].editing /\ p.cursor = page[t].cursor
        /\ DOMAIN p.history = DOMAIN page[t].history
    BY <1>5 DEF PackedOk
  <1>7. more \subseteq Packs /\ more = IF p = page[t] THEN {} ELSE {chunk} BY <1>3
  <1>8. /\ Places(p) \subseteq Places(page[t]) \union more
        /\ HasRoot(p) = HasRoot(page[t]) /\ DOMAIN Current(p) = DOMAIN Current(page[t])
        /\ \A new \in States(p) : \E old \in States(page[t]) : DOMAIN new = DOMAIN old
        /\ \A r1, r2 \in States(p) : \A s \in DOMAIN r1 \cap DOMAIN r2 : r1[s] = r2[s]
        /\ (\A s \in DOMAIN Current(page[t]) \cap plan.at : Current(page[t])[s] # plan.from[s])
              => Current(p) = Current(page[t])
    BY <1>1, <1>4, <1>5, <1>7, PackedPlaces DEF TabletOk, OnePlace
  <1>9. ~page[t].dirty /\ page[t].base # 0 => Current(p) = Current(page[t])
    BY <1>1, <1>2, <1>8, CleanIsNotPlanned DEF TabletOk
  <1>10. \A new \in States(p) : DOMAIN new \subseteq drawn
    BY <1>1, <1>8 DEF TabletOk, DrawnBefore
  <1>11. HasRoot(p) => p.cursor \in DOMAIN p.history /\ Current(p) \in States(p)
    BY <1>4, <1>6, <1>8, StatesOfPage
  <1>12. Current(p) \in Roots BY <1>6, <1>11, StatesOfPage
  <1>13. Range(Current(p)) \subseteq Places(page[t]) \union more /\ DOMAIN Current(p) \subseteq drawn
    <2>1. CASE HasRoot(p)
      <3>1. Range(Current(p)) \subseteq Places(p) BY <1>11, <2>1 DEF Places
      <3> QED BY <1>8, <1>10, <1>11, <2>1, <3>1
    <2>2. CASE ~HasRoot(p)
      <3>1. Current(p) = Blank BY <1>6, <2>2, StatesOfPage
      <3> QED BY <3>1, BlankFacts
    <2> QED BY <2>1, <2>2
  <1> QED BY <1>6, <1>7, <1>8, <1>9, <1>10, <1>11, <1>12, <1>13

\* versions::publish: nothing to say, or a new version.
LEMMA PublishVersionStep ==
    ASSUME InkInv, NEW t \in Tablets, PublishVersion(t) PROVE InkInv'
  <1>1. page[t] \in InkPages /\ session[t] \in Sessions /\ InkTyped /\ TabletOk(t) /\ VersionsGrow
    BY DEF InkInv, InkTyped
  <1>2. PICK z : z = [session[t] EXCEPT !.task = "closing", !.wanted = FALSE] OBVIOUS
  <1>3. /\ z \in Sessions /\ z.view = session[t].view /\ z.sees = session[t].sees
        /\ z.task = "closing"
    BY <1>1, <1>2 DEF Sessions
  <1>4. session' = [session EXCEPT ![t] = z] /\ UNCHANGED <<notes, drawn, discarded, turns, torn>>
    BY <1>2 DEF PublishVersion
  <1>5. session' \in [Tablets -> Sessions] /\ session'[t] = z
    BY <1>1, <1>3, <1>4 DEF InkTyped
  <1>6. PICK p \in AfterCompaction(t) :
        LET root == Current(p)
            chunk == IF p = page[t] THEN {} ELSE {<<t, FreshSegments(t)>>}
            clean == [p EXCEPT !.dirty = FALSE, !.requested = FALSE]
            unchanged == p.base # 0 /\ versions[p.base].root = root
        IN  IF ~p.dirty \/ unchanged
            THEN /\ page' = [page EXCEPT ![t] = clean]
                 /\ UNCHANGED <<versions, notes, known, graphs>>
                 /\ sealed' = [sealed EXCEPT ![t] = @ \union chunk]
            ELSE /\ Len(versions) < MaxVersions
                 /\ versions' = Append(versions,
                        [root |-> root, parents |-> {p.base} \ {0}])
                 /\ known' = [known EXCEPT ![t] = @ \union {Len(versions')}]
                 /\ graphs' = [graphs EXCEPT ![t] = @ \union {root}]
                 /\ page' = [page EXCEPT ![t] = [clean EXCEPT !.base = Len(versions')]]
                 /\ sealed' = [sealed EXCEPT ![t] = Sealed(t, root) \union chunk]
    BY DEF PublishVersion
  <1>7. PICK more : more = IF p = page[t] THEN {} ELSE {<<t, FreshSegments(t)>>} OBVIOUS
  <1>8. PICK root : root = Current(p) OBVIOUS
  <1>9. PICK clean : clean = [p EXCEPT !.dirty = FALSE, !.requested = FALSE] OBVIOUS
  <1>10. /\ p \in InkPages /\ p.base = page[t].base /\ p.dirty = page[t].dirty
         /\ more \subseteq Packs
         /\ Places(p) \subseteq Places(page[t]) \union more
         /\ HasRoot(p) = HasRoot(page[t]) /\ DOMAIN root = DOMAIN Current(page[t])
         /\ \A new \in States(p) : DOMAIN new \subseteq drawn
         /\ \A r1, r2 \in States(p) : \A s \in DOMAIN r1 \cap DOMAIN r2 : r1[s] = r2[s]
         /\ ~page[t].dirty /\ page[t].base # 0 => root = Current(page[t])
         /\ HasRoot(p) => p.cursor \in DOMAIN p.history /\ root \in States(p)
         /\ root \in Roots /\ DOMAIN root \subseteq drawn
         /\ Range(root) \subseteq Places(page[t]) \union more
    BY <1>7, <1>8, CompactedPage
  <1>11. /\ clean \in InkPages /\ clean.history = p.history /\ clean.cursor = p.cursor
         /\ clean.base = p.base /\ ~clean.dirty
    BY <1>9, <1>10 DEF InkPages
  <1>12. Places(page[t]) \subseteq drawn \union Packs
    BY <1>1 DEF TabletOk, DrawnBefore
  <1>13. CASE ~p.dirty \/ (p.base # 0 /\ versions[p.base].root = root)
    <2>1. /\ page' = [page EXCEPT ![t] = clean] /\ UNCHANGED <<versions, known, graphs>>
          /\ sealed' = [sealed EXCEPT ![t] = @ \union more]
      BY <1>6, <1>7, <1>8, <1>9, <1>13
    <2>2. page'[t] = clean /\ sealed'[t] = sealed[t] \union more /\ OthersSame(t)
      BY <1>1, <1>4, <2>1 DEF OthersSame, InkTyped
    <2>3. InkTyped'
      <3>1. page' \in [Tablets -> InkPages] BY <1>1, <1>11, <2>1 DEF InkTyped
      <3>2. sealed' \in [Tablets -> SUBSET (Strokes \union Packs)]
        BY <1>1, <1>10, <2>1 DEF InkTyped
      <3> QED BY <1>1, <1>4, <1>5, <2>1, <3>1, <3>2, TypedQuietly DEF InkTyped
    <2>4. /\ States(clean) = States(p) /\ Places(clean) = Places(p)
          /\ Current(clean) = root /\ HasRoot(clean) = HasRoot(p)
      BY <1>8, <1>11, SameDrawingFacts DEF SameDrawing
    <2>5. Ids' = Ids /\ VersionPlaces' = VersionPlaces BY <2>1, VersionPlacesStay
    <2>6. Alone(t)
      BY <1>4, <1>10, <2>1, <2>2, <2>4, <2>5 DEF Alone, OthersSame
    <2>7. VersionsGrow' /\ StillOffered' BY <1>1, <1>4, <2>1, GrowStays, OfferedStays DEF InkInv
    <2>8. TabletOk(t)'
      <3>1. PointsInside(t)' /\ OnePlace(t)' /\ SeesCurrent(t)'
        BY <1>1, <1>3, <1>5, <1>10, <1>11, <2>2, <2>4
        DEF TabletOk, PointsInside, OnePlace, SeesCurrent
      <3>2. BaseIsHere(t)'
        BY <1>1, <1>10, <1>11, <2>1, <2>2, <2>4, <2>5 DEF TabletOk, BaseIsHere
      <3>3. FollowsBase(t)'
        BY <1>1, <1>4, <1>10, <1>11, <2>1, <2>2, <2>4 DEF TabletOk, FollowsBase
      <3>4. CleanIsBase(t)'
        BY <1>1, <1>10, <1>11, <1>13, <2>1, <2>2, <2>4 DEF TabletOk, CleanIsBase
      <3>5. GraphsAreSealed(t)' BY <1>1, <2>1, <2>2 DEF TabletOk, GraphsAreSealed
      <3>6. FreshIsOwn(t)'
        <4> SUFFICES ASSUME NEW c \in Places(p) \ (sealed[t] \union more) PROVE Own(t, c)'
          BY <2>2, <2>4 DEF FreshIsOwn
        <4>1. Own(t, c) BY <1>1, <1>10 DEF TabletOk, FreshIsOwn
        <4> QED BY <1>4, <2>1, <2>2, <4>1, OwnStaysOwn
      <3>7. PlanIsOwn(t)' BY <1>3, <1>5 DEF PlanIsOwn
      <3>8. DrawnBefore(t)'
        <4>1. Places(p) \subseteq drawn \union Packs BY <1>10, <1>12
        <4> QED BY <1>4, <1>10, <2>2, <2>4, <4>1 DEF DrawnBefore
      <3> QED BY <3>1, <3>2, <3>3, <3>4, <3>5, <3>6, <3>7, <3>8 DEF TabletOk
    <2>9. StillSomewhere'
      <3>1. ASSUME page[t].dirty, NEW s \in DOMAIN Current(page[t])
            PROVE  \E v \in Ids' : s \in DOMAIN versions'[v].root
        <4>1. p.base # 0 /\ versions[p.base].root = root BY <1>10, <1>13, <3>1
        <4>2. p.base \in Ids BY <1>1, <1>10, <4>1 DEF TabletOk, BaseIsHere
        <4> QED BY <1>10, <2>1, <2>5, <3>1, <4>1, <4>2
      <3>2. \A s \in drawn' \ discarded' :
               s \notin drawn \/ (page[t].dirty /\ s \in DOMAIN Current(page[t])) =>
                  \E v \in Ids' : s \in DOMAIN versions'[v].root
        BY <1>4, <3>1
      <3> QED BY <1>4, <2>3, <2>6, <3>2, SomewhereKept DEF InkInv
    <2>10. Quiet(t)' BY <1>3, <1>5 DEF Quiet
    <2> QED BY <2>3, <2>6, <2>7, <2>8, <2>9, <2>10, ProgressIsEnough DEF Progress
  <1>14. CASE ~(~p.dirty \/ (p.base # 0 /\ versions[p.base].root = root))
    <2>1. PICK new : new = [root |-> root, parents |-> {p.base} \ {0}] OBVIOUS
    <2>2. PICK n : n = Len(versions') OBVIOUS
    <2>3. PICK q : q = [clean EXCEPT !.base = n] OBVIOUS
    <2>4. /\ Len(versions) < MaxVersions /\ versions' = Append(versions, new)
          /\ known' = [known EXCEPT ![t] = @ \union {n}]
          /\ graphs' = [graphs EXCEPT ![t] = @ \union {root}]
          /\ page' = [page EXCEPT ![t] = q]
          /\ sealed' = [sealed EXCEPT ![t] = (@ \union Range(root)) \union more]
      BY <1>6, <1>7, <1>8, <1>9, <1>14, <2>1, <2>2, <2>3 DEF Sealed
    <2>5. p.base \in 0 .. MaxVersions /\ (p.base # 0 => p.base \in Ids)
      BY <1>1, <1>10 DEF TabletOk, BaseIsHere, InkPages
    <2>6. new \in Versions /\ new.root = root /\ new.parents = {p.base} \ {0}
      BY <1>10, <2>1, <2>5, InkAssumption DEF Versions
    <2>7. /\ n = Len(versions) + 1 /\ n \in 1 .. MaxVersions
          /\ versions' \in Seq(Versions) /\ Len(versions') = n
          /\ Ids' = Ids \union {n} /\ n \notin Ids /\ versions'[n] = new
          /\ \A v \in Ids : versions'[v] = versions[v]
          /\ \A v \in Ids : v < n
      <3>1. versions \in Seq(Versions) /\ Len(versions) \in Nat BY <1>1 DEF InkTyped
      <3> QED BY <2>2, <2>4, <2>6, <3>1, InkAssumption DEF Ids
    <2>8. /\ q \in InkPages /\ q.history = p.history /\ q.cursor = p.cursor
          /\ q.base = n /\ ~q.dirty
      BY <1>11, <2>3, <2>7, InkAssumption DEF InkPages
    <2>9. /\ States(q) = States(p) /\ Places(q) = Places(p)
          /\ Current(q) = root /\ HasRoot(q) /\ HasRoot(p)
      <3>1. HasRoot(p) BY <1>1, <1>10, <1>14 DEF TabletOk, PointsInside
      <3> QED BY <1>8, <2>8, <3>1, SameDrawingFacts DEF SameDrawing
    <2>10. /\ page'[t] = q /\ graphs'[t] = graphs[t] \union {root}
           /\ sealed'[t] = (sealed[t] \union Range(root)) \union more /\ OthersSame(t)
      BY <1>1, <1>4, <2>4 DEF OthersSame, InkTyped
    <2>11. InkTyped'
      <3>1. page' \in [Tablets -> InkPages] BY <1>1, <2>4, <2>8 DEF InkTyped
      <3>2. sealed' \in [Tablets -> SUBSET (Strokes \union Packs)]
        BY <1>1, <1>10, <2>4, RootFacts DEF InkTyped
      <3>3. known' \in [Tablets -> SUBSET Ids'] BY <1>1, <2>4, <2>7 DEF InkTyped
      <3>4. graphs' \in [Tablets -> SUBSET {versions'[v].root : v \in Ids'}]
        <4>1. root \in {versions'[v].root : v \in Ids'} BY <2>6, <2>7
        <4>2. {versions[v].root : v \in Ids} \subseteq {versions'[v].root : v \in Ids'} BY <2>7
        <4>3. graphs \in [Tablets -> SUBSET {versions[v].root : v \in Ids}] BY <1>1 DEF InkTyped
        <4>4. PICK A : A = {versions[v].root : v \in Ids} OBVIOUS
        <4>5. PICK B : B = {versions'[v].root : v \in Ids'} OBVIOUS
        <4>6. graphs' \in [Tablets -> SUBSET B] BY <2>4, <4>1, <4>2, <4>3, <4>4, <4>5
        <4> QED BY <4>5, <4>6
      <3> QED BY <1>1, <1>4, <1>5, <2>7, <3>1, <3>2, <3>3, <3>4 DEF InkTyped
    <2>12. VersionPlaces' = VersionPlaces \union Range(root)
      <3>1. VersionPlaces' = UNION {Range(versions'[v].root) : v \in Ids'} BY DEF VersionPlaces
      <3> QED BY <2>6, <2>7, <3>1 DEF VersionPlaces
    <2>13. Alone(t)
      BY <1>4, <1>10, <2>7, <2>9, <2>10, <2>12 DEF Alone, OthersSame
    <2>14. VersionsGrow'
      <3> SUFFICES ASSUME NEW v \in Ids'
                   PROVE  /\ \A w \in versions'[v].parents : w < v
                          /\ DOMAIN versions'[v].root \subseteq drawn
                          /\ Range(versions'[v].root) \subseteq drawn \union Packs
        BY <1>4 DEF VersionsGrow
      <3>1. CASE v \in Ids BY <1>1, <2>7, <3>1 DEF VersionsGrow
      <3>2. CASE v = n BY <1>10, <1>12, <2>5, <2>6, <2>7, <3>2
      <3> QED BY <2>7, <3>1, <3>2
    <2>15. /\ n \in Heads(Ids)'
           /\ \A h \in Heads(Ids) : h # p.base => h \in Heads(Ids)'
      <3>1. \A w \in Ids : n \notin versions[w].parents
        <4> SUFFICES ASSUME NEW w \in Ids, n \in versions[w].parents PROVE FALSE OBVIOUS
        <4>1. n < w /\ w < n BY <1>1, <2>7 DEF VersionsGrow
        <4>2. w \in Nat BY <1>1, IdsAreFinite DEF InkTyped
        <4> QED BY <2>7, <4>1, <4>2
      <3>2. n \notin new.parents BY <2>5, <2>6, <2>7
      <3>3. n \in Heads(Ids)' BY <2>7, <3>1, <3>2 DEF Heads
      <3>4. ASSUME NEW h \in Heads(Ids), h # p.base PROVE h \in Heads(Ids)'
        BY <2>6, <2>7, <3>4 DEF Heads
      <3> QED BY <3>3, <3>4
    <2>16. StillOffered'
      <3> SUFFICES ASSUME NEW v \in Ids', NEW s \in DOMAIN versions'[v].root \ discarded
                   PROVE  \/ \E h \in Heads(Ids)' : s \in DOMAIN versions'[h].root
                          \/ \E r \in notes' : s \in DOMAIN r
        BY <1>4 DEF StillOffered, Heads
      <3>1. CASE v = n BY <2>15, <3>1
      <3>2. CASE v \in Ids
        <4>1. s \in DOMAIN versions[v].root \ discarded BY <2>7, <3>2
        <4>2. CASE \E r \in notes : s \in DOMAIN r BY <1>4, <4>2
        <4>3. CASE \E h \in Heads(Ids) : s \in DOMAIN versions[h].root
          <5>1. PICK h \in Heads(Ids) : s \in DOMAIN versions[h].root BY <4>3
          <5>2. h \in Ids BY DEF Heads
          <5>3. CASE h # p.base BY <2>7, <2>15, <5>1, <5>2, <5>3
          <5>4. CASE h = p.base
            <6>1. h # 0 BY <1>1, <5>2, IdsAreFinite DEF InkTyped
            <6>2. s \in DOMAIN root
              BY <1>1, <1>10, <4>1, <5>1, <5>4, <6>1 DEF TabletOk, FollowsBase
            <6> QED BY <2>6, <2>7, <2>15, <6>2
          <5> QED BY <5>3, <5>4
        <4> QED BY <3>2, <4>1, <4>2, <4>3 DEF InkInv, StillOffered
      <3> QED BY <2>7, <3>1, <3>2
    <2>17. TabletOk(t)'
      <3>1. PointsInside(t)' /\ OnePlace(t)' /\ SeesCurrent(t)'
        BY <1>1, <1>3, <1>5, <1>10, <2>8, <2>9, <2>10
        DEF TabletOk, PointsInside, OnePlace, SeesCurrent
      <3>2. BaseIsHere(t)' /\ CleanIsBase(t)' /\ FollowsBase(t)'
        BY <2>6, <2>7, <2>8, <2>9, <2>10 DEF BaseIsHere, CleanIsBase, FollowsBase
      <3>3. GraphsAreSealed(t)' BY <1>1, <2>10 DEF TabletOk, GraphsAreSealed
      <3>4. FreshIsOwn(t)'
        <4> SUFFICES ASSUME NEW c \in Places(q) \ sealed'[t] PROVE Own(t, c)'
          BY <2>10 DEF FreshIsOwn
        <4>1. c \in Places(page[t]) \ sealed[t] /\ c \notin Range(root)
          BY <1>10, <2>9, <2>10
        <4>2. Own(t, c) BY <1>1, <4>1 DEF TabletOk, FreshIsOwn
        <4> QED BY <1>4, <2>10, <2>12, <4>1, <4>2 DEF Own, OthersSame
      <3>5. PlanIsOwn(t)' BY <1>3, <1>5 DEF PlanIsOwn
      <3>6. DrawnBefore(t)'
        <4>1. Places(p) \subseteq drawn \union Packs BY <1>10, <1>12
        <4> QED BY <1>4, <1>10, <2>9, <2>10, <4>1 DEF DrawnBefore
      <3> QED BY <3>1, <3>2, <3>3, <3>4, <3>5, <3>6 DEF TabletOk
    <2>18. StillSomewhere'
      <3>1. \A s \in DOMAIN Current(page[t]) : s \in DOMAIN versions'[n].root
        BY <1>10, <2>6, <2>7
      <3>2. \A s \in drawn' \ discarded' :
               s \notin drawn \/ (page[t].dirty /\ s \in DOMAIN Current(page[t])) =>
                  \E v \in Ids' : s \in DOMAIN versions'[v].root
        BY <1>4, <2>7, <3>1
      <3> QED BY <1>4, <2>11, <2>13, <3>2, SomewhereKept DEF InkInv
    <2>19. Quiet(t)' BY <1>3, <1>5 DEF Quiet
    <2> QED BY <2>11, <2>13, <2>14, <2>16, <2>17, <2>18, <2>19, ProgressIsEnough DEF Progress
  <1> QED BY <1>13, <1>14

----------------------------------------------------------------------------
(* The resolution of a conflict *)

\* resolve.
LEMMA ResolveStep ==
    ASSUME InkInv, NEW t \in Tablets, Resolve(t) PROVE InkInv'
  <1>1. page[t] \in InkPages /\ session[t] \in Sessions /\ InkTyped /\ TabletOk(t) /\ VersionsGrow
    BY DEF InkInv, InkTyped
  <1>2. PICK heads : heads = Heads(known[t]) OBVIOUS
  <1>3. session[t].dialog = heads /\ ~page[t].dirty
    BY <1>2 DEF Resolve, SameDialog
  <1>4. PICK keep \in (SUBSET heads) \ {{}} : \E first \in keep \cap heads :
            LET stays == [root |-> versions[first].root, parents |-> heads]
            IN  /\ \A v \in keep : Available(t, v)
                /\ Len(versions) < MaxVersions
                /\ versions' = Append(versions, stays)
                /\ notes' = notes \union {versions[v].root : v \in keep \ {first}}
                /\ known' = [known EXCEPT ![t] = @ \union {Len(versions')}]
                /\ page' = [page EXCEPT ![t] =
                        [page[t] EXCEPT !.editing = FALSE, !.cursor = 1,
                            !.history = <<stays.root>>, !.base = Len(versions')]]
                /\ discarded' = discarded \union
                        ((UNION {DOMAIN versions[v].root : v \in heads \ keep})
                         \ (UNION {DOMAIN versions[v].root : v \in keep}))
    BY <1>2, <1>3 DEF Resolve
  <1>0. PICK first \in keep \cap heads :
            LET stays == [root |-> versions[first].root, parents |-> heads]
            IN  /\ \A v \in keep : Available(t, v)
                /\ Len(versions) < MaxVersions
                /\ versions' = Append(versions, stays)
                /\ notes' = notes \union {versions[v].root : v \in keep \ {first}}
                /\ known' = [known EXCEPT ![t] = @ \union {Len(versions')}]
                /\ page' = [page EXCEPT ![t] =
                        [page[t] EXCEPT !.editing = FALSE, !.cursor = 1,
                            !.history = <<stays.root>>, !.base = Len(versions')]]
                /\ discarded' = discarded \union
                        ((UNION {DOMAIN versions[v].root : v \in heads \ keep})
                         \ (UNION {DOMAIN versions[v].root : v \in keep}))
    BY <1>4
  <1>5. PICK root : root = versions[first].root OBVIOUS
  <1>6. PICK n : n = Len(versions') OBVIOUS
  <1>7. PICK new : new = [root |-> root, parents |-> heads] OBVIOUS
  <1>8. PICK q : q = [page[t] EXCEPT !.editing = FALSE, !.cursor = 1,
                                     !.history = <<root>>, !.base = n]
    OBVIOUS
  <1>9. PICK z : z = [session[t] EXCEPT !.dialog = {},
                        !.view = IF session[t].view = "open" THEN "stale" ELSE session[t].view]
    OBVIOUS
  <1>10. /\ \A v \in keep : Available(t, v)
         /\ Len(versions) < MaxVersions /\ versions' = Append(versions, new)
         /\ notes' = notes \union {versions[v].root : v \in keep \ {first}}
         /\ known' = [known EXCEPT ![t] = @ \union {n}]
         /\ page' = [page EXCEPT ![t] = q]
         /\ discarded' = discarded \union
                ((UNION {DOMAIN versions[v].root : v \in heads \ keep})
                   \ (UNION {DOMAIN versions[v].root : v \in keep}))
    BY <1>0, <1>5, <1>6, <1>7, <1>8
  <1>11. /\ session' = [session EXCEPT ![t] = z]
         /\ UNCHANGED <<graphs, sealed, drawn, turns, torn>>
    <2>1. PICK view : view = IF session[t].view = "open" THEN "stale" ELSE session[t].view
      OBVIOUS
    <2>2. session' = [session EXCEPT ![t].dialog = {}, ![t].view = view] BY <2>1 DEF Resolve
    <2>3. z = [session[t] EXCEPT !.dialog = {}, !.view = view] BY <1>9, <2>1
    <2>4. session \in [Tablets -> Sessions] BY <1>1 DEF InkTyped
    <2>5. session' = [session EXCEPT ![t] = z] BY <2>2, <2>3, <2>4
    <2>6. UNCHANGED <<graphs, sealed, drawn, turns, torn>> BY DEF Resolve
    <2> QED BY <2>5, <2>6
  <1>12. heads \subseteq known[t] /\ known[t] \subseteq Ids /\ first \in heads /\ keep \subseteq heads
    BY <1>1, <1>2 DEF Heads, InkTyped
  <1>13. root \in Roots /\ root \in graphs[t]
    <2>1. first \in Ids BY <1>12
    <2> QED BY <1>1, <1>5, <1>10, <2>1, IdsAreFinite DEF Available, InkTyped
  <1>14. new \in Versions /\ new.root = root /\ new.parents = heads
    <2>1. heads \subseteq 1 .. MaxVersions
      BY <1>1, <1>12, InkAssumption DEF InkTyped, Ids
    <2> QED BY <1>7, <1>13, <2>1 DEF Versions
  <1>15. /\ n = Len(versions) + 1 /\ n \in 1 .. MaxVersions
         /\ versions' \in Seq(Versions) /\ Len(versions') = n
         /\ Ids' = Ids \union {n} /\ n \notin Ids /\ versions'[n] = new
         /\ \A v \in Ids : versions'[v] = versions[v]
         /\ \A v \in Ids : v < n
    <2>1. versions \in Seq(Versions) /\ Len(versions) \in Nat BY <1>1 DEF InkTyped
    <2> QED BY <1>6, <1>10, <1>14, <2>1, InkAssumption DEF Ids
  <1>16. /\ q \in InkPages /\ q.history = <<root>> /\ q.cursor = 1 /\ q.base = n
         /\ q.dirty = page[t].dirty
    <2>1. <<root>> \in Seq(Roots) BY <1>13
    <2>2. PICK one \in Seq(Roots) : one = <<root>> BY <2>1
    <2>3. PICK H \in Seq(Roots), c \in Nat, b1 \in BOOLEAN, b2 \in BOOLEAN, b3 \in BOOLEAN,
               v \in 0 .. MaxVersions :
            page[t] = [history |-> H, cursor |-> c, dirty |-> b1, requested |-> b2,
                       editing |-> b3, base |-> v]
      BY <1>1 DEF InkPages
    <2>4. q = [history |-> one, cursor |-> 1, dirty |-> b1, requested |-> b2,
               editing |-> FALSE, base |-> n]
      <3>1. PICK p : p = page[t] OBVIOUS
      <3>2. q = [p EXCEPT !.editing = FALSE, !.cursor = 1, !.history = one, !.base = n]
        BY <1>8, <2>2, <3>1
      <3>3. p = [history |-> H, cursor |-> c, dirty |-> b1, requested |-> b2,
                 editing |-> b3, base |-> v]
        BY <2>3, <3>1
      <3> HIDE <3>1
      <3> QED BY <3>2, <3>3
    <2>5. q \in InkPages BY <1>15, <2>4, InkAssumption DEF InkPages
    <2> QED BY <2>2, <2>3, <2>4, <2>5
  <1>17. /\ z \in Sessions /\ z.view # "open"
         /\ z.task = session[t].task /\ z.plan = session[t].plan
    BY <1>1, <1>9 DEF Sessions
  <1>18. page'[t] = q /\ session'[t] = z /\ known'[t] = known[t] \union {n} /\ OthersSame(t)
    BY <1>1, <1>10, <1>11 DEF OthersSame, InkTyped
  <1>19. \A v \in Ids : DOMAIN versions[v].root \subseteq drawn BY <1>1 DEF VersionsGrow
  <1>20. InkTyped'
    <2>1. page' \in [Tablets -> InkPages] /\ session' \in [Tablets -> Sessions]
      BY <1>1, <1>10, <1>11, <1>16, <1>17 DEF InkTyped
    <2>2. known' \in [Tablets -> SUBSET Ids'] BY <1>1, <1>10, <1>15 DEF InkTyped
    <2>3. graphs' \in [Tablets -> SUBSET {versions'[v].root : v \in Ids'}]
      <3>1. {versions[v].root : v \in Ids} \subseteq {versions'[v].root : v \in Ids'} BY <1>15
      <3>2. graphs \in [Tablets -> SUBSET {versions[v].root : v \in Ids}] BY <1>1 DEF InkTyped
      <3>3. PICK A : A = {versions[v].root : v \in Ids} OBVIOUS
      <3>4. PICK B : B = {versions'[v].root : v \in Ids'} OBVIOUS
      <3>5. graphs' \in [Tablets -> SUBSET B] BY <1>11, <3>1, <3>2, <3>3, <3>4
      <3> QED BY <3>4, <3>5
    <2>4. notes' \subseteq Roots
      <3>1. \A v \in keep : versions[v].root \in Roots
        BY <1>1, <1>12, IdsAreFinite DEF InkTyped
      <3> QED BY <1>1, <1>10, <3>1 DEF InkTyped
    <2>5. discarded' \subseteq drawn'
      <3>1. \A v \in heads : DOMAIN versions[v].root \subseteq drawn BY <1>12, <1>19
      <3> QED BY <1>1, <1>10, <1>11, <3>1 DEF InkTyped
    <2> QED BY <1>1, <1>11, <1>15, <2>1, <2>2, <2>3, <2>4, <2>5 DEF InkTyped
  <1>21. VersionPlaces' = VersionPlaces
    <2>1. VersionPlaces' = UNION {Range(versions'[v].root) : v \in Ids'} BY DEF VersionPlaces
    <2>2. first \in Ids /\ Range(versions'[n].root) = Range(versions[first].root)
      BY <1>5, <1>12, <1>14, <1>15
    <2> QED BY <1>15, <2>1, <2>2 DEF VersionPlaces
  <1>22. Places(page'[t]) \subseteq VersionPlaces
    <2>1. Places(q) = Range(root) BY <1>13, <1>16, OneStatePage
    <2>2. first \in Ids BY <1>12
    <2>3. Range(root) \subseteq VersionPlaces BY <1>5, <2>2 DEF VersionPlaces
    <2> QED BY <1>18, <2>1, <2>3
  <1>23. Alone(t)
    BY <1>10, <1>11, <1>15, <1>18, <1>21, <1>22 DEF Alone, OthersSame
  <1>24. VersionsGrow'
    <2> SUFFICES ASSUME NEW v \in Ids'
                 PROVE  /\ \A w \in versions'[v].parents : w < v
                        /\ DOMAIN versions'[v].root \subseteq drawn
                        /\ Range(versions'[v].root) \subseteq drawn \union Packs
      BY <1>11 DEF VersionsGrow
    <2>1. CASE v \in Ids BY <1>1, <1>15, <2>1 DEF VersionsGrow
    <2>2. CASE v = n
      <3>1. first \in Ids BY <1>12
      <3> QED BY <1>1, <1>5, <1>12, <1>14, <1>15, <2>2, <3>1 DEF VersionsGrow
    <2> QED BY <1>15, <2>1, <2>2
  <1>25. \A w \in Ids : n \notin versions[w].parents
    <2> SUFFICES ASSUME NEW w \in Ids, n \in versions[w].parents PROVE FALSE OBVIOUS
    <2>1. n < w /\ w < n BY <1>1, <1>15 DEF VersionsGrow
    <2>2. w \in Nat BY <1>1, IdsAreFinite DEF InkTyped
    <2> QED BY <1>15, <2>1, <2>2
  <1>26. n \notin heads BY <1>12, <1>15
  <1>27. TabletOk(t)'
    <2>1. GraphsAreSealed(t)' BY <1>1, <1>11 DEF TabletOk, GraphsAreSealed
    <2>2. /\ n \in Ids' /\ page'[t].history = <<versions'[n].root>> /\ page'[t].cursor = 1
          /\ page'[t].base = n /\ versions'[n].root \in graphs'[t]
          /\ session'[t].view # "open" /\ session'[t].task = session[t].task
          /\ session'[t].plan = session[t].plan /\ VersionPlaces' \subseteq VersionPlaces
          /\ ~page'[t].dirty
      BY <1>3, <1>11, <1>13, <1>14, <1>15, <1>16, <1>17, <1>18, <1>21
    <2> QED BY <1>1, <1>20, <1>23, <1>24, <2>1, <2>2, TakenTablet
  <1>28. StillOffered'
    <2> SUFFICES ASSUME NEW v \in Ids', NEW s \in DOMAIN versions'[v].root \ discarded'
                 PROVE  \/ \E h \in Heads(Ids)' : s \in DOMAIN versions'[h].root
                        \/ \E r \in notes' : s \in DOMAIN r
      BY DEF StillOffered
    <2>1. n \in Heads(Ids)' BY <1>14, <1>15, <1>25, <1>26 DEF Heads
    <2>2. \A h \in Heads(Ids) : h \notin heads => h \in Heads(Ids)'
      BY <1>14, <1>15 DEF Heads
    <2>3. \A u \in keep : s \in DOMAIN versions[u].root =>
             s \in DOMAIN versions'[n].root \/ \E r \in notes' : s \in DOMAIN r
      BY <1>5, <1>10, <1>14, <1>15
    <2>4. ASSUME NEW u \in heads, s \in DOMAIN versions[u].root
          PROVE  s \in DOMAIN versions'[n].root \/ \E r \in notes' : s \in DOMAIN r
      <3>1. CASE u \in keep BY <2>3, <2>4, <3>1
      <3>2. CASE u \notin keep
        <4>1. s \in UNION {DOMAIN versions[w].root : w \in heads \ keep} BY <2>4, <3>2
        <4>2. s \in UNION {DOMAIN versions[w].root : w \in keep} BY <1>10, <4>1
        <4> QED BY <2>3, <4>2
      <3> QED BY <3>1, <3>2
    <2>5. CASE v = n BY <2>1, <2>5
    <2>6. CASE v \in Ids
      <3>1. s \in DOMAIN versions[v].root \ discarded BY <1>10, <1>15, <2>6
      <3>2. CASE \E r \in notes : s \in DOMAIN r BY <1>10, <3>2
      <3>3. CASE \E h \in Heads(Ids) : s \in DOMAIN versions[h].root
        <4>1. PICK h \in Heads(Ids) : s \in DOMAIN versions[h].root BY <3>3
        <4>2. h \in Ids BY DEF Heads
        <4>3. CASE h \in heads BY <2>1, <2>4, <4>1, <4>3
        <4>4. CASE h \notin heads BY <1>15, <2>2, <4>1, <4>2, <4>4
        <4> QED BY <4>3, <4>4
      <3> QED BY <2>6, <3>1, <3>2, <3>3 DEF InkInv, StillOffered
    <2> QED BY <1>15, <2>5, <2>6
  <1>29. StillSomewhere'
    <2>1. \A s \in drawn' \ discarded' :
             ~(s \notin drawn \/ (page[t].dirty /\ s \in DOMAIN Current(page[t])))
      BY <1>3, <1>11
    <2> QED BY <1>10, <1>20, <1>23, <2>1, SomewhereKept DEF InkInv
  <1>30. Quiet(t)'
    <2>1. PICK K : K = known[t] \union {n} OBVIOUS
    <2>2. known'[t] = K BY <1>18, <2>1
    <2>3. \A v \in known[t] : v \in heads \/ \E w \in known[t] : v \in versions[w].parents
      BY <1>2 DEF Heads
    <2>4. \A v \in known[t] : versions'[v] = versions[v] BY <1>12, <1>15
    <2>5. \A v \in known[t] : \E w \in K : v \in versions'[w].parents
      BY <1>14, <1>15, <2>1, <2>3, <2>4
    <2>6. \A w \in K : n \notin versions'[w].parents
      BY <1>12, <1>14, <1>15, <1>25, <1>26, <2>1
    <2>7. Heads(known[t])' = {v \in K : \A w \in K : v \notin versions'[w].parents}
      BY <2>2 DEF Heads
    <2>8. n \in Heads(known[t])' BY <2>1, <2>6, <2>7
    <2> QED BY <1>16, <1>18, <2>8 DEF Quiet
  <1> QED BY <1>20, <1>23, <1>24, <1>27, <1>28, <1>29, <1>30, ProgressIsEnough DEF Progress

----------------------------------------------------------------------------
(* What holds in every state *)

\* The invariant holds at the start.
LEMMA InkStarts == InkInit => InkInv
  <1> SUFFICES ASSUME InkInit PROVE InkInv OBVIOUS
  <1> DEFINE blank == [history |-> <<>>, cursor |-> 0, dirty |-> FALSE,
                       requested |-> FALSE, editing |-> FALSE, base |-> 0]
             first == [view |-> "closed", sees |-> {}, dialog |-> {},
                       wanted |-> FALSE, task |-> "idle", plan |-> NoPlan]
  <1>1. blank \in InkPages /\ first \in Sessions
    <2>1. PICK empty : empty = <<>> OBVIOUS
    <2>2. empty \in Seq(Roots) BY <2>1
    <2>3. NoPlan \in [at : SUBSET Strokes, from : Roots] BY BlankFacts DEF NoPlan
    <2>4. [history |-> empty, cursor |-> 0, dirty |-> FALSE,
           requested |-> FALSE, editing |-> FALSE, base |-> 0] \in InkPages
      BY <2>2, InkAssumption DEF InkPages
    <2> QED BY <2>1, <2>3, <2>4 DEF Sessions
  <1>2. /\ page = [t \in Tablets |-> blank] /\ session = [t \in Tablets |-> first]
        /\ versions = <<>> /\ notes = {} /\ drawn = {} /\ discarded = {} /\ torn = {}
        /\ known = [t \in Tablets |-> {}] /\ graphs = [t \in Tablets |-> {}]
        /\ sealed = [t \in Tablets |-> {}] /\ turns = 0
    BY DEF InkInit
  <1>3. blank.history = <<>> /\ ~blank.dirty /\ blank.base = 0 BY DEF blank
  <1>4. first.view = "closed" /\ first.task = "idle" BY DEF first
  <1> HIDE DEF blank, first
  <1>5. Ids = {} BY <1>2 DEF Ids
  <1>6. InkTyped BY <1>1, <1>2, <1>5, InkAssumption DEF InkTyped
  <1>7. States(blank) = {} /\ Places(blank) = {} /\ ~HasRoot(blank)
    <2>1. DOMAIN blank.history = {} BY <1>3
    <2>2. States(blank) = {} BY <2>1 DEF States, Range
    <2> QED BY <1>3, <2>2 DEF Places, HasRoot
  <1>8. \A t \in Tablets : TabletOk(t)
    <2> TAKE t \in Tablets
    <2>1. page[t] = blank /\ session[t] = first /\ graphs[t] = {} BY <1>2
    <2> QED BY <1>3, <1>4, <1>7, <2>1 DEF TabletOk, PointsInside, BaseIsHere, OnePlace,
            SeesCurrent, FollowsBase, CleanIsBase, GraphsAreSealed, FreshIsOwn, PlanIsOwn,
            DrawnBefore
  <1>9. VersionsGrow /\ StillOffered /\ StillSomewhere
    BY <1>2, <1>5 DEF VersionsGrow, StillOffered, StillSomewhere
  <1>10. QuietPageIsCurrent
    <2>1. \A t \in Tablets : Heads(known[t]) = {} BY <1>2 DEF Heads
    <2> QED BY <2>1, FS_EmptySet DEF QuietPageIsCurrent
  <1> QED BY <1>6, <1>8, <1>9, <1>10 DEF InkInv

\* It holds when nothing happens.
LEMMA InkStands == ASSUME InkInv, UNCHANGED inkVars PROVE InkInv'
  <1>1. UNCHANGED <<page, versions, notes, known, graphs, sealed, session, drawn, discarded,
                    turns, torn>>
    BY DEF inkVars
  <1>2. Ids' = Ids /\ VersionPlaces' = VersionPlaces BY <1>1, VersionPlacesStay
  <1>3. InkTyped' BY <1>1, <1>2 DEF InkInv, InkTyped
  <1>4. \A t \in Tablets : \A c : Own(t, c)' <=> Own(t, c) BY <1>1, <1>2 DEF Own
  <1>5. \A t \in Tablets : TabletOk(t)'
    <2> TAKE t \in Tablets
    <2>1. TabletOk(t) BY DEF InkInv
    <2>2. PointsInside(t)' /\ BaseIsHere(t)' /\ OnePlace(t)' /\ SeesCurrent(t)'
      BY <1>1, <1>2, <2>1 DEF TabletOk, PointsInside, BaseIsHere, OnePlace, SeesCurrent
    <2>3. FollowsBase(t)' /\ CleanIsBase(t)' /\ GraphsAreSealed(t)' /\ DrawnBefore(t)'
      BY <1>1, <1>2, <2>1 DEF TabletOk, FollowsBase, CleanIsBase, GraphsAreSealed, DrawnBefore
    <2>4. FreshIsOwn(t)' /\ PlanIsOwn(t)'
      BY <1>1, <1>4, <2>1 DEF TabletOk, FreshIsOwn, PlanIsOwn
    <2> QED BY <2>2, <2>3, <2>4 DEF TabletOk
  <1>6. VersionsGrow' /\ StillOffered' BY <1>1, GrowStays, OfferedStays DEF InkInv
  <1>7. StillSomewhere' BY <1>1, <1>2 DEF InkInv, StillSomewhere
  <1>8. QuietPageIsCurrent'
    <2>1. \A K : Heads(K)' = Heads(K) BY <1>1 DEF Heads
    <2> QED BY <1>1 DEF InkInv, QuietPageIsCurrent, Heads, Available
  <1> QED BY <1>3, <1>5, <1>6, <1>7, <1>8 DEF InkInv

\* It holds after every step.
LEMMA InkSteps == ASSUME InkInv, NEW t \in Tablets, TabletStep(t) PROVE InkInv'
  BY ReceiveVersionStep, StageGraphStep, OpenEditorStep, DrawStep, EraseStep, NavigateStep,
     StartPackingStep, FinishPackingStep, AskCompletionStep, PublishVersionStep,
     CloseEditorStep, FailCloseStep, FailCompletionStep, CutStep, LookAtHeadsStep, ResolveStep
  DEF TabletStep

\* The inductive invariant: what each tablet holds fits its versions (TabletOk),
\* versions only name older ones (VersionsGrow), and no stroke is lost on the way
\* from a page to a version and from a version to a head (StillSomewhere,
\* StillOffered).
THEOREM InkHolds == InkSpec => []InkInv
  <1>1. InkInv /\ [InkNext]_inkVars => InkInv' BY InkSteps, InkStands DEF InkNext
  <1> QED BY <1>1, InkStarts, PTL DEF InkSpec

\* The type of every part of the state.
THEOREM InkTypeHolds == InkSpec => []InkTypeOK
  <1>1. InkInv => InkTypeOK
    BY DEF InkInv, InkTyped, InkTypeOK, TabletOk, PointsInside
  <1> QED BY <1>1, InkHolds, PTL

\* Nothing that arrives, is packed, published or resolved loses a stroke nobody
\* erased, undid or chose to drop.
THEOREM NoStrokeIsEverLost == InkSpec => []NoStrokeLost
  <1>1. InkInv => NoStrokeLost
    <2> SUFFICES ASSUME InkInv, NEW s \in drawn \ discarded
                 PROVE  \/ \E v \in Heads(Ids) : s \in DOMAIN versions[v].root
                        \/ \E root \in notes : s \in DOMAIN root
                        \/ \E t \in Tablets : page[t].dirty /\ s \in DOMAIN Current(page[t])
      BY DEF NoStrokeLost
    <2> QED BY DEF InkInv, StillSomewhere, StillOffered
  <1> QED BY <1>1, InkHolds, PTL

\* A page without unpublished work shows its base, chunk by chunk.
THEOREM CleanPagesShowTheirBase == InkSpec => []CleanShowsBase
  <1>1. InkInv => CleanShowsBase BY DEF InkInv, TabletOk, CleanIsBase, CleanShowsBase
  <1> QED BY <1>1, InkHolds, PTL

\* A page nobody works on shows the only head its device has.
THEOREM QuietPagesAreCurrent == InkSpec => []QuietPageIsCurrent
  <1>1. InkInv => QuietPageIsCurrent BY DEF InkInv
  <1> QED BY <1>1, InkHolds, PTL
=============================================================================
