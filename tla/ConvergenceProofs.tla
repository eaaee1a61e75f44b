------------------------- MODULE ConvergenceProofs -------------------------
(***************************************************************************)
(* Every replica is consistent, its blocks are a forest, nothing that is   *)
(* exchanged is refused, and replicas that have exchanged everything       *)
(* agree, in every state of Convergence, for every set of devices, pages   *)
(* and blocks, every choice of commands, any number of operations and any  *)
(* stamps.                                                                 *)
(*                                                                         *)
(* One operation keeps a database consistent (EngineProofs); a batch is a  *)
(* recursive function over its operations, so that it does too             *)
(* (Induction); and everything that is ever applied is an operation: what  *)
(* a command wrote, or what an undo or a redo takes from the history.      *)
(*                                                                         *)
(* An operation is refused only for a page the replica has never heard of, *)
(* and a replica never forgets an object; what each operation needs was    *)
(* made known before it, in the log or in the outbox that holds it.        *)
(*                                                                         *)
(* What a replica shows is a function of the set of the operations it has  *)
(* applied, as far as the order cannot matter: Shows, one clause per field *)
(* of a database.  A transaction extends that set by its operations        *)
(* (BatchShows), a settled device has the set of the server, and two       *)
(* databases that show the same operations agree on what was created once. *)
(***************************************************************************)
EXTENDS Convergence, EngineProofs

Sound   == {db \in Databases : Consistent(db)}
Batches == [ok : BOOLEAN, db : Sound]

\* What a transaction leaves behind: its last act is the repair of the tree.
Repaired == {ReconcileStructure(db) : db \in Sound}

LEMMA RepairedIsSound == Repaired \subseteq Sound
  <1> SUFFICES ASSUME NEW db \in Sound PROVE ReconcileStructure(db) \in Sound BY DEF Repaired
  <1>1. db \in Databases /\ Consistent(db) BY DEF Sound
  <1> QED BY <1>1, ReconcileKeepsConsistency DEF Sound

-----------------------------------------------------------------------------
(* A batch *)

LEMMA ApplyNextKeeps ==
  ASSUME NEW batch \in Batches, NEW op \in Operations
  PROVE  ApplyNext(batch, op) \in Batches
  <1>1. batch.db \in Databases /\ Consistent(batch.db) BY DEF Batches, Sound
  <1>2. op.kind \in Kinds /\ op.at \in Stamp BY DEF Operations, Stamp
  <1>3. CASE batch.ok /\ ~Refuses(batch.db, op)
    <2>1. Apply(batch.db, op) \in Sound BY <1>1, <1>2, <1>3, ApplyKeepsConsistency DEF Sound
    <2> QED BY <1>3, <2>1 DEF ApplyNext, Batches
  <1>4. CASE ~(batch.ok /\ ~Refuses(batch.db, op))
    <2>1. ApplyNext(batch, op) = [batch EXCEPT !.ok = FALSE] BY <1>4 DEF ApplyNext
    <2> QED BY <2>1 DEF Batches
  <1> QED BY <1>3, <1>4

\* One operation of a batch that skips those in known.
Stepped(batch, known, op) == IF op \in known THEN batch ELSE ApplyNext(batch, op)

\* f is what a batch went through: f[i] is where its first i operations led.
Leads(f, db, known, ops) ==
  /\ f \in [0..Len(ops) -> Batches]
  /\ f[0] = [ok |-> TRUE, db |-> db]
  /\ \A i \in 1..Len(ops) : f[i] = Stepped(f[i-1], known, ops[i])

LEMMA BatchLeads ==
  ASSUME NEW db \in Sound, NEW known, NEW ops \in Seq(Operations)
  PROVE  \E f : /\ Leads(f, db, known, ops)
                /\ ApplyUnknown(db, known, ops) = [ok |-> f[Len(ops)].ok,
                                                   db |-> ReconcileStructure(f[Len(ops)].db)]
  <1> DEFINE n       == Len(ops)
             first   == [ok |-> TRUE, db |-> db]
             step(b, i) == Stepped(b, known, ops[i])
             row(f)  == [i \in 0..n |-> IF i = 0 THEN first ELSE IF ops[i] \in known THEN f[i-1]
                                                                 ELSE ApplyNext(f[i-1], ops[i])]
             after   == CHOOSE f : f = row(f)
             G       == [i \in 1..n |-> [b \in Batches |-> step(b, i)]]
  <1>1. n \in Nat /\ first \in Batches BY DEF Batches
  <1>2. ASSUME NEW b \in Batches, NEW i \in 1..n PROVE step(b, i) \in Batches
    <2>1. ops[i] \in Operations OBVIOUS
    <2> QED BY <2>1, ApplyNextKeeps DEF Stepped
  <1>3. \E f : f = row(f)
    <2>1. G \in [1..n -> [Batches -> Batches]]
      <3> HIDE DEF step
      <3> QED BY <1>2
    <2>2. PICK f \in [0..n -> Batches] : f[0] = first /\ \A i \in 1..n : f[i] = G[i][f[i-1]]
      <3>1. n \in Nat /\ first \in Batches BY <1>1
      <3> HIDE DEF first, G, n
      <3>2. \E f \in [0..n -> Batches] : Follows(f, n, first, G)
        BY <2>1, <3>1, RecursionExists
      <3> QED BY <3>2 DEF Follows
    <2>3. ASSUME NEW i \in 0..n PROVE f[i] = row(f)[i]
      <3>1. CASE i = 0 BY <2>2, <3>1
      <3>2. CASE i # 0
        <4>1. i \in 1..n /\ i - 1 \in 0..n BY <3>2, <1>1
        <4>2. f[i-1] \in Batches BY <2>2, <4>1
        <4>3. f[i] = step(f[i-1], i)
          <5> HIDE DEF step
          <5> QED BY <2>2, <4>1, <4>2
        <4> QED BY <3>2, <4>3 DEF Stepped
      <3> QED BY <3>1, <3>2
    <2>4. f = row(f)
      <3>1. f = [i \in 0..n |-> f[i]] BY <2>2
      <3> QED BY <2>3, <3>1
    <2> QED BY <2>4
  <1>4. after = row(after) BY <1>3
  <1> HIDE DEF after
  <1>5. after[0] = first BY <1>1, <1>4
  <1>6. ASSUME NEW i \in 1..n PROVE after[i] = step(after[i-1], i)
    <2>1. i \in 0..n /\ i # 0 BY <1>1
    <2> QED BY <1>4, <2>1 DEF Stepped
  <1> DEFINE typed == {i \in 0..n : after[i] \in Batches}
  <1>7. \A i \in 1..n : i - 1 \in typed => i \in typed
    <2> SUFFICES ASSUME NEW i \in 1..n, after[i-1] \in Batches PROVE after[i] \in Batches
      OBVIOUS
    <2> HIDE DEF step
    <2> QED BY <1>2, <1>6
  <1>8. 0 \in typed BY <1>1, <1>5
  <1>9. 0..n \subseteq typed
    <2> HIDE DEF typed, n
    <2> QED BY <1>1, <1>7, <1>8, PlacesAreInductive
  <1>10. after \in [0..n -> Batches]
    <2>1. after = [i \in 0..n |-> after[i]] BY <1>4
    <2>2. \A i \in 0..n : after[i] \in Batches BY <1>9
    <2> QED BY <2>1, <2>2
  <1>11. ApplyUnknown(db, known, ops) = [ok |-> after[n].ok, db |-> ReconcileStructure(after[n].db)]
    BY DEF ApplyUnknown, after
  <1>12. Leads(after, db, known, ops) BY <1>5, <1>6, <1>10 DEF Leads
  <1> QED BY <1>11, <1>12

\* A transaction repairs a consistent database last, whatever it skips.
LEMMA BatchKeeps ==
  ASSUME NEW db \in Sound, NEW known, NEW ops \in Seq(Operations)
  PROVE  ApplyUnknown(db, known, ops).db \in Repaired
  <1>1. PICK f : /\ Leads(f, db, known, ops)
                 /\ ApplyUnknown(db, known, ops) = [ok |-> f[Len(ops)].ok,
                                                    db |-> ReconcileStructure(f[Len(ops)].db)]
    BY BatchLeads
  <1>2. Len(ops) \in 0..Len(ops) OBVIOUS
  <1>3. f[Len(ops)] \in Batches BY <1>1, <1>2 DEF Leads
  <1>4. f[Len(ops)].db \in Sound BY <1>3 DEF Batches
  <1> QED BY <1>1, <1>4 DEF Repaired

-----------------------------------------------------------------------------
(* What a batch shows, and when none of it is refused *)

\* The first m operations of a row.
Rows(s, m) == {s[i] : i \in 1..m}

LEMMA AllRows ==
  ASSUME NEW S, NEW s \in Seq(S)
  PROVE  /\ ToSet(s) = Rows(s, Len(s)) /\ ToSet(s) \subseteq S
         /\ \A m \in 0..Len(s) : Rows(s, m) \subseteq ToSet(s)
         /\ \A i \in 1..Len(s) : s[i] \in ToSet(s)
  <1>1. Len(s) \in Nat /\ DOMAIN s = 1..Len(s) /\ \A i \in 1..Len(s) : s[i] \in S OBVIOUS
  <1> QED BY <1>1 DEF ToSet, Rows

LEMMA NoRows == ASSUME NEW s PROVE Rows(s, 0) = {}
  <1>1. 1..0 = {} OBVIOUS
  <1> QED BY <1>1 DEF Rows

LEMMA OneMoreRow == ASSUME NEW s, NEW i \in Nat \ {0} PROVE Rows(s, i) = Rows(s, i - 1) \cup {s[i]}
  <1>1. 1..i = (1..(i-1)) \cup {i} OBVIOUS
  <1> QED BY <1>1 DEF Rows

\* Two rows, one after the other.
LEMMA JoinedRows ==
  ASSUME NEW S, NEW s \in Seq(S), NEW t \in Seq(S)
  PROVE  /\ Len(s) \in Nat /\ Len(t) \in Nat /\ Len(s \o t) = Len(s) + Len(t) /\ s \o t \in Seq(S)
         /\ \A i \in 1..Len(s) : (s \o t)[i] = s[i]
         /\ \A i \in 1..Len(t) : (s \o t)[Len(s) + i] = t[i]
  OBVIOUS

LEMMA RowsInRows ==
  ASSUME NEW S, NEW s \in Seq(S), NEW t \in Seq(S)
  PROVE  /\ ToSet(s \o t) = ToSet(s) \cup ToSet(t)
         /\ \A m \in 0..Len(s) : Rows(s \o t, m) = Rows(s, m)
         /\ \A m \in 0..Len(t) : Rows(s \o t, Len(s) + m) = ToSet(s) \cup Rows(t, m)
  <1> DEFINE both == s \o t
  <1>1. /\ Len(s) \in Nat /\ Len(t) \in Nat /\ Len(both) = Len(s) + Len(t) /\ both \in Seq(S)
        /\ \A i \in 1..Len(s) : both[i] = s[i]
        /\ \A i \in 1..Len(t) : both[Len(s) + i] = t[i]
    OBVIOUS
  <1> HIDE DEF both
  <1>2. ASSUME NEW m \in 0..Len(s) PROVE Rows(both, m) = Rows(s, m)
    <2>1. \A i \in 1..m : both[i] = s[i] BY <1>1
    <2> QED BY <2>1 DEF Rows
  <1>3. ASSUME NEW m \in 0..Len(t) PROVE Rows(both, Len(s) + m) = Rows(s, Len(s)) \cup Rows(t, m)
    <2>1. ASSUME NEW x \in Rows(both, Len(s) + m) PROVE x \in Rows(s, Len(s)) \cup Rows(t, m)
      <3>1. PICK i \in 1..(Len(s) + m) : x = both[i] BY DEF Rows
      <3>2. CASE i \in 1..Len(s) BY <1>1, <3>1, <3>2 DEF Rows
      <3>3. CASE i \notin 1..Len(s)
        <4>1. i - Len(s) \in 1..m /\ i - Len(s) \in 1..Len(t) /\ Len(s) + (i - Len(s)) = i
          BY <1>1, <3>3
        <4>2. both[i] = t[i - Len(s)] BY <1>1, <4>1
        <4> QED BY <3>1, <4>1, <4>2 DEF Rows
      <3> QED BY <3>2, <3>3
    <2>2. Rows(s, Len(s)) \subseteq Rows(both, Len(s) + m)
      <3>1. 1..Len(s) \subseteq 1..(Len(s) + m) BY <1>1
      <3> QED BY <1>1, <3>1 DEF Rows
    <2>3. Rows(t, m) \subseteq Rows(both, Len(s) + m)
      <3> SUFFICES ASSUME NEW i \in 1..m PROVE t[i] \in Rows(both, Len(s) + m) BY DEF Rows
      <3>1. Len(s) + i \in 1..(Len(s) + m) /\ i \in 1..Len(t) BY <1>1
      <3>2. both[Len(s) + i] = t[i] BY <1>1, <3>1
      <3> QED BY <3>1, <3>2 DEF Rows
    <2> QED BY <2>1, <2>2, <2>3
  <1>4. ToSet(s) = Rows(s, Len(s)) /\ ToSet(t) = Rows(t, Len(t)) /\ ToSet(both) = Rows(both, Len(both))
    BY <1>1, AllRows
  <1>5. Rows(both, Len(s) + Len(t)) = Rows(s, Len(s)) \cup Rows(t, Len(t)) BY <1>1, <1>3
  <1> QED BY <1>1, <1>2, <1>3, <1>4, <1>5 DEF both

LEMMA GroundsGrow ==
  ASSUME NEW A, NEW B, A \subseteq B, NEW x, Grounds(A, x)
  PROVE  Grounds(B, x)
  BY DEF Grounds

\* A batch fits a replica that has applied A if it knows some of these, and each of
\* the others is new and needs what was made before it, in A or in the batch.
Fits(A, known, ops) ==
  /\ known \subseteq A
  /\ \A i \in 1..Len(ops) : ops[i] \notin known =>
       /\ ops[i] \notin A \cup Rows(ops, i - 1)
       /\ Grounds(A \cup Rows(ops, i - 1), ops[i])

\* None of such a batch is refused, and the replica shows all of it afterwards.
LEMMA BatchShows ==
  ASSUME NEW db \in Sound, NEW A, Shows(db, A), Past(A), NEW known, NEW ops \in Seq(Operations),
         Fits(A, known, ops)
  PROVE  LET after == ApplyUnknown(db, known, ops)
         IN  /\ after.ok /\ after.db \in Repaired
             /\ Shows(after.db, A \cup ToSet(ops)) /\ Past(A \cup ToSet(ops))
  <1> DEFINE n     == Len(ops)
             after == ApplyUnknown(db, known, ops)
  <1>1. PICK f : /\ Leads(f, db, known, ops)
                 /\ after = [ok |-> f[n].ok, db |-> ReconcileStructure(f[n].db)]
    BY BatchLeads
  <1> HIDE DEF after
  <1> DEFINE shown(i) == Shows(f[i].db, A \cup Rows(ops, i)) /\ Past(A \cup Rows(ops, i))
             S == {i \in 0..n : f[i].ok /\ shown(i)}
  <1>2. n \in Nat OBVIOUS
  <1>3. 0 \in S
    <2>1. f[0].ok /\ f[0].db = db BY <1>1 DEF Leads
    <2>2. A \cup Rows(ops, 0) = A BY NoRows
    <2>3. shown(0) BY <2>1, <2>2, Zenon
    <2>4. 0 \in 0..n BY <1>2
    <2> HIDE DEF shown
    <2> QED BY <2>1, <2>3, <2>4
  <1>4. ASSUME NEW i \in 1..n, i - 1 \in S PROVE i \in S
    <2> DEFINE B == A \cup Rows(ops, i - 1)
               x == ops[i]
    <2>1. /\ f[i-1] \in Batches /\ f[i-1].ok /\ Shows(f[i-1].db, B) /\ Past(B)
          /\ f[i] = Stepped(f[i-1], known, x)
      BY <1>1, <1>4 DEF Leads
    <2>2. A \cup Rows(ops, i) = B \cup {x} BY OneMoreRow
    <2>3. CASE x \in known
      <3>1. x \in A BY <2>3 DEF Fits
      <3>2. B \cup {x} = B BY <3>1
      <3>3. f[i] = f[i-1] BY <2>1, <2>3 DEF Stepped
      <3>4. shown(i) /\ f[i].ok
        <4> HIDE DEF B, x
        <4> QED BY <2>1, <2>2, <3>2, <3>3
      <3> HIDE DEF shown
      <3> QED BY <3>4
    <2>4. CASE x \notin known
      <3>1. x \notin B /\ Grounds(B, x) BY <2>4 DEF Fits
      <3>2. x.at \in Stamp /\ x.kind \in Kinds
        <4>1. x \in Operations OBVIOUS
        <4> QED BY <4>1 DEF Operations, Stamp
      <3>3. Joins(B, x) BY <3>1, <3>2 DEF Joins
      <3>4. f[i-1].db \in Databases BY <2>1 DEF Batches, Sound
      <3> HIDE DEF B, x
      <3>5. /\ ~Refuses(f[i-1].db, x)
            /\ Shows(Apply(f[i-1].db, x), B \cup {x}) /\ Past(B \cup {x})
        BY <2>1, <3>3, <3>4, ApplyShows
      <3>6. f[i] = [ok |-> TRUE, db |-> Apply(f[i-1].db, x)]
        BY <2>1, <2>4, <3>5 DEF Stepped, ApplyNext
      <3>7. f[i].ok /\ f[i].db = Apply(f[i-1].db, x) BY <3>6
      <3>8. shown(i) BY <2>2, <3>5, <3>7
      <3> HIDE DEF shown
      <3> QED BY <3>7, <3>8
    <2> QED BY <2>3, <2>4
  <1>5. 0..n \subseteq S
    <2> HIDE DEF S, n
    <2> QED BY <1>2, <1>3, <1>4, PlacesAreInductive
  <1>6. n \in S /\ ToSet(ops) = Rows(ops, n)
    <2>1. n \in 0..n BY <1>2
    <2>2. ToSet(ops) = Rows(ops, n) BY AllRows
    <2> HIDE DEF S, n
    <2> QED BY <1>5, <2>1, <2>2
  <1>7. f[n] \in Batches BY <1>1, <1>2 DEF Leads
  <1>8. f[n].db \in Sound /\ f[n].db \in Databases BY <1>7 DEF Batches, Sound
  <1> HIDE DEF n
  <1>9. Shows(f[n].db, A \cup ToSet(ops)) /\ Past(A \cup ToSet(ops)) /\ f[n].ok BY <1>6
  <1>10. Shows(ReconcileStructure(f[n].db), A \cup ToSet(ops)) BY <1>8, <1>9, ReconcileShows
  <1>11. ReconcileStructure(f[n].db) \in Repaired BY <1>8 DEF Repaired
  <1> QED BY <1>1, <1>9, <1>10, <1>11 DEF after

-----------------------------------------------------------------------------
(* What commands, undo and redo write are operations *)

\* What a replica that has heard of H may write: of an object it has not heard of
\* only once an operation before it makes the object.
Sayable(H) == {k \in Kinds : Needs(k) \subseteq H}
Sayings(H) == {s \in Seq(Kinds) : /\ s # <<>>
                                  /\ \A i \in 1..Len(s) :
                                       Needs(s[i]) \subseteq H \cup UNION {Makes(s[j]) : j \in 1..(i-1)}}

LEMMA SayableKinds ==
  ASSUME NEW H
  PROVE  /\ \A p \in Pages, t \in Titles \cup {None} :
              /\ PageCreates(p, t) \in Sayable(H)
              /\ PageSetsTitle(p, t) \in Sayable(H) <=> p \in H
         /\ \A p \in Pages : PageDeletes(p) \in Sayable(H) <=> p \in H
         /\ \A b \in Blocks : BlockSetsMarkdown(b) \in Sayable(H) <=> b \in H
         /\ \A b \in Blocks : BlockDeletes(b) \in Sayable(H) <=> b \in H /\ PageOf[b] \in H
         /\ \A b \in Blocks : \A u \in PlacesOf(b) :
              /\ BlockMoves(b, u) \in Sayable(H) <=> b \in H /\ (u # None => u \in H)
              /\ BlockCreates(b, u) \in Sayable(H) <=> PageOf[b] \in H /\ (u # None => u \in H)
  <1>0. \A k \in Kinds : k \in Sayable(H) <=> Needs(k) \subseteq H BY DEF Sayable
  <1>1. ASSUME NEW p \in Pages, NEW t \in Titles \cup {None}
        PROVE  /\ PageCreates(p, t) \in Sayable(H)
               /\ PageSetsTitle(p, t) \in Sayable(H) <=> p \in H
    <2>1. PageCreates(p, t) \in Kinds /\ PageSetsTitle(p, t) \in Kinds BY DEF Kinds
    <2>2. Needs(PageCreates(p, t)) = {} /\ Needs(PageSetsTitle(p, t)) = {p} BY MakesAndNeeds
    <2> QED BY <1>0, <2>1, <2>2
  <1>2. ASSUME NEW p \in Pages PROVE PageDeletes(p) \in Sayable(H) <=> p \in H
    <2>1. PageDeletes(p) \in Kinds BY DEF Kinds
    <2>2. Needs(PageDeletes(p)) = {p} BY MakesAndNeeds
    <2> QED BY <1>0, <2>1, <2>2
  <1>3. ASSUME NEW b \in Blocks
        PROVE  /\ BlockSetsMarkdown(b) \in Sayable(H) <=> b \in H
               /\ BlockDeletes(b) \in Sayable(H) <=> b \in H /\ PageOf[b] \in H
    <2>1. BlockSetsMarkdown(b) \in Kinds /\ BlockDeletes(b) \in Kinds BY DEF Kinds
    <2>2. Needs(BlockSetsMarkdown(b)) = {b} /\ Needs(BlockDeletes(b)) = {b, PageOf[b]} BY MakesAndNeeds
    <2> QED BY <1>0, <2>1, <2>2
  <1>4. ASSUME NEW b \in Blocks, NEW u \in PlacesOf(b)
        PROVE  /\ BlockMoves(b, u) \in Sayable(H) <=> b \in H /\ (u # None => u \in H)
               /\ BlockCreates(b, u) \in Sayable(H) <=> PageOf[b] \in H /\ (u # None => u \in H)
    <2>1. u \in Blocks \cup {None} BY DEF PlacesOf
    <2>2. BlockMoves(b, u) \in Kinds /\ BlockCreates(b, u) \in Kinds BY DEF Kinds
    <2>3. /\ Needs(BlockMoves(b, u)) = {b} \cup ({u} \ {None})
          /\ Needs(BlockCreates(b, u)) = {PageOf[b]} \cup ({u} \ {None})
      BY <2>1, MakesAndNeeds
    <2> QED BY <1>0, <2>2, <2>3
  <1> QED BY <1>1, <1>2, <1>3, <1>4

LEMMA SayableGrows ==
  ASSUME NEW H, NEW J, H \subseteq J
  PROVE  Sayable(H) \subseteq Sayable(J) /\ Sayings(H) \subseteq Sayings(J)
  BY DEF Sayable, Sayings

\* A row of what may be said at once may be said in turn.
LEMMA SayableIsSaying ==
  ASSUME NEW H, NEW s \in Seq(Sayable(H)), s # <<>>
  PROVE  s \in Sayings(H)
  <1>1. Sayable(H) \subseteq Kinds BY DEF Sayable
  <1>2. s \in Seq(Kinds) BY <1>1
  <1>3. ASSUME NEW i \in 1..Len(s) PROVE Needs(s[i]) \subseteq H
    <2>1. s[i] \in Sayable(H) OBVIOUS
    <2> QED BY <2>1 DEF Sayable
  <1> QED BY <1>2, <1>3 DEF Sayings

LEMMA OneOrNone == ASSUME NEW K, NEW k \in K PROVE {<<k>>, <<>>} \subseteq Seq(K)
  OBVIOUS

LEMMA OneSaying == ASSUME NEW H, NEW k \in Sayable(H) PROVE <<k>> \in Sayings(H)
  <1>1. <<k>> \in Seq(Sayable(H)) BY OneOrNone
  <1>2. <<k>> # <<>> OBVIOUS
  <1> QED BY <1>1, <1>2, SayableIsSaying

\* A replica as transactions leave it: it shows what it has applied, and a second
\* repair of its tree would change nothing.
LEMMA RepairedShows ==
  ASSUME NEW db \in Repaired, NEW A, Shows(db, A)
  PROVE  /\ db \in Databases /\ db \in Sound /\ ReconcileStructure(db) = db
         /\ Heard(db) = Made(A)
         /\ \A b \in Blocks : BlockTidy(db, b)
         /\ \A b \in Blocks : db.blocks[b].parent # None =>
              /\ db.blocks[b].parent \in PlacesOf(b) /\ db.blocks[b].parent \in Blocks
              /\ BlockExists(db, db.blocks[b].parent)
              /\ PageOf[db.blocks[b].parent] = PageOf[b]
              /\ db.blocks[b].parent \in Heard(db)
         /\ \A b \in Blocks : db.blocks[b].parent \in PlacesOf(b)
  <1>1. PICK old \in Sound : db = ReconcileStructure(old) BY DEF Repaired
  <1>2. ReconcileStructure(db) = db BY <1>1, RepairOnce DEF Sound
  <1>3. db \in Sound /\ db \in Databases BY RepairedIsSound DEF Sound
  <1>4. Heard(db) = Made(A) /\ \A b \in Blocks : BlockTidy(db, b) BY DEF Shows, BlockShown
  <1>5. \A b \in Blocks : db.blocks[b].parent # None =>
          /\ db.blocks[b].parent \in PlacesOf(b) /\ db.blocks[b].parent \in Blocks
          /\ BlockExists(db, db.blocks[b].parent)
          /\ PageOf[db.blocks[b].parent] = PageOf[b]
          /\ db.blocks[b].parent \in Heard(db)
    BY <1>2, <1>3, <1>4, ParentIsThere
  <1>6. \A b \in Blocks : None \in PlacesOf(b) BY DEF PlacesOf
  <1> QED BY <1>2, <1>3, <1>4, <1>5, <1>6

\* What undoes an operation is sayable once the operation has been applied.
LEMMA InverseOfType ==
  ASSUME NEW db \in Repaired, NEW A, Shows(db, A), NEW k \in Kinds,
         NEW H, Heard(db) \subseteq H, Needs(k) \subseteq H, Makes(k) \subseteq H
  PROVE  InverseOf(db, k) \in Seq(Sayable(H))
  <1> DEFINE known == Titles \cup {None}
  <1>0. /\ db \in Databases
        /\ \A b \in Blocks : /\ db.blocks[b].parent \in PlacesOf(b)
                             /\ db.blocks[b].parent # None => db.blocks[b].parent \in H
    BY RepairedShows
  <1>1. ASSUME NEW p \in Pages, NEW t \in known, k = PageCreates(p, t)
        PROVE  InverseOf(db, k) \in Seq(Sayable(H))
    <2>1. p \in H BY <1>1, MakesAndNeeds
    <2>2. PageDeletes(p) \in Sayable(H) BY <2>1, SayableKinds
    <2>3. InverseOf(db, k) = <<PageDeletes(p)>> BY <1>1 DEF InverseOf, PageCreates
    <2> QED BY <2>2, <2>3, OneOrNone
  <1>2. ASSUME NEW p \in Pages, NEW t \in known, k = PageSetsTitle(p, t)
        PROVE  InverseOf(db, k) \in Seq(Sayable(H))
    <2>1. p \in H BY <1>2, MakesAndNeeds
    <2>2. db.pages[p].title \in known BY <1>0 DEF Databases
    <2>3. PageSetsTitle(p, db.pages[p].title) \in Sayable(H) BY <2>1, <2>2, SayableKinds
    <2>4. InverseOf(db, k) \in {<<PageSetsTitle(p, db.pages[p].title)>>, <<>>}
      BY <1>2 DEF InverseOf, PageSetsTitle
    <2> QED BY <2>3, <2>4, OneOrNone
  <1>3. ASSUME NEW p \in Pages, k = PageDeletes(p)
        PROVE  InverseOf(db, k) \in Seq(Sayable(H))
    <2>1. db.pages[p].title \in known BY <1>0 DEF Databases
    <2>2. PageCreates(p, db.pages[p].title) \in Sayable(H) BY <2>1, SayableKinds
    <2>3. InverseOf(db, k) \in {<<PageCreates(p, db.pages[p].title)>>, <<>>}
      BY <1>3 DEF InverseOf, PageDeletes
    <2> QED BY <2>2, <2>3, OneOrNone
  <1>4. ASSUME NEW b \in Blocks, NEW u \in Blocks \cup {None}, k = BlockCreates(b, u)
        PROVE  InverseOf(db, k) \in Seq(Sayable(H))
    <2>1. b \in H /\ PageOf[b] \in H BY <1>4, MakesAndNeeds
    <2>2. BlockDeletes(b) \in Sayable(H) BY <2>1, SayableKinds
    <2>3. InverseOf(db, k) = <<BlockDeletes(b)>> BY <1>4 DEF InverseOf, BlockCreates
    <2> QED BY <2>2, <2>3, OneOrNone
  <1>5. ASSUME NEW b \in Blocks, k = BlockSetsMarkdown(b)
        PROVE  InverseOf(db, k) \in Seq(Sayable(H))
    <2>1. b \in H BY <1>5, MakesAndNeeds
    <2>2. BlockSetsMarkdown(b) \in Sayable(H) BY <2>1, SayableKinds
    <2>3. InverseOf(db, k) \in {<<BlockSetsMarkdown(b)>>, <<>>} BY <1>5 DEF InverseOf, BlockSetsMarkdown
    <2> QED BY <2>2, <2>3, OneOrNone
  <1>6. ASSUME NEW b \in Blocks, NEW u \in Blocks \cup {None}, k = BlockMoves(b, u)
        PROVE  InverseOf(db, k) \in Seq(Sayable(H))
    <2>1. b \in H BY <1>6, MakesAndNeeds
    <2>2. BlockMoves(b, db.blocks[b].parent) \in Sayable(H) BY <1>0, <2>1, SayableKinds
    <2>3. InverseOf(db, k) \in {<<BlockMoves(b, db.blocks[b].parent)>>, <<>>}
      BY <1>6 DEF InverseOf, BlockMoves
    <2> QED BY <2>2, <2>3, OneOrNone
  <1>7. ASSUME NEW b \in Blocks, k = BlockDeletes(b)
        PROVE  InverseOf(db, k) \in Seq(Sayable(H))
    <2>1. PageOf[b] \in H BY <1>7, MakesAndNeeds
    <2>2. BlockCreates(b, db.blocks[b].parent) \in Sayable(H) BY <1>0, <2>1, SayableKinds
    <2>3. InverseOf(db, k) \in {<<BlockCreates(b, db.blocks[b].parent)>>, <<>>}
      BY <1>7 DEF InverseOf, BlockDeletes
    <2> QED BY <2>2, <2>3, OneOrNone
  <1> QED BY <1>1, <1>2, <1>3, <1>4, <1>5, <1>6, <1>7, KindCases

LEMMA InverseKindsType ==
  ASSUME NEW db, NEW K, NEW L, NEW kinds \in Seq(L),
         \A i \in 1..Len(kinds) : InverseOf(db, kinds[i]) \in Seq(K)
  PROVE  InverseKinds(db, kinds) \in Seq(K)
  <1> DEFINE n       == Len(kinds)
             X       == Seq(K)
             step(s, i) == InverseOf(db, kinds[i]) \o s
             row(f)  == [i \in 0..n |-> IF i = 0 THEN <<>> ELSE InverseOf(db, kinds[i]) \o f[i-1]]
             inverse == CHOOSE f : f = row(f)
             first   == <<>>
             G       == [i \in 1..n |-> [s \in X |-> step(s, i)]]
  <1>1. n \in Nat /\ first \in X OBVIOUS
  <1>2. ASSUME NEW s \in X, NEW i \in 1..n PROVE step(s, i) \in X
    <2>1. InverseOf(db, kinds[i]) \in X OBVIOUS
    <2> QED BY <2>1
  <1>3. \E f : f = row(f)
    <2>1. G \in [1..n -> [X -> X]]
      <3> HIDE DEF step, X
      <3> QED BY <1>2
    <2>2. PICK f \in [0..n -> X] : f[0] = first /\ \A i \in 1..n : f[i] = G[i][f[i-1]]
      <3> HIDE DEF first, G, n, X
      <3>1. \E f \in [0..n -> X] : Follows(f, n, first, G) BY <1>1, <2>1, RecursionExists
      <3> QED BY <3>1 DEF Follows
    <2>3. ASSUME NEW i \in 0..n PROVE f[i] = row(f)[i]
      <3>1. CASE i = 0 BY <2>2, <3>1
      <3>2. CASE i # 0
        <4>1. i \in 1..n /\ i - 1 \in 0..n BY <3>2, <1>1
        <4>2. f[i-1] \in X BY <2>2, <4>1
        <4>3. f[i] = step(f[i-1], i)
          <5> HIDE DEF step, X
          <5> QED BY <2>2, <4>1, <4>2
        <4> QED BY <3>2, <4>3
      <3> QED BY <3>1, <3>2
    <2>4. f = row(f)
      <3>1. f = [i \in 0..n |-> f[i]] BY <2>2
      <3> QED BY <2>3, <3>1
    <2> QED BY <2>4
  <1>4. inverse = row(inverse) BY <1>3
  <1> HIDE DEF inverse
  <1>5. inverse[0] = first BY <1>1, <1>4
  <1>6. ASSUME NEW i \in 1..n PROVE inverse[i] = step(inverse[i-1], i)
    <2>1. i \in 0..n /\ i # 0 BY <1>1
    <2> QED BY <1>4, <2>1
  <1> DEFINE typed == {i \in 0..n : inverse[i] \in X}
  <1>7. \A i \in 1..n : i - 1 \in typed => i \in typed
    <2> SUFFICES ASSUME NEW i \in 1..n, inverse[i-1] \in X PROVE inverse[i] \in X
      OBVIOUS
    <2> HIDE DEF step, X
    <2> QED BY <1>2, <1>6
  <1>8. 0 \in typed
    <2> HIDE DEF first, X, n
    <2> QED BY <1>1, <1>5
  <1>9. n \in typed
    <2> HIDE DEF typed, n
    <2>1. 0..n \subseteq typed BY <1>1, <1>7, <1>8, PlacesAreInductive
    <2> QED BY <1>1, <2>1
  <1>10. InverseKinds(db, kinds) = inverse[n] BY DEF InverseKinds, inverse
  <1> QED BY <1>9, <1>10

\* Operations as they are stamped: in their order, with numbers nobody used that
\* are above the clock of the device.
LEMMA StampedAre ==
  ASSUME NEW d \in Devices, NEW kinds \in Seq(Kinds), NEW ops \in Stamped(d, kinds)
  PROVE  /\ ops \in Seq(Operations) /\ Len(ops) = Len(kinds) /\ Len(kinds) \in Nat
         /\ \A i \in 1..Len(ops) : /\ ops[i].device = d /\ ops[i].kind = kinds[i]
                                   /\ ops[i].at \in Nat \ {0} /\ ops[i].at \in Free(d)
         /\ \A i, k \in 1..Len(ops) : i < k => ops[i].at < ops[k].at
  <1>1. Free(d) \subseteq Nat \ {0} BY ConvergenceAssumption DEF Free
  <1>2. PICK at \in [1..Len(kinds) -> Free(d)] :
          /\ ops = [i \in 1..Len(kinds) |-> [at |-> at[i], device |-> d, kind |-> kinds[i]]]
          /\ \A i, k \in 1..Len(kinds) : i < k => at[i] < at[k]
    BY DEF Stamped
  <1>3. ASSUME NEW i \in 1..Len(kinds)
        PROVE  [at |-> at[i], device |-> d, kind |-> kinds[i]] \in Operations
    BY <1>1, <1>2 DEF Operations, Replicas
  <1>4. Len(kinds) \in Nat OBVIOUS
  <1>5. ops \in Seq(Operations) /\ Len(ops) = Len(kinds) BY <1>2, <1>3, <1>4
  <1>6. ASSUME NEW i \in 1..Len(kinds)
        PROVE  ops[i].at = at[i] /\ ops[i].device = d /\ ops[i].kind = kinds[i]
    BY <1>2
  <1> QED BY <1>1, <1>2, <1>4, <1>5, <1>6

LEMMA OrderType ==
  ASSUME NEW S, IsFiniteSet(S), NEW s \in SetToSeqs(S)
  PROVE  s \in Seq(S)
  BY FS_CardinalityType DEF SetToSeqs

-----------------------------------------------------------------------------
(* What the payloads of a history hold, K in the lemmas *)

Carries(entry, K) == /\ entry.forward.kinds \in Seq(K) /\ entry.forward.kinds # <<>>
                     /\ entry.inverse.kinds \in Seq(K) /\ entry.inverse.kinds # <<>>
Holds(h, S)    == DOMAIN h = {"undo", "redo"} /\ h.undo \in Seq(S) /\ h.redo \in Seq(S)
WellFormed(h, K) == \E S : Holds(h, S) /\ \A entry \in S : Carries(entry, K)

LEMMA EmptyIsWellFormed == ASSUME NEW K PROVE WellFormed(EmptyHistory, K)
  <1>1. Holds(EmptyHistory, {}) BY DEF Holds, EmptyHistory
  <1> QED BY <1>1 DEF WellFormed

LEMMA WiderIsWellFormed ==
  ASSUME NEW K, NEW L, K \subseteq L, NEW h, WellFormed(h, K)
  PROVE  WellFormed(h, L)
  <1>1. PICK S : Holds(h, S) /\ \A entry \in S : Carries(entry, K) BY DEF WellFormed
  <1>2. Seq(K) \subseteq Seq(L) OBVIOUS
  <1>3. \A entry \in S : Carries(entry, L) BY <1>1, <1>2 DEF Carries
  <1> QED BY <1>1, <1>3 DEF WellFormed

LEMMA RecordIsWellFormed ==
  ASSUME NEW K, NEW h, WellFormed(h, K), NEW db, NEW limit \in Nat,
         NEW kinds \in Seq(K), kinds # <<>>, NEW inverse \in Seq(K)
  PROVE  WellFormed(RecordAction(h, kinds, inverse, db, limit), K)
  <1>1. PICK S : Holds(h, S) /\ \A entry \in S : Carries(entry, K)
    BY DEF WellFormed
  <1> DEFINE entry == [forward |-> [kinds |-> kinds, guards |-> <<>>, scopes |-> <<>>],
                       inverse |-> Payload(db, inverse)]
             all   == Append(h.undo, entry)
             first == IF Len(all) > limit THEN Len(all) - limit + 1 ELSE 1
             T     == S \cup {entry}
             next  == [undo |-> SubSeq(all, first, Len(all)), redo |-> <<>>]
  <1>0. CASE inverse = <<>> BY <1>0 DEF RecordAction
  <1> SUFFICES ASSUME inverse # <<>> PROVE WellFormed(RecordAction(h, kinds, inverse, db, limit), K)
    BY <1>0
  <1>2. Carries(entry, K) BY DEF Carries, Payload
  <1> HIDE DEF entry
  <1>3. h.undo \in Seq(T) BY <1>1 DEF Holds
  <1>4. all \in Seq(T) BY <1>3
  <1> HIDE DEF all, T
  <1>5. Len(all) \in Nat /\ first \in Nat \ {0} BY <1>4
  <1>6. SubSeq(all, first, Len(all)) \in Seq(T)
    <2> HIDE DEF first
    <2>1. \A i \in first..Len(all) : all[i] \in T BY <1>4, <1>5
    <2> QED BY <1>4, <1>5, <2>1
  <1>7. Holds(next, T) BY <1>6 DEF Holds
  <1>8. \A e \in T : Carries(e, K) BY <1>1, <1>2 DEF T
  <1>9. WellFormed(next, K) BY <1>7, <1>8 DEF WellFormed
  <1>10. RecordAction(h, kinds, inverse, db, limit) \in {h, next}
    BY DEF RecordAction, entry, all
  <1> QED BY <1>9, <1>10

LEMMA OlderType ==
  ASSUME NEW S, NEW s \in Seq(S), s # <<>>
  PROVE  SubSeq(s, 1, Len(s) - 1) \in Seq(S) /\ Last(s) \in S
  <1>1. Len(s) \in Nat /\ Len(s) # 0 OBVIOUS
  <1>2. \A i \in 1..(Len(s) - 1) : s[i] \in S BY <1>1
  <1> QED BY <1>1, <1>2 DEF Last

LEMMA DroppedIsWellFormed ==
  ASSUME NEW K, NEW h, WellFormed(h, K), NEW source \in {"undo", "redo"}, h[source] # <<>>
  PROVE  WellFormed(Dropped(h, source), K)
  <1>1. PICK S : Holds(h, S) /\ \A entry \in S : Carries(entry, K) BY DEF WellFormed
  <1>2. h[source] \in Seq(S) BY <1>1 DEF Holds
  <1>3. Older(h, source) \in Seq(S) BY <1>2, OlderType DEF Older
  <1>4. Dropped(h, source) = [h EXCEPT ![source] = Older(h, source)] BY DEF Dropped
  <1>5. Holds(Dropped(h, source), S) BY <1>1, <1>3, <1>4 DEF Holds
  <1> QED BY <1>1, <1>5 DEF WellFormed

\* A neighbour that adopts new stamps keeps its kinds.
LEMMA RefreshCarries ==
  ASSUME NEW K, NEW S, \A entry \in S : Carries(entry, K), NEW s \in Seq(S), NEW fresh,
         NEW i \in 1..Len(s)
  PROVE  Carries(RefreshSiblings(s, fresh)[i], K)
  <1>1. Carries(s[i], K) OBVIOUS
  <1>2. RefreshSiblings(s, fresh)[i] = [forward |-> Refreshed(s[i].forward, fresh),
                                        inverse |-> Refreshed(s[i].inverse, fresh)]
    BY DEF RefreshSiblings
  <1> QED BY <1>1, <1>2 DEF Carries, Refreshed

LEMMA RefreshType ==
  ASSUME NEW S, NEW s \in Seq(S), NEW fresh, NEW T,
         \A i \in 1..Len(s) : RefreshSiblings(s, fresh)[i] \in T
  PROVE  RefreshSiblings(s, fresh) \in Seq(T)
  <1>1. Len(s) \in Nat OBVIOUS
  <1>2. RefreshSiblings(s, fresh) = [i \in 1..Len(s) |-> RefreshSiblings(s, fresh)[i]]
    BY DEF RefreshSiblings
  <1> QED BY <1>1, <1>2

LEMMA MovedIsWellFormed ==
  ASSUME NEW K, NEW h, WellFormed(h, K), NEW source \in {"undo", "redo"}, h[source] # <<>>, NEW db
  PROVE  WellFormed(Moved(h, source, db), K)
  <1>1. PICK S : Holds(h, S) /\ \A entry \in S : Carries(entry, K) BY DEF WellFormed
  <1> DEFINE entry == Newest(h, source)
             fresh == Guards(db, entry[Selected(source)].kinds)
             back  == Selected(Other(source))
             moved == [side \in {"forward", "inverse"} |->
                         IF side # back THEN entry[side]
                         ELSE [kinds  |-> entry[side].kinds,
                               guards |-> fresh,
                               scopes |-> Scopes(db, entry[side].kinds)]]
             other == Other(source)
             left  == RefreshSiblings(Older(h, source), fresh)
             right == RefreshSiblings(h[other], fresh)
             T     == {left[i] : i \in 1..Len(Older(h, source))}
                      \cup {right[i] : i \in 1..Len(h[other])} \cup {moved}
             after == Moved(h, source, db)
  <1>2. other \in {"undo", "redo"} /\ other # source BY DEF Other
  <1>3. h[source] \in Seq(S) /\ h[other] \in Seq(S) BY <1>1, <1>2 DEF Holds
  <1>4. Older(h, source) \in Seq(S) /\ entry \in S BY <1>3, OlderType DEF Older, Newest
  <1>5. Carries(entry, K) BY <1>1, <1>4
  <1> HIDE DEF entry
  <1>6. moved["forward"].kinds = entry["forward"].kinds
        /\ moved["inverse"].kinds = entry["inverse"].kinds
    <2> HIDE DEF fresh, back
    <2> QED OBVIOUS
  <1>7. Carries(moved, K) BY <1>5, <1>6 DEF Carries
  <1>8. after = [table \in {"undo", "redo"} |-> IF table = source THEN left
                                                ELSE Append(RefreshSiblings(h[table], fresh), moved)]
    BY DEF Moved, entry
  <1> HIDE DEF moved, fresh, after, other
  <1>9. \A e \in T : Carries(e, K)
    <2>1. \A i \in 1..Len(Older(h, source)) : Carries(left[i], K)
      BY <1>1, <1>4, RefreshCarries
    <2>2. \A i \in 1..Len(h[other]) : Carries(right[i], K)
      BY <1>1, <1>3, RefreshCarries
    <2> HIDE DEF left, right
    <2> QED BY <1>7, <2>1, <2>2
  <1>10. left \in Seq(T)
    <2>1. \A i \in 1..Len(Older(h, source)) : left[i] \in T OBVIOUS
    <2> HIDE DEF T
    <2> QED BY <1>4, <2>1, RefreshType
  <1>11. right \in Seq(T)
    <2>1. \A i \in 1..Len(h[other]) : right[i] \in T OBVIOUS
    <2> HIDE DEF T
    <2> QED BY <1>3, <2>1, RefreshType
  <1>12. moved \in T OBVIOUS
  <1> HIDE DEF T, left
  <1>13. after[source] = left /\ after[other] = Append(right, moved) BY <1>2, <1>8
  <1> HIDE DEF right
  <1>14. after[source] \in Seq(T) /\ after[other] \in Seq(T) BY <1>10, <1>11, <1>12, <1>13
  <1>15. Holds(after, T) BY <1>2, <1>8, <1>14 DEF Holds
  <1> QED BY <1>9, <1>15 DEF WellFormed, after

-----------------------------------------------------------------------------
(* The inductive invariant *)

\* The operations a replica has applied: the server what it has logged, a device
\* the log up to its position, what it wrote of the rest, and what it has not sent.
Applied(r) ==
  ToSet(Seeds) \cup
    (IF r = Server THEN ToSet(log)
     ELSE Rows(log, position[r]) \cup Echoes(r) \cup ToSet(outbox[r]))

Typed ==
  /\ replica  \in [Replicas -> Repaired]
  /\ outbox   \in [Devices -> Seq(Operations)]
  /\ log      \in Seq(Operations)
  /\ position \in [Devices -> Nat]
  /\ \A d \in Devices : position[d] <= Len(log)
  /\ clock    \in [Devices -> Nat]

\* Every replica shows what it has applied.
Reflected == \A r \in Replicas : Shows(replica[r], Applied(r)) /\ Past(Applied(r))

\* What an operation needs was made before it, in the log or in its outbox.
Grounded ==
  /\ \A i \in 1..Len(log) : Grounds(ToSet(Seeds) \cup Rows(log, i - 1), log[i])
  /\ \A d \in Devices : \A i \in 1..Len(outbox[d]) :
       Grounds(Logged \cup Rows(outbox[d], i - 1), outbox[d][i])

Unrepeated(s) == \A i, k \in 1..Len(s) : s[i] = s[k] => i = k

\* No two operations have the same stamp, and none is in two places.
Distinct ==
  /\ StampsDiffer(Written)
  /\ Unrepeated(log) /\ ToSet(Seeds) \cap ToSet(log) = {}
  /\ \A d \in Devices : /\ Unrepeated(outbox[d]) /\ ToSet(outbox[d]) \cap Logged = {}
                        /\ \A op \in ToSet(outbox[d]) : op.device = d

\* The clock of a device is not behind what it has applied.
Timely == \A d \in Devices : \A x \in Applied(d) : x.at <= clock[d]

Replicated == Typed /\ Reflected /\ Grounded /\ Distinct /\ Timely

\* What a device may still write, in the command in flight or from its history,
\* speaks of nothing it has not heard of.
Inductive ==
  /\ Replicated
  /\ DOMAIN pending = Devices
  /\ DOMAIN history = Devices
  /\ \A d \in Devices : /\ pending[d] \in Sayings(Heard(replica[d])) \cup {<<>>}
                        /\ WellFormed(history[d], Sayable(Heard(replica[d])))

\* No device forgets an object.
Remembered == \A d \in Devices : Heard(replica[d]) \subseteq Heard(replica'[d])

LEMMA DeviceIsReplica == Devices \subseteq Replicas /\ Server \in Replicas /\ Server \notin Devices
  BY ConvergenceAssumption DEF Replicas

LEMMA SeedsAre ==
  /\ Seeds \in Seq(Operations) /\ Len(Seeds) \in Nat
  /\ \A i \in 1..Len(Seeds) : Seeds[i].at = i
  BY ConvergenceAssumption

\* What the server has applied is the log; what a device has, is in the log or in
\* its outbox.
LEMMA AppliedIs ==
  ASSUME Typed
  PROVE  /\ Applied(Server) = Logged
         /\ \A d \in Devices :
              /\ Applied(d) = ToSet(Seeds) \cup Rows(log, position[d]) \cup Echoes(d) \cup ToSet(outbox[d])
              /\ Applied(d) \subseteq Logged \cup ToSet(outbox[d])
         /\ \A r \in Replicas : Applied(r) \subseteq Written
         /\ Logged \subseteq Written
  <1>1. Applied(Server) = Logged BY DEF Applied, Logged
  <1>2. Logged \subseteq Written BY DEF Logged, Written
  <1>3. ASSUME NEW d \in Devices
        PROVE  /\ Applied(d) = ToSet(Seeds) \cup Rows(log, position[d]) \cup Echoes(d) \cup ToSet(outbox[d])
               /\ Applied(d) \subseteq Logged \cup ToSet(outbox[d])
    <2>1. d # Server BY DeviceIsReplica
    <2>2. position[d] \in 0..Len(log) /\ log \in Seq(Operations) BY DEF Typed
    <2>3. Rows(log, position[d]) \subseteq ToSet(log) BY <2>2, AllRows
    <2> QED BY <2>1, <2>3 DEF Applied, Logged, Echoes
  <1>4. \A d \in Devices : Applied(d) \subseteq Written BY <1>2, <1>3 DEF Written
  <1> QED BY <1>1, <1>2, <1>3, <1>4 DEF Replicas

\* Every stamp that was used is in Used.
LEMMA WrittenIsUsed ==
  ASSUME Typed, NEW x \in Written
  PROVE  x.at \in Used /\ x \in Operations
  <1>1. Seeds \in Seq(Operations) /\ log \in Seq(Operations)
        /\ \A d \in Devices : outbox[d] \in Seq(Operations)
    BY SeedsAre DEF Typed
  <1>2. ASSUME NEW s \in Seq(Operations), x \in ToSet(s) PROVE x.at \in StampsOf(s) /\ x \in Operations
    BY <1>2 DEF ToSet, StampsOf
  <1> QED BY <1>1, <1>2 DEF Written, Used

\* An operation a device writes fits what it has applied.
LEMMA AuthoredFits ==
  ASSUME Replicated, NEW d \in Devices, NEW kinds \in Sayings(Heard(replica[d])),
         NEW ops \in Stamped(d, kinds)
  PROVE  Fits(Applied(d), {}, ops)
  <1>1. kinds \in Seq(Kinds) BY DEF Sayings
  <1>2. /\ Len(ops) = Len(kinds)
        /\ \A i \in 1..Len(ops) : /\ ops[i].kind = kinds[i]
                                  /\ ops[i].at \in Nat \ {0} /\ ops[i].at \in Free(d)
        /\ \A i, k \in 1..Len(ops) : i < k => ops[i].at < ops[k].at
    BY <1>1, StampedAre
  <1>3. ASSUME NEW i \in 1..Len(ops)
        PROVE  ops[i].at \in Nat \ {0} /\ ops[i].at > clock[d] /\ ops[i].at \notin Used
    BY <1>2 DEF Free
  <1>4. ASSUME NEW i \in 1..Len(ops) PROVE ops[i] \notin Applied(d) \cup Rows(ops, i - 1)
    <2>1. ops[i] \notin Applied(d)
      BY <1>3, AppliedIs, WrittenIsUsed, DeviceIsReplica DEF Replicated
    <2>2. ASSUME NEW j \in 1..(i-1) PROVE ops[i] # ops[j]
      <3>1. j \in 1..Len(ops) /\ j < i OBVIOUS
      <3>2. ops[j].at < ops[i].at BY <1>2, <3>1
      <3>3. ops[j].at \in Nat /\ ops[i].at \in Nat BY <1>2, <3>1
      <3> QED BY <3>2, <3>3
    <2> QED BY <2>1, <2>2 DEF Rows
  <1>5. ASSUME NEW i \in 1..Len(ops), NEW o \in Needs(ops[i].kind)
        PROVE  \E c \in Applied(d) \cup Rows(ops, i - 1) : o \in Makes(c.kind) /\ c.at < ops[i].at
    <2>1. o \in Heard(replica[d]) \cup UNION {Makes(kinds[j]) : j \in 1..(i-1)}
      BY <1>2, <1>5 DEF Sayings
    <2>2. CASE o \in Heard(replica[d])
      <3>1. Shows(replica[d], Applied(d)) BY DeviceIsReplica DEF Replicated, Reflected
      <3>2. o \in Made(Applied(d)) BY <2>2, <3>1 DEF Shows
      <3>3. PICK c \in Applied(d) : o \in Makes(c.kind) BY <3>2 DEF Made
      <3>4. c.at <= clock[d] /\ c.at \in Nat /\ clock[d] \in Nat
        <4>1. Past(Applied(d)) BY DeviceIsReplica DEF Replicated, Reflected
        <4>2. c.at \in Nat BY <4>1 DEF Past, Stamp
        <4> QED BY <4>2 DEF Replicated, Timely, Typed
      <3>5. ops[i].at \in Nat /\ ops[i].at > clock[d] BY <1>3
      <3>6. c.at < ops[i].at BY <3>4, <3>5
      <3> QED BY <3>3, <3>6
    <2>3. CASE o \in UNION {Makes(kinds[j]) : j \in 1..(i-1)}
      <3>1. PICK j \in 1..(i-1) : o \in Makes(kinds[j]) BY <2>3
      <3>2. j \in 1..Len(ops) /\ j < i OBVIOUS
      <3>3. ops[j].kind = kinds[j] /\ ops[j].at < ops[i].at BY <1>2, <3>2
      <3>4. ops[j] \in Rows(ops, i - 1) BY DEF Rows
      <3> QED BY <3>1, <3>3, <3>4
    <2> QED BY <2>1, <2>2, <2>3
  <1> QED BY <1>4, <1>5 DEF Fits, Grounds

\* The last of a row that is not empty.
LEMMA LastIs ==
  ASSUME NEW S, NEW s \in Seq(S), s # <<>>
  PROVE  Len(s) \in 1..Len(s) /\ Last(s) = s[Len(s)]
  <1>1. Len(s) \in Nat /\ Len(s) # 0 OBVIOUS
  <1> QED BY <1>1 DEF Last

\* A device that writes operations shows them too, and everything else stands.
LEMMA AuthorKeeps ==
  ASSUME Replicated, NEW d \in Devices, NEW kinds \in Sayings(Heard(replica[d])),
         NEW ops \in Stamped(d, kinds), Author(d, ops)
  PROVE  /\ Replicated' /\ Remembered
         /\ \A i \in 1..Len(kinds) : Needs(kinds[i]) \cup Makes(kinds[i]) \subseteq Heard(replica'[d])
  <1> DEFINE after == ApplyUnknown(replica[d], {}, ops)
             old   == outbox[d]
             both  == old \o ops
             A     == Applied(d)
             n     == Len(ops)
  <1>1. /\ kinds \in Seq(Kinds) /\ kinds # <<>>
        /\ \A i \in 1..Len(kinds) :
             Needs(kinds[i]) \subseteq Heard(replica[d]) \cup UNION {Makes(kinds[j]) : j \in 1..(i-1)}
    BY DEF Sayings
  <1>2. /\ ops \in Seq(Operations) /\ Len(ops) = Len(kinds) /\ Len(kinds) \in Nat /\ ops # <<>>
        /\ \A i \in 1..Len(ops) : /\ ops[i].device = d /\ ops[i].kind = kinds[i]
                                  /\ ops[i].at \in Nat \ {0} /\ ops[i].at > clock[d]
                                  /\ ops[i].at \notin Used
        /\ \A i, k \in 1..Len(ops) : i < k => ops[i].at < ops[k].at
    <2>1. Len(kinds) # 0 BY <1>1
    <2> QED BY <1>1, <2>1, StampedAre DEF Free
  <1>3. Typed /\ Reflected /\ Grounded /\ Distinct /\ Timely BY DEF Replicated
  <1>4. replica[d] \in Repaired /\ Shows(replica[d], A) /\ Past(A)
    BY <1>3, DeviceIsReplica DEF Typed, Reflected
  <1>5. Fits(A, {}, ops) BY AuthoredFits
  <1>6. /\ after.ok /\ after.db \in Repaired
        /\ Shows(after.db, A \cup ToSet(ops)) /\ Past(A \cup ToSet(ops))
    <2>1. replica[d] \in Sound BY <1>4, RepairedIsSound
    <2> HIDE DEF A
    <2> QED BY <1>2, <1>4, <1>5, <2>1, BatchShows
  <1>7. /\ replica' = [replica EXCEPT ![d] = after.db] /\ clock' = [clock EXCEPT ![d] = Last(ops).at]
        /\ outbox' = [outbox EXCEPT ![d] = both] /\ position' = position /\ log' = log
    BY DEF Author, ApplyBatch
  <1> HIDE DEF after
  <1>8. /\ old \in Seq(Operations) /\ both \in Seq(Operations)
        /\ ToSet(both) = ToSet(old) \cup ToSet(ops)
        /\ Len(old) \in Nat /\ n \in Nat /\ Len(both) = Len(old) + n
        /\ \A i \in 1..Len(old) : both[i] = old[i]
        /\ \A i \in 1..n : both[Len(old) + i] = ops[i]
    <2>1. old \in Seq(Operations) BY <1>3 DEF Typed
    <2>2. ToSet(both) = ToSet(old) \cup ToSet(ops) BY <1>2, <2>1, RowsInRows
    <2>3. /\ Len(old) \in Nat /\ n \in Nat /\ Len(both) = Len(old) + n /\ both \in Seq(Operations)
          /\ \A i \in 1..Len(old) : both[i] = old[i]
          /\ \A i \in 1..n : both[Len(old) + i] = ops[i]
      <3>1. ops \in Seq(Operations) BY <1>2
      <3> HIDE DEF old
      <3> QED BY <2>1, <3>1, JoinedRows
    <2> HIDE DEF old, both, n
    <2> QED BY <2>1, <2>2, <2>3
  <1>9. /\ replica'[d] = after.db /\ outbox'[d] = both /\ clock'[d] = Last(ops).at
        /\ \A r \in Replicas \ {d} : replica'[r] = replica[r]
        /\ \A e \in Devices \ {d} : outbox'[e] = outbox[e] /\ clock'[e] = clock[e]
    <2> HIDE DEF both
    <2> QED BY <1>3, <1>7, DeviceIsReplica DEF Typed
  <1>10. Last(ops) = ops[n] /\ n \in 1..n BY <1>2, LastIs
  <1>11. Typed'
    <2>1. Last(ops).at \in Nat BY <1>2, <1>10
    <2> HIDE DEF both
    <2> QED BY <1>3, <1>6, <1>7, <1>8, <2>1, DeviceIsReplica DEF Typed
  <1>12. Applied(d)' = A \cup ToSet(ops) /\ Applied(d)' \subseteq A \cup ToSet(ops)
    <2>1. Echoes(d)' = Echoes(d) BY <1>7 DEF Echoes
    <2>2. d # Server BY DeviceIsReplica
    <2> HIDE DEF both, old
    <2> QED BY <1>7, <1>8, <1>9, <2>1, <2>2 DEF Applied, old
  <1>13. ASSUME NEW r \in Replicas \ {d} PROVE Applied(r)' = Applied(r)
    <2>1. Echoes(r)' = Echoes(r) BY <1>7 DEF Echoes
    <2>2. r = Server \/ (r \in Devices /\ outbox'[r] = outbox[r]) BY <1>9 DEF Replicas
    <2> QED BY <1>7, <2>1, <2>2 DEF Applied
  <1>14. Reflected'
    <2> SUFFICES ASSUME NEW r \in Replicas
                 PROVE  Shows(replica'[r], Applied(r)') /\ Past(Applied(r)')
      BY DEF Reflected
    <2>1. CASE r = d
      <3>1. Applied(r)' = A \cup ToSet(ops) BY <1>12, <2>1
      <3>2. replica'[r] = after.db BY <1>9, <2>1
      <3> HIDE DEF A
      <3> QED BY <1>6, <3>1, <3>2, Zenon
    <2>2. CASE r # d
      <3>1. Applied(r)' = Applied(r) /\ replica'[r] = replica[r] BY <1>9, <1>13, <2>2
      <3>2. Shows(replica[r], Applied(r)) /\ Past(Applied(r)) BY <1>3 DEF Reflected
      <3> QED BY <3>1, <3>2, Zenon
    <2> QED BY <2>1, <2>2
  <1>15. Logged' = Logged BY <1>7 DEF Logged
  <1>16. A \subseteq Logged \cup ToSet(old) /\ A \subseteq Written /\ Logged \subseteq Written
         /\ ToSet(old) \subseteq Written
    BY <1>3, AppliedIs, DeviceIsReplica DEF Written
  <1>17. Grounded'
    <2>1. ASSUME NEW e \in Devices, NEW i \in 1..Len(outbox'[e])
          PROVE  Grounds(Logged \cup Rows(outbox'[e], i - 1), outbox'[e][i])
      <3>1. CASE e # d
        <4>1. outbox'[e] = outbox[e] BY <1>9, <3>1
        <4>2. i \in 1..Len(outbox[e]) BY <4>1
        <4>3. Grounds(Logged \cup Rows(outbox[e], i - 1), outbox[e][i]) BY <1>3, <4>2 DEF Grounded
        <4> QED BY <4>1, <4>3, Zenon
      <3>2. CASE e = d /\ i \in 1..Len(old)
        <4>1. outbox'[e] = both BY <1>9, <3>2
        <4>2. both[i] = old[i] /\ i - 1 \in 0..Len(old) BY <1>8, <3>2
        <4>3. Rows(both, i - 1) = Rows(old, i - 1) BY <1>2, <1>8, <4>2, RowsInRows
        <4>4. Grounds(Logged \cup Rows(old, i - 1), old[i]) BY <1>3, <3>2 DEF Grounded
        <4> HIDE DEF old, both
        <4> QED BY <4>1, <4>2, <4>3, <4>4, Zenon
      <3>3. CASE e = d /\ i \notin 1..Len(old)
        <4> DEFINE j == i - Len(old)
        <4>1. outbox'[e] = both BY <1>9, <3>3
        <4>2. i \in 1..Len(both) BY <4>1
        <4>3. j \in 1..n /\ Len(old) + j = i /\ j - 1 \in 0..n /\ Len(old) + (j - 1) = i - 1
          <5> HIDE DEF old, both, n
          <5> QED BY <1>8, <3>3, <4>2
        <4>4. both[i] = ops[j] BY <1>8, <4>3
        <4>5. Rows(both, i - 1) = ToSet(old) \cup Rows(ops, j - 1)
          <5>1. old \in Seq(Operations) /\ ops \in Seq(Operations) /\ j - 1 \in 0..Len(ops)
            BY <1>2, <1>8, <4>3
          <5> HIDE DEF old, j
          <5>2. Rows(old \o ops, Len(old) + (j - 1)) = ToSet(old) \cup Rows(ops, j - 1)
            BY <5>1, RowsInRows
          <5>3. Len(old) + (j - 1) = i - 1 BY <4>3
          <5> QED BY <5>2, <5>3, Zenon
        <4>6. Grounds(A \cup Rows(ops, j - 1), ops[j]) BY <1>5, <4>3 DEF Fits
        <4> HIDE DEF A, old, both, j
        <4>7. A \cup Rows(ops, j - 1) \subseteq Logged \cup Rows(both, i - 1) BY <1>16, <4>5
        <4>8. Grounds(Logged \cup Rows(both, i - 1), ops[j]) BY <4>6, <4>7, GroundsGrow
        <4> QED BY <4>1, <4>4, <4>8, Zenon
      <3> QED BY <3>1, <3>2, <3>3
    <2>2. \A i \in 1..Len(log) : Grounds(ToSet(Seeds) \cup Rows(log, i - 1), log[i]) BY <1>3 DEF Grounded
    <2> QED BY <1>7, <1>15, <2>1, <2>2 DEF Grounded
  <1>18. Written' = Written \cup ToSet(ops)
    <2>1. \A e \in Devices : ToSet(outbox'[e]) = IF e = d THEN ToSet(old) \cup ToSet(ops) ELSE ToSet(outbox[e])
      <3> HIDE DEF both
      <3> QED BY <1>8, <1>9
    <2>2. \A x : (\E e \in Devices : x \in ToSet(outbox'[e]))
                 <=> (\E e \in Devices : x \in ToSet(outbox[e])) \/ x \in ToSet(ops)
      <3> HIDE DEF both, n
      <3> QED BY <2>1
    <2>3. \A x : x \in Written' <=> \/ x \in ToSet(Seeds) \/ x \in ToSet(log)
                                   \/ \E e \in Devices : x \in ToSet(outbox'[e])
      BY <1>7 DEF Written
    <2>4. \A x : x \in Written <=> \/ x \in ToSet(Seeds) \/ x \in ToSet(log)
                                  \/ \E e \in Devices : x \in ToSet(outbox[e])
      BY DEF Written
    <2> HIDE DEF both, n
    <2> QED BY <2>2, <2>3, <2>4
  <1>19. ASSUME NEW x \in ToSet(ops)
         PROVE  x \notin Written /\ x.at \in Nat /\ x.device = d /\ x.at > clock[d]
                /\ (\A y \in Written : y.at # x.at)
                /\ \E i \in 1..n : x = ops[i]
    <2>1. PICK i \in 1..n : x = ops[i] BY <1>2, AllRows DEF Rows
    <2>2. x.at \notin Used BY <1>2, <2>1
    <2>3. \A y \in Written : y.at # x.at BY <1>3, <2>2, WrittenIsUsed
    <2> QED BY <1>2, <2>1, <2>3
  <1>20. Distinct'
    <2>1. StampsDiffer(Written)'
      <3> SUFFICES ASSUME NEW x \in Written \cup ToSet(ops), NEW y \in Written \cup ToSet(ops), x.at = y.at
                   PROVE  x = y
        BY <1>18 DEF StampsDiffer
      <3>1. CASE x \in Written /\ y \in Written BY <1>3, <3>1 DEF Distinct, StampsDiffer
      <3>2. CASE x \in ToSet(ops) /\ y \in ToSet(ops)
        <4>1. PICK i \in 1..n, k \in 1..n : x = ops[i] /\ y = ops[k] BY <1>19, <3>2
        <4>2. ~(i < k) /\ ~(k < i)
          <5>1. ops[i].at \in Nat /\ ops[k].at \in Nat /\ ops[i].at = ops[k].at BY <1>2, <4>1
          <5> QED BY <1>2, <5>1
        <4> QED BY <4>1, <4>2
      <3> QED BY <1>19, <3>1, <3>2
    <2>2. Unrepeated(both)
      <3> SUFFICES ASSUME NEW i \in 1..Len(both), NEW k \in 1..Len(both), both[i] = both[k], i < k
                   PROVE  FALSE
        BY <1>8 DEF Unrepeated
      <3>1. CASE k \in 1..Len(old)
        <4>1. i \in 1..Len(old) BY <1>8, <3>1
        <4>2. old[i] = old[k] BY <1>8, <3>1, <4>1
        <4> QED BY <1>3, <3>1, <4>1, <4>2 DEF Distinct, Unrepeated
      <3>2. CASE k \notin 1..Len(old)
        <4>1. PICK j \in 1..n : k = Len(old) + j
          <5>1. k - Len(old) \in 1..n /\ k = Len(old) + (k - Len(old)) BY <1>8, <3>2
          <5> QED BY <5>1
        <4>2. both[k] = ops[j] /\ ops[j] \in ToSet(ops) BY <1>2, <1>8, <4>1, AllRows
        <4>3. CASE i \in 1..Len(old)
          <5>1. both[i] = old[i] /\ old[i] \in ToSet(old) BY <1>8, <4>3, AllRows
          <5> QED BY <1>16, <1>19, <4>2, <5>1
        <4>4. CASE i \notin 1..Len(old)
          <5>1. PICK m \in 1..n : i = Len(old) + m
            <6>1. i - Len(old) \in 1..n /\ i = Len(old) + (i - Len(old)) BY <1>8, <4>4
            <6> QED BY <6>1
          <5>2. both[i] = ops[m] /\ m < j BY <1>8, <4>1, <5>1
          <5>3. ops[m].at < ops[j].at /\ ops[m].at \in Nat BY <1>2, <5>2
          <5>4. ops[m] = ops[j] BY <4>2, <5>2
          <5> QED BY <5>3, <5>4
        <4> QED BY <4>3, <4>4
      <3> QED BY <3>1, <3>2
    <2>3. ASSUME NEW e \in Devices
          PROVE  /\ Unrepeated(outbox'[e]) /\ ToSet(outbox'[e]) \cap Logged = {}
                 /\ \A op \in ToSet(outbox'[e]) : op.device = e
      <3>0. /\ Unrepeated(outbox[e]) /\ ToSet(outbox[e]) \cap Logged = {}
            /\ \A op \in ToSet(outbox[e]) : op.device = e
        BY <1>3 DEF Distinct
      <3>1. CASE e # d
        <4>1. outbox'[e] = outbox[e] BY <1>9, <3>1
        <4> QED BY <3>0, <4>1
      <3>2. CASE e = d
        <4>1. outbox'[e] = both BY <1>9, <3>2
        <4>2. ToSet(both) \cap Logged = {} BY <1>8, <1>16, <1>19, <3>0, <3>2
        <4>3. \A op \in ToSet(both) : op.device = e BY <1>8, <1>19, <3>0, <3>2
        <4> HIDE DEF both, old
        <4> QED BY <2>2, <4>1, <4>2, <4>3
      <3> QED BY <3>1, <3>2
    <2>4. Unrepeated(log) /\ ToSet(Seeds) \cap ToSet(log) = {} BY <1>3 DEF Distinct
    <2> QED BY <1>7, <1>15, <2>1, <2>3, <2>4 DEF Distinct
  <1>21. Timely'
    <2> SUFFICES ASSUME NEW e \in Devices, NEW x \in Applied(e)' PROVE x.at <= clock'[e]
      BY DEF Timely
    <2>1. CASE e # d
      <3>1. x \in Applied(e) /\ clock'[e] = clock[e] BY <1>9, <1>13, <2>1, DeviceIsReplica
      <3> QED BY <1>3, <3>1 DEF Timely
    <2>2. CASE e = d
      <3>1. x \in A \cup ToSet(ops) /\ clock'[e] = ops[n].at BY <1>9, <1>10, <1>12, <2>2
      <3>2. ops[n].at \in Nat /\ ops[n].at > clock[d] /\ clock[d] \in Nat
        BY <1>2, <1>3, <1>10 DEF Typed
      <3>3. CASE x \in A
        <4>1. x.at <= clock[d] BY <1>3, <3>3 DEF Timely
        <4>2. x.at \in Nat BY <1>4, <3>3 DEF Past, Stamp
        <4> QED BY <3>1, <3>2, <4>1, <4>2
      <3>4. CASE x \in ToSet(ops)
        <4>1. PICK i \in 1..n : x = ops[i] BY <1>19, <3>4
        <4>2. i = n \/ ops[i].at < ops[n].at BY <1>2, <1>10, <4>1
        <4>3. ops[i].at \in Nat BY <1>2, <4>1
        <4> QED BY <3>1, <3>2, <4>1, <4>2, <4>3
      <3> QED BY <3>1, <3>3, <3>4
    <2> QED BY <2>1, <2>2
  <1>22. Heard(replica[d]) = Made(A) /\ Heard(replica'[d]) = Made(A \cup ToSet(ops))
    <2> HIDE DEF A
    <2> QED BY <1>4, <1>6, <1>9 DEF Shows
  <1>23. Heard(replica[d]) \subseteq Heard(replica'[d]) BY <1>22 DEF Made
  <1>24. Remembered
    <2> SUFFICES ASSUME NEW e \in Devices PROVE Heard(replica[e]) \subseteq Heard(replica'[e])
      BY DEF Remembered
    <2>1. e = d \/ replica'[e] = replica[e] BY <1>9, DeviceIsReplica
    <2> QED BY <1>23, <2>1
  <1>25. \A i \in 1..Len(kinds) : Makes(kinds[i]) \subseteq Heard(replica'[d])
    <2> SUFFICES ASSUME NEW i \in 1..Len(kinds) PROVE Makes(kinds[i]) \subseteq Made(A \cup ToSet(ops))
      BY <1>22
    <2>1. ops[i] \in ToSet(ops) /\ ops[i].kind = kinds[i] BY <1>2, AllRows
    <2> QED BY <2>1 DEF Made
  <1>26. \A i \in 1..Len(kinds) : Needs(kinds[i]) \subseteq Heard(replica'[d])
    <2> SUFFICES ASSUME NEW i \in 1..Len(kinds), NEW o \in Needs(kinds[i]) PROVE o \in Heard(replica'[d])
      OBVIOUS
    <2>1. o \in Heard(replica[d]) \/ \E j \in 1..(i-1) : o \in Makes(kinds[j]) BY <1>1
    <2>2. \A j \in 1..(i-1) : j \in 1..Len(kinds) BY <1>2
    <2> QED BY <1>23, <1>25, <2>1, <2>2
  <1>27. Replicated' BY <1>11, <1>14, <1>17, <1>20, <1>21 DEF Replicated
  <1> QED BY <1>24, <1>25, <1>26, <1>27

LEMMA InitIsInductive == Init => Inductive
  <1> SUFFICES ASSUME Init PROVE Inductive OBVIOUS
  <1> DEFINE start == ApplyUnknown(EmptyDatabase, {}, Seeds)
  <1>1. /\ replica = [r \in Replicas |-> start.db] /\ clock = [d \in Devices |-> Len(Seeds)]
        /\ outbox = [d \in Devices |-> <<>>] /\ log = <<>> /\ position = [d \in Devices |-> 0]
        /\ history = [d \in Devices |-> EmptyHistory] /\ pending = [d \in Devices |-> <<>>]
    BY DEF Init, ApplyBatch
  <1>2. /\ Seeds \in Seq(Operations) /\ Len(Seeds) \in Nat
        /\ \A i \in 1..Len(Seeds) :
             /\ Seeds[i].at = i
             /\ Needs(Seeds[i].kind) \subseteq UNION {Makes(Seeds[j].kind) : j \in 1..(i-1)}
    <2>1. Seeds \in Seq(Operations) BY ConvergenceAssumption, Zenon DEF ConvergenceAssumption
    <2>2. Len(Seeds) \in Nat BY <2>1
    <2> QED BY ConvergenceAssumption, <2>1, <2>2, Zenon DEF ConvergenceAssumption
  <1>3. Fits({}, {}, Seeds)
    <2> SUFFICES ASSUME NEW i \in 1..Len(Seeds)
                 PROVE  /\ Seeds[i] \notin Rows(Seeds, i - 1)
                        /\ Grounds({} \cup Rows(Seeds, i - 1), Seeds[i])
      BY DEF Fits
    <2>1. \A j \in 1..(i-1) : j \in 1..Len(Seeds) /\ j # i /\ j < i BY <1>2
    <2>2. \A j \in 1..(i-1) : Seeds[j].at = j /\ Seeds[i].at = i /\ Seeds[j] # Seeds[i] BY <1>2, <2>1
    <2>3. Seeds[i] \notin Rows(Seeds, i - 1) BY <2>2 DEF Rows
    <2>4. ASSUME NEW o \in Needs(Seeds[i].kind)
          PROVE  \E c \in {} \cup Rows(Seeds, i - 1) : o \in Makes(c.kind) /\ c.at < Seeds[i].at
      <3>1. PICK j \in 1..(i-1) : o \in Makes(Seeds[j].kind) BY <1>2, <2>4
      <3>2. Seeds[j] \in Rows(Seeds, i - 1) /\ Seeds[j].at < Seeds[i].at BY <2>1, <2>2 DEF Rows
      <3> QED BY <3>1, <3>2
    <2> QED BY <2>3, <2>4 DEF Grounds
  <1>4. EmptyDatabase \in Sound BY EmptyShows DEF Sound, Shows
  <1>5. {} \cup ToSet(Seeds) = ToSet(Seeds) OBVIOUS
  <1>6. start.ok /\ start.db \in Repaired /\ Shows(start.db, ToSet(Seeds)) /\ Past(ToSet(Seeds))
    <2>1. Shows(EmptyDatabase, {}) /\ Past({}) BY EmptyShows
    <2>2. start.ok /\ start.db \in Repaired /\ Shows(start.db, {} \cup ToSet(Seeds)) /\ Past({} \cup ToSet(Seeds))
      BY <1>2, <1>3, <1>4, <2>1, BatchShows
    <2> QED BY <1>5, <2>2, Zenon
  <1> HIDE DEF start
  <1>7. /\ log \in Seq(Operations) /\ Len(log) = 0 /\ ToSet(log) = {}
        /\ \A d \in Devices : /\ outbox[d] \in Seq(Operations) /\ Len(outbox[d]) = 0
                              /\ ToSet(outbox[d]) = {} /\ position[d] = 0 /\ clock[d] = Len(Seeds)
    <2>1. ToSet(<<>>) = {} BY DEF ToSet
    <2> QED BY <1>1, <2>1
  <1>8. Typed BY <1>1, <1>2, <1>6, <1>7 DEF Typed
  <1>9. ASSUME NEW r \in Replicas PROVE Applied(r) = ToSet(Seeds)
    <2>1. CASE r = Server BY <1>7, <2>1 DEF Applied
    <2>2. CASE r # Server
      <3>1. r \in Devices BY <2>2 DEF Replicas
      <3>2. Rows(log, position[r]) = {} BY <1>7, <3>1, NoRows
      <3> QED BY <1>7, <2>2, <3>1, <3>2 DEF Applied, Echoes
    <2> QED BY <2>1, <2>2
  <1>10. Reflected
    <2> SUFFICES ASSUME NEW r \in Replicas PROVE Shows(replica[r], Applied(r)) /\ Past(Applied(r))
      BY DEF Reflected
    <2>1. replica[r] = start.db /\ Applied(r) = ToSet(Seeds) BY <1>1, <1>9
    <2> QED BY <1>6, <2>1, Zenon
  <1>11. Grounded BY <1>7 DEF Grounded
  <1>12. Distinct
    <2>1. Written = ToSet(Seeds) BY <1>7 DEF Written
    <2>2. StampsDiffer(ToSet(Seeds))
      <3>1. \A x \in ToSet(Seeds) : \E i \in 1..Len(Seeds) : x = Seeds[i] BY <1>2, AllRows DEF Rows
      <3> QED BY <1>2, <3>1 DEF StampsDiffer
    <2> QED BY <1>7, <2>1, <2>2 DEF Distinct, Unrepeated
  <1>13. Timely
    <2> SUFFICES ASSUME NEW d \in Devices, NEW x \in ToSet(Seeds) PROVE x.at <= clock[d]
      BY <1>9, DeviceIsReplica DEF Timely
    <2>1. PICK i \in 1..Len(Seeds) : x = Seeds[i] BY <1>2, AllRows DEF Rows
    <2> QED BY <1>2, <1>7, <2>1
  <1>14. DOMAIN pending = Devices /\ DOMAIN history = Devices BY <1>1
  <1>15. \A d \in Devices : /\ pending[d] \in Sayings(Heard(replica[d])) \cup {<<>>}
                            /\ WellFormed(history[d], Sayable(Heard(replica[d])))
    <2> SUFFICES ASSUME NEW d \in Devices PROVE WellFormed(EmptyHistory, Sayable(Heard(replica[d])))
      BY <1>1
    <2> QED BY EmptyIsWellFormed
  <1> QED BY <1>8, <1>10, <1>11, <1>12, <1>13, <1>14, <1>15 DEF Inductive, Replicated

\* What a step leaves in flight and in the history stays sayable.
LEMMA StillSayable ==
  ASSUME Inductive, Remembered, NEW d \in Devices
  PROVE  /\ pending[d] \in Sayings(Heard(replica'[d])) \cup {<<>>}
         /\ WellFormed(history[d], Sayable(Heard(replica'[d])))
  <1>1. Heard(replica[d]) \subseteq Heard(replica'[d]) BY DEF Remembered
  <1>2. /\ Sayable(Heard(replica[d])) \subseteq Sayable(Heard(replica'[d]))
        /\ Sayings(Heard(replica[d])) \subseteq Sayings(Heard(replica'[d]))
    BY <1>1, SayableGrows
  <1>3. /\ pending[d] \in Sayings(Heard(replica[d])) \cup {<<>>}
        /\ WellFormed(history[d], Sayable(Heard(replica[d])))
    BY DEF Inductive
  <1> QED BY <1>2, <1>3, WiderIsWellFormed

LEMMA EditKeeps ==
  ASSUME Inductive, NEW d \in Devices, NEW kinds \in Sayings(Heard(replica[d])), Edit(d, kinds)
  PROVE  Inductive'
  <1>1. Replicated' /\ Remembered BY AuthorKeeps DEF Edit, Inductive
  <1>2. pending' = pending /\ history' = history BY DEF Edit
  <1>3. \A e \in Devices : /\ pending[e] \in Sayings(Heard(replica'[e])) \cup {<<>>}
                           /\ WellFormed(history[e], Sayable(Heard(replica'[e])))
    BY <1>1, StillSayable
  <1> QED BY <1>1, <1>2, <1>3 DEF Inductive

\* A recorded command, which may also clear what was in flight.
LEMMA ActKeeps ==
  ASSUME Inductive, NEW d \in Devices, NEW kinds \in Sayings(Heard(replica[d])), Act(d, kinds),
         DOMAIN pending' = Devices, \A e \in Devices : pending'[e] \in {pending[e], <<>>}
  PROVE  Inductive'
  <1> DEFINE H       == Heard(replica'[d])
             K       == Sayable(H)
             inverse == InverseKinds(replica[d], kinds)
             next    == RecordAction(history[d], kinds, inverse, replica'[d], HistoryLimit[d])
  <1>1. PICK ops \in Stamped(d, kinds) : Author(d, ops) BY DEF Act
  <1>2. /\ Replicated' /\ Remembered
        /\ \A i \in 1..Len(kinds) : Needs(kinds[i]) \cup Makes(kinds[i]) \subseteq H
    BY <1>1, AuthorKeeps DEF Inductive
  <1>3. replica[d] \in Repaired /\ Shows(replica[d], Applied(d)) /\ Heard(replica[d]) \subseteq H
    BY <1>2, DeviceIsReplica DEF Inductive, Replicated, Typed, Reflected, Remembered
  <1>4. kinds \in Seq(Kinds) /\ kinds # <<>> BY DEF Sayings
  <1> HIDE DEF H
  <1>5. ASSUME NEW i \in 1..Len(kinds)
        PROVE  kinds[i] \in K /\ InverseOf(replica[d], kinds[i]) \in Seq(K)
    <2>1. kinds[i] \in Kinds /\ Needs(kinds[i]) \subseteq H /\ Makes(kinds[i]) \subseteq H BY <1>2, <1>4
    <2>2. kinds[i] \in K BY <2>1 DEF Sayable
    <2>3. InverseOf(replica[d], kinds[i]) \in Seq(K) BY <1>3, <2>1, InverseOfType
    <2> QED BY <2>2, <2>3
  <1> HIDE DEF K
  <1>6. kinds \in Seq(K) BY <1>4, <1>5
  <1>7. inverse \in Seq(K) BY <1>4, <1>5, InverseKindsType
  <1>8. HistoryLimit[d] \in Nat /\ WellFormed(history[d], K)
    BY <1>2, ConvergenceAssumption, StillSayable DEF H, K
  <1>9. WellFormed(next, K)
    <2> HIDE DEF inverse
    <2> QED BY <1>4, <1>6, <1>7, <1>8, RecordIsWellFormed
  <1>10. history' = [history EXCEPT ![d] = next] BY DEF Act
  <1> HIDE DEF next
  <1>11. DOMAIN history' = Devices
         /\ \A e \in Devices : WellFormed(history'[e], Sayable(Heard(replica'[e])))
    BY <1>2, <1>9, <1>10, StillSayable DEF Inductive, H, K
  <1>12. \A e \in Devices : pending'[e] \in Sayings(Heard(replica'[e])) \cup {<<>>}
    BY <1>2, StillSayable
  <1> QED BY <1>2, <1>11, <1>12 DEF Inductive

LEMMA ReplicatedStays ==
  ASSUME Replicated, UNCHANGED <<replica, clock, outbox, position, log>>
  PROVE  Replicated'
  <1>1. \A r \in Replicas : Applied(r)' = Applied(r) BY DEF Applied, Echoes
  <1>2. Logged' = Logged /\ Written' = Written BY DEF Logged, Written
  <1>3. Typed' BY DEF Replicated, Typed
  <1>4. Reflected'
    <2> SUFFICES ASSUME NEW r \in Replicas PROVE Shows(replica'[r], Applied(r)') /\ Past(Applied(r)')
      BY DEF Reflected
    <2>1. Shows(replica[r], Applied(r)) /\ Past(Applied(r)) BY DEF Replicated, Reflected
    <2>2. Applied(r)' = Applied(r) /\ replica'[r] = replica[r] BY <1>1
    <2> QED BY <2>1, <2>2, Zenon
  <1>5. Grounded' BY <1>2 DEF Replicated, Grounded
  <1>6. Distinct' BY <1>2 DEF Replicated, Distinct, StampsDiffer
  <1>7. Timely' BY <1>1, DeviceIsReplica DEF Replicated, Timely
  <1> QED BY <1>3, <1>4, <1>5, <1>6, <1>7 DEF Replicated

LEMMA PrepareKeeps ==
  ASSUME Inductive, NEW d \in Devices, NEW kinds \in Sayings(Heard(replica[d])) \cup {<<>>},
         Prepare(d, kinds)
  PROVE  Inductive'
  <1>1. pending' = [pending EXCEPT ![d] = kinds] BY DEF Prepare
  <1>2. UNCHANGED <<replica, clock, outbox, position, log, history>> BY DEF Prepare
  <1>3. Replicated' BY <1>2, ReplicatedStays DEF Inductive
  <1> QED BY <1>1, <1>2, <1>3 DEF Inductive

LEMMA CommitKeeps ==
  ASSUME Inductive, NEW d \in Devices, Commit(d)
  PROVE  Inductive'
  <1>1. pending[d] \in Sayings(Heard(replica[d])) BY DEF Inductive, Commit
  <1>2. DOMAIN pending' = Devices /\ \A e \in Devices : pending'[e] \in {pending[e], <<>>}
    BY DEF Inductive, Commit
  <1> QED BY <1>1, <1>2, ActKeeps DEF Commit

LEMMA MoveHistoryKeeps ==
  ASSUME Inductive, NEW d \in Devices, NEW source \in {"undo", "redo"}, MoveHistory(d, source)
  PROVE  Inductive'
  <1> DEFINE entry   == Newest(history[d], source)
             payload == entry[Selected(source)]
             before  == Sayable(Heard(replica[d]))
             K       == Sayable(Heard(replica'[d]))
  <1>1. WellFormed(history[d], before) /\ history[d][source] # <<>> BY DEF Inductive, MoveHistory
  <1>2. pending' = pending BY DEF MoveHistory
  <1>3. CASE StillApplies(replica[d], payload)
    <2>1. payload.kinds \in Seq(before) /\ payload.kinds # <<>>
      <3> HIDE DEF before
      <3>1. PICK S : Holds(history[d], S) /\ \A e \in S : Carries(e, before) BY <1>1 DEF WellFormed
      <3>2. history[d][source] \in Seq(S) BY <3>1 DEF Holds
      <3>3. entry \in S BY <1>1, <3>2, OlderType DEF Newest
      <3>4. Carries(entry, before) BY <3>1, <3>3
      <3> HIDE DEF entry
      <3> QED BY <3>4 DEF Carries, Selected
    <2>2. payload.kinds \in Sayings(Heard(replica[d]))
      <3> HIDE DEF payload
      <3> QED BY <2>1, SayableIsSaying
    <2>3. PICK ops \in Stamped(d, payload.kinds) : Author(d, ops)
      BY <1>3 DEF MoveHistory
    <2>4. Replicated' /\ Remembered
      <3> HIDE DEF payload
      <3> QED BY <2>2, <2>3, AuthorKeeps DEF Inductive
    <2>5. history' = [history EXCEPT ![d] = Moved(history[d], source, replica'[d])]
      BY <1>3 DEF MoveHistory
    <2>6. WellFormed(history[d], K) BY <2>4, StillSayable
    <2>7. WellFormed(Moved(history[d], source, replica'[d]), K)
      <3> HIDE DEF K
      <3> QED BY <1>1, <2>6, MovedIsWellFormed
    <2>8. DOMAIN history' = Devices
          /\ \A e \in Devices : WellFormed(history'[e], Sayable(Heard(replica'[e])))
      BY <2>4, <2>5, <2>7, StillSayable DEF Inductive
    <2>9. \A e \in Devices : pending'[e] \in Sayings(Heard(replica'[e])) \cup {<<>>}
      BY <1>2, <2>4, StillSayable
    <2>10. DOMAIN pending' = Devices BY <1>2 DEF Inductive
    <2> QED BY <2>4, <2>8, <2>9, <2>10 DEF Inductive
  <1>4. CASE ~StillApplies(replica[d], payload)
    <2>1. history' = [history EXCEPT ![d] = Dropped(history[d], source)]
          /\ UNCHANGED <<replica, clock, outbox, position, log>>
      BY <1>4 DEF MoveHistory
    <2>2. WellFormed(Dropped(history[d], source), before)
      <3> HIDE DEF before
      <3> QED BY <1>1, DroppedIsWellFormed
    <2>3. DOMAIN history' = Devices
          /\ \A e \in Devices : WellFormed(history'[e], Sayable(Heard(replica'[e])))
      BY <2>1, <2>2 DEF Inductive
    <2>4. Replicated' BY <2>1, ReplicatedStays DEF Inductive
    <2> QED BY <1>2, <2>1, <2>3, <2>4 DEF Inductive
  <1> QED BY <1>3, <1>4

-----------------------------------------------------------------------------
(* The commands *)

LEMMA BlocksOfAreFinite ==
  ASSUME NEW B, B \subseteq Blocks
  PROVE  IsFiniteSet(B)
  BY FS_Subset, EngineAssumption

\* What a replica shows: each device has a repaired database of what it applied.
LEMMA DeviceShows ==
  ASSUME Inductive, NEW r \in Replicas
  PROVE  replica[r] \in Repaired /\ Shows(replica[r], Applied(r)) /\ Past(Applied(r))
  BY DEF Inductive, Replicated, Typed, Reflected

\* What a command reads has been heard of: pages, blocks, their pages and parents.
LEMMA ThereIsHeard ==
  ASSUME Inductive, NEW d \in Devices
  PROVE  /\ \A p \in Pages : PageExists(replica[d], p) => p \in Heard(replica[d])
         /\ \A b \in Blocks : BlockExists(replica[d], b) =>
              b \in Heard(replica[d]) /\ PageOf[b] \in Heard(replica[d])
         /\ \A b \in Blocks : replica[d].blocks[b].parent # None =>
              /\ replica[d].blocks[b].parent \in PlacesOf(b)
              /\ replica[d].blocks[b].parent \in Heard(replica[d])
  <1>1. replica[d] \in Repaired /\ Shows(replica[d], Applied(d)) BY DeviceIsReplica, DeviceShows
  <1>2. InGeneration(replica[d]) BY <1>1 DEF Shows, Consistent
  <1>3. \A b \in Blocks : PageOf[b] \in Pages BY EngineAssumption
  <1>4. \A b \in Blocks : replica[d].blocks[b].parent # None =>
          /\ replica[d].blocks[b].parent \in PlacesOf(b)
          /\ replica[d].blocks[b].parent \in Heard(replica[d])
    BY <1>1, RepairedShows
  <1> QED BY <1>2, <1>3, <1>4, HeardMembers DEF InGeneration

LEMMA CreatePageKeeps ==
  ASSUME Inductive, NEW d \in Devices, NEW p \in Pages, NEW title \in Titles \cup {None},
         CreatePage(d, p, title)
  PROVE  Inductive'
  <1>1. <<PageCreates(p, title)>> \in Sayings(Heard(replica[d])) BY SayableKinds, OneSaying
  <1> QED BY <1>1, PrepareKeeps DEF CreatePage

LEMMA EnsureJournalKeeps ==
  ASSUME Inductive, NEW d \in Devices, NEW p \in Pages, EnsureJournal(d, p)
  PROVE  Inductive'
  <1>1. <<PageCreates(p, None)>> \in Sayings(Heard(replica[d])) BY SayableKinds, OneSaying
  <1>2. DOMAIN pending' = Devices /\ \A e \in Devices : pending'[e] \in {pending[e], <<>>}
    BY DEF EnsureJournal, Inductive
  <1> QED BY <1>1, <1>2, ActKeeps DEF EnsureJournal

LEMMA RenamePageKeeps ==
  ASSUME Inductive, NEW d \in Devices, NEW p \in Pages, NEW title \in Titles \cup {None},
         RenamePage(d, p, title)
  PROVE  Inductive'
  <1>1. p \in Heard(replica[d]) BY ThereIsHeard DEF RenamePage
  <1>2. <<PageSetsTitle(p, title)>> \in Sayings(Heard(replica[d])) BY <1>1, SayableKinds, OneSaying
  <1> QED BY <1>2, EditKeeps DEF RenamePage

LEMMA DeletePageKeeps ==
  ASSUME Inductive, NEW d \in Devices, NEW p \in Pages, DeletePage(d, p)
  PROVE  Inductive'
  <1> DEFINE blocks == BlocksOf(replica[d], p)
             H      == Heard(replica[d])
             K      == Sayable(H)
  <1>1. blocks \subseteq Blocks /\ \A b \in blocks : BlockDeletes(b) \in K
    BY ThereIsHeard, SayableKinds DEF BlocksOf
  <1>2. PICK doomed \in SetToSeqs(blocks) :
          Act(d, Append([i \in 1..Len(doomed) |-> BlockDeletes(doomed[i])], PageDeletes(p)))
    BY DEF DeletePage
  <1> HIDE DEF blocks
  <1>3. doomed \in Seq(blocks) BY <1>1, <1>2, BlocksOfAreFinite, OrderType
  <1> DEFINE deletes == [i \in 1..Len(doomed) |-> BlockDeletes(doomed[i])]
             all     == Append(deletes, PageDeletes(p))
  <1>4. PageDeletes(p) \in K
    <2>1. p \in H BY ThereIsHeard DEF DeletePage
    <2> QED BY <2>1, SayableKinds
  <1> HIDE DEF K, H
  <1>5. Len(doomed) \in Nat /\ \A i \in 1..Len(doomed) : BlockDeletes(doomed[i]) \in K
    BY <1>1, <1>3
  <1>6. deletes \in Seq(K) /\ Len(deletes) \in Nat BY <1>5
  <1>7. Act(d, all) BY <1>2
  <1> HIDE DEF deletes
  <1>8. all \in Seq(K) /\ all # <<>>
    <2>1. all \in Seq(K) /\ Len(all) = Len(deletes) + 1 BY <1>4, <1>6
    <2>2. Len(all) # 0 BY <1>6, <2>1
    <2> HIDE DEF all
    <2>3. all = <<>> => Len(all) = 0 OBVIOUS
    <2> QED BY <2>1, <2>2, <2>3
  <1>9. DOMAIN pending' = Devices /\ \A e \in Devices : pending'[e] \in {pending[e], <<>>}
    BY DEF DeletePage, Inductive
  <1> HIDE DEF all
  <1>10. all \in Sayings(Heard(replica[d])) BY <1>8, SayableIsSaying DEF K, H
  <1> QED BY <1>7, <1>9, <1>10, ActKeeps

\* The blocks at a place, and one more, may all be moved there.
LEMMA MovesAround ==
  ASSUME Inductive, NEW d \in Devices, NEW b \in Blocks, NEW parent \in (Blocks \ {b}) \cup {None},
         parent # None => parent \in BlocksOf(replica[d], PageOf[b])
  PROVE  /\ parent \in PlacesOf(b) /\ (parent # None => parent \in Heard(replica[d]))
         /\ \A c \in Children(replica[d], PageOf[b], parent) :
              /\ c \in Blocks /\ parent \in PlacesOf(c)
              /\ BlockMoves(c, parent) \in Sayable(Heard(replica[d]))
  <1> DEFINE db == replica[d]
             H  == Heard(db)
  <1>1. parent \in PlacesOf(b) BY DEF PlacesOf, BlocksOf
  <1>2. parent # None => parent \in H BY ThereIsHeard DEF BlocksOf
  <1>3. ASSUME NEW c \in Children(db, PageOf[b], parent)
        PROVE  c \in Blocks /\ parent \in PlacesOf(c) /\ BlockMoves(c, parent) \in Sayable(H)
    <2>1. c \in Blocks /\ BlockExists(db, c) /\ db.blocks[c].parent = parent
      BY DEF Children, BlocksOf
    <2>2. parent \in PlacesOf(c)
      <3>1. CASE parent = None BY <3>1 DEF PlacesOf
      <3>2. CASE parent # None BY <2>1, <3>2, ThereIsHeard
      <3> QED BY <3>1, <3>2
    <2>3. c \in H BY <2>1, ThereIsHeard
    <2> HIDE DEF H
    <2> QED BY <1>2, <2>1, <2>2, <2>3, SayableKinds
  <1> QED BY <1>1, <1>2, <1>3

LEMMA CreateBlockKeeps ==
  ASSUME Inductive, NEW d \in Devices, NEW b \in Blocks, NEW parent \in (Blocks \ {b}) \cup {None},
         CreateBlock(d, b, parent)
  PROVE  Inductive'
  <1> DEFINE H        == Heard(replica[d])
             siblings == Children(replica[d], PageOf[b], parent)
             around   == siblings \cup {b}
             row(s)   == [i \in 1..Len(s) |-> BlockMoves(s[i], parent)]
             first    == <<BlockCreates(b, parent)>>
  <1>1. /\ PageExists(replica[d], PageOf[b])
        /\ parent # None => parent \in BlocksOf(replica[d], PageOf[b])
    BY DEF CreateBlock
  <1>2. /\ parent \in PlacesOf(b) /\ (parent # None => parent \in H)
        /\ \A c \in siblings : /\ c \in Blocks /\ parent \in PlacesOf(c)
                               /\ BlockMoves(c, parent) \in Sayable(H)
    BY <1>1, MovesAround
  <1>3. PageOf[b] \in H BY <1>1, EngineAssumption, ThereIsHeard
  <1>4. PICK ordered \in SetToSeqs(around) \cup {<<>>} : Prepare(d, first \o row(ordered))
    BY DEF CreateBlock
  <1> HIDE DEF H, siblings
  <1>5. /\ BlockCreates(b, parent) \in Sayable(H)
        /\ BlockMoves(b, parent) \in Sayable(H \cup {b})
    <2>1. PageOf[b] \in H /\ parent \in PlacesOf(b) /\ (parent # None => parent \in H) BY <1>2, <1>3
    <2>2. b \in H \cup {b} /\ (parent # None => parent \in H \cup {b}) BY <2>1
    <2> QED BY <2>1, <2>2, SayableKinds
  <1>6. Sayable(H) \subseteq Sayable(H \cup {b}) BY SayableGrows
  <1> DEFINE K == Sayable(H \cup {b})
  <1>7. around \subseteq Blocks /\ \A c \in around : BlockMoves(c, parent) \in K
    BY <1>2, <1>5, <1>6
  <1>8. /\ K \subseteq Kinds /\ Sayable(H) \subseteq Kinds
        /\ \A k \in K : Needs(k) \subseteq H \cup {b}
        /\ \A k \in Sayable(H) : Needs(k) \subseteq H
    BY DEF Sayable
  <1> HIDE DEF around, K
  <1>9. ordered \in Seq(around)
    <2>1. CASE ordered = <<>> BY <2>1
    <2>2. CASE ordered \in SetToSeqs(around) BY <1>7, <2>2, BlocksOfAreFinite, OrderType
    <2> QED BY <1>4, <2>1, <2>2
  <1> DEFINE moves == row(ordered)
             all   == first \o moves
  <1>10. moves \in Seq(K)
    <2>1. Len(ordered) \in Nat /\ \A i \in 1..Len(ordered) : BlockMoves(ordered[i], parent) \in K
      BY <1>7, <1>9
    <2> QED BY <2>1
  <1>11. /\ first \in Seq(Kinds) /\ Len(first) = 1
         /\ Makes(first[1]) = {b} /\ Needs(first[1]) \subseteq H
    <2>1. BlockCreates(b, parent) \in Kinds /\ Needs(BlockCreates(b, parent)) \subseteq H BY <1>5, <1>8
    <2>2. Makes(BlockCreates(b, parent)) = {b} BY MakesAndNeeds
    <2> QED BY <2>1, <2>2
  <1>12. Prepare(d, all) BY <1>4
  <1> HIDE DEF first, moves
  <1>13. /\ moves \in Seq(Kinds) /\ Len(moves) \in Nat
         /\ \A i \in 1..Len(moves) : moves[i] \in K
    BY <1>8, <1>10
  <1>14. /\ all \in Seq(Kinds) /\ Len(all) = 1 + Len(moves)
         /\ \A i \in 1..1 : all[i] = first[i]
         /\ \A i \in 1..Len(moves) : all[1 + i] = moves[i]
    <2>1. first \in Seq(Kinds) /\ moves \in Seq(Kinds) BY <1>11, <1>13
    <2>2. /\ Len(first) \in Nat /\ Len(moves) \in Nat
          /\ Len(first \o moves) = Len(first) + Len(moves) /\ first \o moves \in Seq(Kinds)
          /\ \A i \in 1..Len(first) : (first \o moves)[i] = first[i]
          /\ \A i \in 1..Len(moves) : (first \o moves)[Len(first) + i] = moves[i]
      BY <2>1
    <2>3. Len(first) = 1 BY <1>11
    <2> QED BY <2>2, <2>3, Zenon DEF all
  <1> HIDE DEF all
  <1>15. all[1] = first[1]
    <2>1. 1 \in 1..1 OBVIOUS
    <2> QED BY <1>14, <2>1
  <1>16. all # <<>> BY <1>13, <1>14
  <1>17. ASSUME NEW i \in 1..Len(all)
         PROVE  Needs(all[i]) \subseteq H \cup UNION {Makes(all[j]) : j \in 1..(i-1)}
    <2>1. CASE i = 1 BY <1>11, <1>15, <2>1
    <2>2. CASE i # 1
      <3>1. i - 1 \in 1..Len(moves) /\ 1 + (i - 1) = i /\ 1 \in 1..(i-1) BY <1>13, <1>14, <2>2
      <3>2. all[i] = moves[i-1] BY <1>14, <3>1
      <3>3. Needs(all[i]) \subseteq H \cup {b} BY <1>8, <1>13, <3>1, <3>2
      <3>4. Makes(all[1]) = {b} BY <1>11, <1>15
      <3> QED BY <3>1, <3>3, <3>4
    <2> QED BY <2>1, <2>2
  <1>18. all \in Sayings(Heard(replica[d])) BY <1>14, <1>16, <1>17 DEF Sayings, H
  <1> QED BY <1>12, <1>18, PrepareKeeps

LEMMA MoveBlockKeeps ==
  ASSUME Inductive, NEW d \in Devices, NEW b \in Blocks, NEW parent \in (Blocks \ {b}) \cup {None},
         MoveBlock(d, b, parent)
  PROVE  Inductive'
  <1> DEFINE H        == Heard(replica[d])
             siblings == Children(replica[d], PageOf[b], parent)
             around   == (siblings \ {b}) \cup {b}
             row(s)   == [i \in 1..Len(s) |-> BlockMoves(s[i], parent)]
  <1>1. /\ BlockExists(replica[d], b)
        /\ parent # None => parent \in BlocksOf(replica[d], PageOf[b])
    BY DEF MoveBlock
  <1>2. /\ parent \in PlacesOf(b) /\ (parent # None => parent \in H)
        /\ \A c \in siblings : /\ c \in Blocks /\ parent \in PlacesOf(c)
                               /\ BlockMoves(c, parent) \in Sayable(H)
    BY <1>1, MovesAround
  <1>3. b \in H BY <1>1, ThereIsHeard
  <1>4. PICK ordered \in SetToSeqs(around) : Prepare(d, row(ordered)) BY DEF MoveBlock
  <1> HIDE DEF H, siblings
  <1>5. BlockMoves(b, parent) \in Sayable(H) BY <1>2, <1>3, SayableKinds
  <1>6. around \subseteq Blocks /\ \A c \in around : BlockMoves(c, parent) \in Sayable(H)
    BY <1>2, <1>5
  <1> HIDE DEF around
  <1>7. ordered \in Seq(around) BY <1>4, <1>6, BlocksOfAreFinite, OrderType
  <1> DEFINE moves == row(ordered)
  <1>8. moves \in Seq(Sayable(H))
    <2>1. Len(ordered) \in Nat /\ \A i \in 1..Len(ordered) : BlockMoves(ordered[i], parent) \in Sayable(H)
      BY <1>6, <1>7
    <2> QED BY <2>1
  <1>9. Prepare(d, moves) BY <1>4
  <1> HIDE DEF moves
  <1>10. moves \in Sayings(Heard(replica[d])) \cup {<<>>} BY <1>8, SayableIsSaying DEF H
  <1> QED BY <1>9, <1>10, PrepareKeeps

LEMMA SetBlockContentKeeps ==
  ASSUME Inductive, NEW d \in Devices, NEW b \in Blocks, SetBlockContent(d, b)
  PROVE  Inductive'
  <1>1. b \in Heard(replica[d]) BY ThereIsHeard DEF SetBlockContent
  <1>2. <<BlockSetsMarkdown(b)>> \in Sayings(Heard(replica[d])) BY <1>1, SayableKinds, OneSaying
  <1> QED BY <1>2, EditKeeps DEF SetBlockContent

LEMMA DeleteBlockKeeps ==
  ASSUME Inductive, NEW d \in Devices, NEW b \in Blocks, DeleteBlock(d, b)
  PROVE  Inductive'
  <1>1. b \in Heard(replica[d]) /\ PageOf[b] \in Heard(replica[d]) BY ThereIsHeard DEF DeleteBlock
  <1>2. <<BlockDeletes(b)>> \in Sayings(Heard(replica[d])) BY <1>1, SayableKinds, OneSaying
  <1> QED BY <1>2, PrepareKeeps DEF DeleteBlock

-----------------------------------------------------------------------------
(* The exchange *)

LEMMA RestOfRow ==
  ASSUME NEW S, NEW s \in Seq(S), NEW k \in Nat, k <= Len(s)
  PROVE  /\ SubSeq(s, k + 1, Len(s)) \in Seq(S)
         /\ Len(SubSeq(s, k + 1, Len(s))) = Len(s) - k
         /\ \A i \in 1..(Len(s) - k) : k + i \in 1..Len(s) /\ SubSeq(s, k + 1, Len(s))[i] = s[k + i]
  <1>1. Len(s) \in Nat /\ \A i \in (k + 1)..Len(s) : s[i] \in S OBVIOUS
  <1>2. SubSeq(s, k + 1, Len(s)) \in Seq(S) /\ Len(SubSeq(s, k + 1, Len(s))) = Len(s) - k
    BY <1>1
  <1>3. ASSUME NEW i \in 1..(Len(s) - k)
        PROVE  k + i \in 1..Len(s) /\ SubSeq(s, k + 1, Len(s))[i] = s[k + i]
    <2>1. k + i \in 1..Len(s) /\ (k + 1) + i - 1 = k + i /\ i \in 1..(Len(s) + 1 - (k + 1))
      BY <1>1
    <2>2. SubSeq(s, k + 1, Len(s))[i] = s[(k + 1) + i - 1] BY <1>1, <2>1
    <2> QED BY <2>1, <2>2
  <1> QED BY <1>2, <1>3

\* What a device has not read is the rest of the log.
LEMMA UnseenIs ==
  ASSUME Typed, NEW d \in Devices
  PROVE  /\ log \in Seq(Operations) /\ Unseen(d) \in Seq(Operations)
         /\ position[d] \in 0..Len(log) /\ Len(log) \in Nat
         /\ Len(Unseen(d)) \in Nat /\ position[d] + Len(Unseen(d)) = Len(log)
         /\ \A i \in 1..Len(Unseen(d)) :
              position[d] + i \in 1..Len(log) /\ Unseen(d)[i] = log[position[d] + i]
         /\ ToSet(log) = Rows(log, position[d]) \cup ToSet(Unseen(d))
         /\ \A m \in 0..Len(Unseen(d)) :
              Rows(log, position[d] + m) = Rows(log, position[d]) \cup Rows(Unseen(d), m)
  <1> DEFINE k == position[d]
             n == Len(log)
             rest == Unseen(d)
  <1>1. log \in Seq(Operations) /\ k \in Nat /\ k <= n /\ n \in Nat BY DEF Typed
  <1>2. rest \in Seq(Operations) /\ Len(rest) = n - k BY <1>1, RestOfRow DEF Unseen
  <1>3. k \in 0..n /\ Len(rest) \in Nat /\ k + Len(rest) = n BY <1>1, <1>2
  <1>4. ASSUME NEW i \in 1..Len(rest) PROVE k + i \in 1..n /\ rest[i] = log[k + i]
    <2>1. i \in 1..(n - k) BY <1>2
    <2> QED BY <1>1, <2>1, RestOfRow DEF Unseen
  <1> HIDE DEF rest, k
  <1>5. ASSUME NEW m \in 0..Len(rest) PROVE Rows(log, k + m) = Rows(log, k) \cup Rows(rest, m)
    <2>1. ASSUME NEW x \in Rows(log, k + m) PROVE x \in Rows(log, k) \cup Rows(rest, m)
      <3>1. PICK i \in 1..(k + m) : x = log[i] BY DEF Rows
      <3>2. CASE i \in 1..k BY <3>1, <3>2 DEF Rows
      <3>3. CASE i \notin 1..k
        <4>1. i - k \in 1..m /\ i - k \in 1..Len(rest) /\ k + (i - k) = i BY <1>1, <1>3, <3>3
        <4>2. rest[i - k] = log[i] BY <1>4, <4>1
        <4> QED BY <3>1, <4>1, <4>2 DEF Rows
      <3> QED BY <3>2, <3>3
    <2>2. Rows(log, k) \subseteq Rows(log, k + m)
      <3>1. 1..k \subseteq 1..(k + m) BY <1>1, <1>3
      <3> QED BY <3>1 DEF Rows
    <2>3. Rows(rest, m) \subseteq Rows(log, k + m)
      <3> SUFFICES ASSUME NEW i \in 1..m PROVE rest[i] \in Rows(log, k + m) BY DEF Rows
      <3>1. k + i \in 1..(k + m) /\ i \in 1..Len(rest) BY <1>1, <1>3
      <3>2. rest[i] = log[k + i] BY <1>4, <3>1
      <3> QED BY <3>1, <3>2 DEF Rows
    <2> QED BY <2>1, <2>2, <2>3
  <1>6. ToSet(log) = Rows(log, k) \cup ToSet(rest)
    <2>1. ToSet(log) = Rows(log, n) /\ ToSet(rest) = Rows(rest, Len(rest)) BY <1>1, <1>2, AllRows
    <2>2. Len(rest) \in 0..Len(rest) BY <1>3
    <2>3. Rows(log, k + Len(rest)) = Rows(log, k) \cup Rows(rest, Len(rest)) BY <1>5, <2>2
    <2> QED BY <1>3, <2>1, <2>3
  <1> QED BY <1>1, <1>2, <1>3, <1>4, <1>5, <1>6 DEF k, rest

\* No operation is twice in a row without repetition.
LEMMA NotBefore ==
  ASSUME NEW S, NEW s \in Seq(S), Unrepeated(s), NEW i \in 1..Len(s), NEW m \in Nat, m < i
  PROVE  s[i] \notin Rows(s, m)
  <1>1. \A j \in 1..m : j \in 1..Len(s) /\ j # i OBVIOUS
  <1> QED BY <1>1 DEF Unrepeated, Rows

\* What a device has written fits what the server has applied.
LEMMA OutboxFits ==
  ASSUME Replicated, NEW d \in Devices
  PROVE  Fits(Logged, {}, outbox[d]) /\ outbox[d] \in Seq(Operations)
  <1>1. Typed /\ Grounded /\ Distinct BY DEF Replicated
  <1>2. outbox[d] \in Seq(Operations) BY <1>1 DEF Typed
  <1>3. ASSUME NEW i \in 1..Len(outbox[d])
        PROVE  /\ outbox[d][i] \notin Logged \cup Rows(outbox[d], i - 1)
               /\ Grounds(Logged \cup Rows(outbox[d], i - 1), outbox[d][i])
    <2>1. outbox[d][i] \in ToSet(outbox[d]) /\ i - 1 \in Nat /\ i - 1 < i BY <1>2, AllRows
    <2>2. outbox[d][i] \notin Logged BY <1>1, <2>1 DEF Distinct
    <2>3. outbox[d][i] \notin Rows(outbox[d], i - 1) BY <1>1, <1>2, <2>1, NotBefore DEF Distinct
    <2> QED BY <1>1, <2>2, <2>3 DEF Grounded
  <1> QED BY <1>2, <1>3 DEF Fits

\* What is new of the log fits what a device has applied.
LEMMA UnseenFits ==
  ASSUME Replicated, NEW d \in Devices
  PROVE  Fits(Applied(d), Echoes(d), Unseen(d)) /\ Unseen(d) \in Seq(Operations)
  <1> DEFINE A    == Applied(d)
             rest == Unseen(d)
             k    == position[d]
  <1>1. Typed /\ Grounded /\ Distinct BY DEF Replicated
  <1>2. /\ log \in Seq(Operations) /\ rest \in Seq(Operations) /\ k \in 0..Len(log)
        /\ \A i \in 1..Len(rest) : k + i \in 1..Len(log) /\ rest[i] = log[k + i]
        /\ \A m \in 0..Len(rest) : Rows(log, k + m) = Rows(log, k) \cup Rows(rest, m)
    BY <1>1, UnseenIs
  <1>3. A = ToSet(Seeds) \cup Rows(log, k) \cup Echoes(d) \cup ToSet(outbox[d]) BY <1>1, AppliedIs
  <1> HIDE DEF A, rest, k
  <1>4. ASSUME NEW i \in 1..Len(rest), rest[i] \notin Echoes(d)
        PROVE  rest[i] \notin A \cup Rows(rest, i - 1) /\ Grounds(A \cup Rows(rest, i - 1), rest[i])
    <2> DEFINE m == k + (i - 1)
    <2>1. /\ k + i \in 1..Len(log) /\ rest[i] = log[k + i] /\ i - 1 \in 0..Len(rest)
          /\ m = (k + i) - 1 /\ m \in Nat /\ m < k + i
      BY <1>2
    <2>2. Rows(log, m) = Rows(log, k) \cup Rows(rest, i - 1) BY <1>2, <2>1
    <2>3. log[k + i] \notin Rows(log, m) BY <1>1, <1>2, <2>1, NotBefore DEF Distinct
    <2>4. log[k + i] \in ToSet(log) /\ ToSet(log) \subseteq Logged BY <1>2, <2>1, AllRows DEF Logged
    <2>5. log[k + i] \notin ToSet(Seeds) /\ log[k + i] \notin ToSet(outbox[d])
      BY <1>1, <2>4 DEF Distinct
    <2>6. Grounds(ToSet(Seeds) \cup Rows(log, m), log[k + i]) BY <1>1, <2>1, Zenon DEF Grounded
    <2>7. ToSet(Seeds) \cup Rows(log, m) \subseteq A \cup Rows(rest, i - 1) BY <1>3, <2>2
    <2> HIDE DEF m
    <2>8. Grounds(A \cup Rows(rest, i - 1), log[k + i]) BY <2>6, <2>7, GroundsGrow
    <2> QED BY <1>3, <1>4, <2>1, <2>2, <2>3, <2>5, <2>8
  <1>5. Echoes(d) \subseteq A BY <1>3
  <1> QED BY <1>2, <1>4, <1>5 DEF Fits, A, rest

LEMMA PushKeeps ==
  ASSUME Inductive, NEW d \in Devices, Push(d)
  PROVE  Inductive'
  <1> DEFINE old   == outbox[d]
             after == ApplyUnknown(replica[Server], {}, old)
             all   == log \o old
  <1>1. Typed /\ Reflected /\ Grounded /\ Distinct /\ Timely /\ Replicated
    BY DEF Inductive, Replicated
  <1>2. Fits(Logged, {}, old) /\ old \in Seq(Operations) BY <1>1, OutboxFits
  <1>3. /\ after.ok /\ after.db \in Repaired
        /\ Shows(after.db, Logged \cup ToSet(old)) /\ Past(Logged \cup ToSet(old))
    <2>1. /\ replica[Server] \in Repaired /\ Shows(replica[Server], Applied(Server))
          /\ Past(Applied(Server)) /\ Applied(Server) = Logged
      BY <1>1, DeviceIsReplica, DeviceShows, AppliedIs
    <2>2. Shows(replica[Server], Logged) /\ Past(Logged) BY <2>1, Zenon
    <2>3. replica[Server] \in Sound BY <2>1, RepairedIsSound
    <2> HIDE DEF old
    <2> QED BY <1>2, <2>2, <2>3, BatchShows
  <1>4. /\ replica' = [replica EXCEPT ![Server] = after.db]
        /\ outbox' = [outbox EXCEPT ![d] = <<>>] /\ log' = all
        /\ clock' = clock /\ position' = position /\ history' = history /\ pending' = pending
    BY DEF Push, ApplyBatch
  <1> HIDE DEF after
  <1>5. /\ replica'[Server] = after.db /\ outbox'[d] = <<>> /\ Len(outbox'[d]) = 0
        /\ ToSet(outbox'[d]) = {}
        /\ \A e \in Devices : replica'[e] = replica[e]
        /\ \A e \in Devices \ {d} : outbox'[e] = outbox[e]
    <2>1. ToSet(<<>>) = {} BY DEF ToSet
    <2> QED BY <1>1, <1>4, <2>1, DeviceIsReplica DEF Typed
  <1>6. /\ all \in Seq(Operations) /\ Len(log) \in Nat /\ Len(old) \in Nat
        /\ Len(all) = Len(log) + Len(old) /\ log \in Seq(Operations)
        /\ \A i \in 1..Len(log) : all[i] = log[i]
        /\ \A i \in 1..Len(old) : all[Len(log) + i] = old[i]
    <2>1. log \in Seq(Operations) BY <1>1 DEF Typed
    <2> HIDE DEF old
    <2> QED BY <1>2, <2>1, JoinedRows
  <1>7. /\ ToSet(all) = ToSet(log) \cup ToSet(old)
        /\ \A m \in 0..Len(log) : Rows(all, m) = Rows(log, m)
        /\ \A m \in 0..Len(old) : Rows(all, Len(log) + m) = ToSet(log) \cup Rows(old, m)
    <2> HIDE DEF old
    <2> QED BY <1>2, <1>6, RowsInRows
  <1>8. /\ Unrepeated(old) /\ ToSet(old) \cap Logged = {} /\ (\A op \in ToSet(old) : op.device = d)
        /\ Unrepeated(log) /\ ToSet(Seeds) \cap ToSet(log) = {}
    BY <1>1 DEF Distinct
  <1>9. Logged' = Logged \cup ToSet(old)
    <2>1. ToSet(log') = ToSet(log) \cup ToSet(old) BY <1>4, <1>7
    <2> HIDE DEF old
    <2> QED BY <2>1 DEF Logged
  <1>10. Typed'
    <2>1. <<>> \in Seq(Operations) OBVIOUS
    <2>2. outbox' \in [Devices -> Seq(Operations)] BY <1>1, <1>4, <2>1 DEF Typed
    <2>3. replica' \in [Replicas -> Repaired] BY <1>1, <1>3, <1>4 DEF Typed
    <2>4. \A e \in Devices : position[e] <= Len(all) BY <1>1, <1>6 DEF Typed
    <2>5. log' \in Seq(Operations) BY <1>4, <1>6
    <2> HIDE DEF all
    <2> QED BY <1>1, <1>4, <2>2, <2>3, <2>4, <2>5 DEF Typed
  <1>11. Applied(Server)' = Logged \cup ToSet(old) BY <1>9, <1>10, AppliedIs DEF Applied, Logged
  <1>12. ASSUME NEW e \in Devices PROVE Applied(e)' = Applied(e)
    <2>1. /\ Applied(e) = ToSet(Seeds) \cup Rows(log, position[e]) \cup Echoes(e) \cup ToSet(outbox[e])
          /\ Applied(e)' = ToSet(Seeds) \cup Rows(log', position'[e]) \cup Echoes(e)' \cup ToSet(outbox'[e])
      <3>1. e # Server BY DeviceIsReplica
      <3> QED BY <3>1 DEF Applied
    <2>2. Rows(log', position'[e]) = Rows(log, position[e])
      <3>1. position[e] \in 0..Len(log) BY <1>1, UnseenIs
      <3> HIDE DEF all
      <3> QED BY <1>4, <1>7, <3>1
    <2>3. \A x : x \in Echoes(e)' <=> x \in Echoes(e) \/ (x \in ToSet(old) /\ x.device = e)
      <3>1. ToSet(log') = ToSet(log) \cup ToSet(old) BY <1>4, <1>7
      <3> HIDE DEF old
      <3> QED BY <3>1 DEF Echoes
    <2>4. CASE e = d
      <3>1. \A x : x \in Echoes(e)' <=> x \in Echoes(e) \/ x \in ToSet(old) BY <1>8, <2>3, <2>4
      <3>2. ToSet(outbox'[e]) = {} /\ outbox[e] = old BY <1>5, <2>4
      <3> HIDE DEF old
      <3> QED BY <2>1, <2>2, <3>1, <3>2
    <2>5. CASE e # d
      <3>1. \A x : x \in Echoes(e)' <=> x \in Echoes(e) BY <1>8, <2>3, <2>5
      <3>2. outbox'[e] = outbox[e] BY <1>5, <2>5
      <3> QED BY <2>1, <2>2, <3>1, <3>2
    <2> QED BY <2>4, <2>5
  <1>13. Reflected'
    <2> SUFFICES ASSUME NEW r \in Replicas PROVE Shows(replica'[r], Applied(r)') /\ Past(Applied(r)')
      BY DEF Reflected
    <2>1. CASE r = Server
      <3>1. replica'[r] = after.db /\ Applied(r)' = Logged \cup ToSet(old) BY <1>5, <1>11, <2>1
      <3> QED BY <1>3, <3>1, Zenon
    <2>2. CASE r \in Devices
      <3>1. replica'[r] = replica[r] /\ Applied(r)' = Applied(r) BY <1>5, <1>12, <2>2
      <3>2. Shows(replica[r], Applied(r)) /\ Past(Applied(r)) BY <1>1 DEF Reflected
      <3> QED BY <3>1, <3>2, Zenon
    <2> QED BY <2>1, <2>2 DEF Replicas
  <1>14. Written' = Written
    <2>1. \A x : x \in Written' <=> x \in Logged' \/ \E e \in Devices : x \in ToSet(outbox'[e])
      BY DEF Written, Logged
    <2>2. \A x : x \in Written <=> x \in Logged \/ \E e \in Devices : x \in ToSet(outbox[e])
      BY DEF Written, Logged
    <2>3. \A e \in Devices : ToSet(outbox'[e]) = IF e = d THEN {} ELSE ToSet(outbox[e]) BY <1>5
    <2>4. \A x : x \in Logged' <=> x \in Logged \/ x \in ToSet(old) BY <1>9
    <2>5. \A x : (\E e \in Devices : x \in ToSet(outbox[e]))
                 <=> x \in ToSet(old) \/ (\E e \in Devices : x \in ToSet(outbox'[e]))
      BY <2>3
    <2> HIDE DEF old
    <2> QED BY <2>1, <2>2, <2>4, <2>5
  <1>15. ASSUME NEW i \in 1..Len(all)
         PROVE  Grounds(ToSet(Seeds) \cup Rows(all, i - 1), all[i])
    <2>1. CASE i \in 1..Len(log)
      <3>1. all[i] = log[i] /\ i - 1 \in 0..Len(log) BY <1>6, <2>1
      <3>2. Rows(all, i - 1) = Rows(log, i - 1) BY <1>7, <3>1
      <3>3. Grounds(ToSet(Seeds) \cup Rows(log, i - 1), log[i]) BY <1>1, <2>1 DEF Grounded
      <3> HIDE DEF all
      <3> QED BY <3>1, <3>2, <3>3, Zenon
    <2>2. CASE i \notin 1..Len(log)
      <3> DEFINE j == i - Len(log)
      <3>1. j \in 1..Len(old) /\ Len(log) + j = i /\ j - 1 \in 0..Len(old)
            /\ Len(log) + (j - 1) = i - 1
        BY <1>6, <2>2
      <3>2. all[i] = old[j] BY <1>6, <3>1
      <3>3. Rows(all, i - 1) = ToSet(log) \cup Rows(old, j - 1) BY <1>7, <3>1
      <3>4. Grounds(Logged \cup Rows(old, j - 1), old[j]) BY <1>1, <3>1 DEF Grounded
      <3> HIDE DEF old, all, j
      <3>5. Logged \cup Rows(old, j - 1) \subseteq ToSet(Seeds) \cup Rows(all, i - 1)
        BY <3>3 DEF Logged
      <3>6. Grounds(ToSet(Seeds) \cup Rows(all, i - 1), old[j]) BY <3>4, <3>5, GroundsGrow
      <3> QED BY <3>2, <3>6, Zenon
    <2> QED BY <2>1, <2>2
  <1>16. Grounded'
    <2>1. ASSUME NEW e \in Devices, NEW i \in 1..Len(outbox'[e])
          PROVE  Grounds(Logged' \cup Rows(outbox'[e], i - 1), outbox'[e][i])
      <3>1. e # d
        <4>1. 1..0 = {} OBVIOUS
        <4> QED BY <1>5, <4>1
      <3>2. outbox'[e] = outbox[e] BY <1>5, <3>1
      <3>3. i \in 1..Len(outbox[e]) BY <3>2
      <3>4. Grounds(Logged \cup Rows(outbox[e], i - 1), outbox[e][i]) BY <1>1, <3>3 DEF Grounded
      <3>5. Logged \cup Rows(outbox[e], i - 1) \subseteq Logged' \cup Rows(outbox[e], i - 1) BY <1>9
      <3>6. Grounds(Logged' \cup Rows(outbox[e], i - 1), outbox[e][i]) BY <3>4, <3>5, GroundsGrow
      <3> QED BY <3>2, <3>6, Zenon
    <2>2. \A i \in 1..Len(log') : Grounds(ToSet(Seeds) \cup Rows(log', i - 1), log'[i])
      <3> HIDE DEF all
      <3> QED BY <1>4, <1>15, Zenon
    <2> QED BY <2>1, <2>2 DEF Grounded
  <1>17. Unrepeated(all)
    <2> SUFFICES ASSUME NEW i \in 1..Len(all), NEW k \in 1..Len(all), all[i] = all[k], i < k
                 PROVE  FALSE
      BY <1>6 DEF Unrepeated
    <2>1. CASE k \in 1..Len(log)
      <3>1. i \in 1..Len(log) BY <1>6, <2>1
      <3>2. log[i] = log[k] BY <1>6, <2>1, <3>1
      <3> QED BY <1>8, <2>1, <3>1, <3>2 DEF Unrepeated
    <2>2. CASE k \notin 1..Len(log)
      <3>1. PICK j \in 1..Len(old) : k = Len(log) + j
        <4>1. k - Len(log) \in 1..Len(old) /\ k = Len(log) + (k - Len(log)) BY <1>6, <2>2
        <4> QED BY <4>1
      <3>2. all[k] = old[j] /\ old[j] \in ToSet(old) BY <1>2, <1>6, <3>1, AllRows
      <3>3. CASE i \in 1..Len(log)
        <4>1. all[i] = log[i] /\ log[i] \in Logged BY <1>6, <3>3, AllRows DEF Logged
        <4> QED BY <1>8, <3>2, <4>1
      <3>4. CASE i \notin 1..Len(log)
        <4>1. PICK m \in 1..Len(old) : i = Len(log) + m
          <5>1. i - Len(log) \in 1..Len(old) /\ i = Len(log) + (i - Len(log)) BY <1>6, <3>4
          <5> QED BY <5>1
        <4>2. all[i] = old[m] /\ m # j BY <1>6, <3>1, <4>1
        <4>3. old[m] = old[j] BY <3>2, <4>2
        <4> QED BY <1>8, <4>2, <4>3 DEF Unrepeated
      <3> QED BY <3>3, <3>4
    <2> QED BY <2>1, <2>2
  <1>18. Distinct'
    <2>1. StampsDiffer(Written') BY <1>1, <1>14 DEF Distinct
    <2>2. Unrepeated(log') /\ ToSet(Seeds) \cap ToSet(log') = {}
      <3>1. ToSet(log') = ToSet(log) \cup ToSet(old) BY <1>4, <1>7
      <3>2. ToSet(Seeds) \subseteq Logged BY DEF Logged
      <3> HIDE DEF all, old
      <3> QED BY <1>4, <1>8, <1>17, <3>1, <3>2
    <2>3. ASSUME NEW e \in Devices
          PROVE  /\ Unrepeated(outbox'[e]) /\ ToSet(outbox'[e]) \cap Logged' = {}
                 /\ \A op \in ToSet(outbox'[e]) : op.device = e
      <3>1. CASE e = d
        <4>1. outbox'[e] = <<>> /\ ToSet(outbox'[e]) = {} BY <1>5, <3>1
        <4>2. Unrepeated(<<>>) BY DEF Unrepeated
        <4> QED BY <4>1, <4>2
      <3>2. CASE e # d
        <4>1. outbox'[e] = outbox[e] BY <1>5, <3>2
        <4>2. /\ Unrepeated(outbox[e]) /\ ToSet(outbox[e]) \cap Logged = {}
              /\ \A op \in ToSet(outbox[e]) : op.device = e
          BY <1>1 DEF Distinct
        <4>3. ToSet(outbox[e]) \cap ToSet(old) = {} BY <1>8, <3>2, <4>2
        <4> HIDE DEF old
        <4> QED BY <1>9, <4>1, <4>2, <4>3
      <3> QED BY <3>1, <3>2
    <2> QED BY <2>1, <2>2, <2>3 DEF Distinct
  <1>19. Timely'
    <2> SUFFICES ASSUME NEW e \in Devices, NEW x \in Applied(e)' PROVE x.at <= clock'[e]
      BY DEF Timely
    <2>1. x \in Applied(e) BY <1>12
    <2> QED BY <1>1, <1>4, <2>1 DEF Timely
  <1>20. Replicated' BY <1>10, <1>13, <1>16, <1>18, <1>19 DEF Replicated
  <1>21. Remembered BY <1>5 DEF Remembered
  <1> QED BY <1>4, <1>20, <1>21, StillSayable DEF Inductive

\* The greatest stamp of a row, and of a clock besides.
LEMMA GreatestIs ==
  ASSUME NEW c \in Nat, NEW s \in Seq(Operations)
  PROVE  /\ Max({c} \cup StampsOf(s)) \in Nat /\ c <= Max({c} \cup StampsOf(s))
         /\ \A x \in ToSet(s) : x.at <= Max({c} \cup StampsOf(s))
  <1> DEFINE n == Len(s)
             upTo(m) == {c} \cup {s[i].at : i \in 1..m}
             S == {m \in 0..n : \E g \in upTo(m) : \A y \in upTo(m) : g >= y}
             all == {c} \cup StampsOf(s)
  <1>1. n \in Nat /\ \A i \in 1..n : s[i].at \in Nat
    <2>1. \A i \in 1..n : s[i] \in Operations OBVIOUS
    <2> QED BY <2>1 DEF Operations
  <1>2. 0 \in S
    <2>1. upTo(0) = {c}
      <3>1. 1..0 = {} OBVIOUS
      <3> QED BY <3>1
    <2>2. c >= c OBVIOUS
    <2>3. 0 \in 0..n BY <1>1
    <2> HIDE DEF upTo
    <2> QED BY <2>1, <2>2, <2>3
  <1>3. ASSUME NEW m \in 1..n, m - 1 \in S PROVE m \in S
    <2>1. upTo(m) = upTo(m-1) \cup {s[m].at}
      <3>1. 1..m = (1..(m-1)) \cup {m} OBVIOUS
      <3> QED BY <3>1
    <2>2. upTo(m) \subseteq Nat
      <3>1. \A i \in 1..m : i \in 1..n OBVIOUS
      <3> QED BY <1>1, <3>1
    <2> HIDE DEF upTo
    <2>3. PICK g \in upTo(m-1) : \A y \in upTo(m-1) : g >= y BY <1>3
    <2>4. g \in Nat /\ s[m].at \in Nat /\ \A y \in upTo(m-1) : y \in Nat BY <1>1, <2>1, <2>2, <2>3
    <2>5. CASE s[m].at <= g
      <3>1. g \in upTo(m) /\ \A y \in upTo(m) : g >= y BY <2>1, <2>3, <2>4, <2>5
      <3> QED BY <3>1
    <2>6. CASE s[m].at > g
      <3>1. s[m].at \in upTo(m) /\ \A y \in upTo(m) : s[m].at >= y BY <2>1, <2>3, <2>4, <2>6
      <3> QED BY <3>1
    <2> QED BY <2>4, <2>5, <2>6
  <1>4. n \in S
    <2>1. n \in 0..n BY <1>1
    <2> HIDE DEF S, n
    <2> QED BY <1>1, <1>2, <1>3, <2>1, PlacesAreInductive
  <1>5. upTo(n) = all BY DEF StampsOf
  <1>6. \E g \in all : \A y \in all : g >= y
    <2> HIDE DEF upTo, all
    <2> QED BY <1>4, <1>5
  <1>7. all \subseteq Nat /\ c \in all BY <1>1 DEF StampsOf
  <1>8. \A x \in ToSet(s) : x.at \in all BY DEF ToSet, StampsOf
  <1> HIDE DEF all
  <1>9. Max(all) \in all /\ \A y \in all : Max(all) >= y BY <1>6 DEF Max
  <1>10. Max(all) \in Nat /\ c <= Max(all) /\ \A x \in ToSet(s) : x.at <= Max(all) BY <1>7, <1>8, <1>9
  <1> QED BY <1>10 DEF all

LEMMA PullKeeps ==
  ASSUME Inductive, NEW d \in Devices, Pull(d)
  PROVE  Inductive'
  <1> DEFINE after == ApplyUnknown(replica[d], Echoes(d), Unseen(d))
             rest  == Unseen(d)
             A     == Applied(d)
             n     == Len(log)
             last  == Max({clock[d]} \cup StampsOf(rest))
  <1>1. Typed /\ Reflected /\ Grounded /\ Distinct /\ Timely /\ Replicated
    BY DEF Inductive, Replicated
  <1>2. Fits(A, Echoes(d), rest) /\ rest \in Seq(Operations) BY <1>1, UnseenFits
  <1>3. /\ after.ok /\ after.db \in Repaired
        /\ Shows(after.db, A \cup ToSet(rest)) /\ Past(A \cup ToSet(rest))
    <2>1. replica[d] \in Repaired /\ Shows(replica[d], A) /\ Past(A) BY DeviceIsReplica, DeviceShows
    <2>2. replica[d] \in Sound BY <2>1, RepairedIsSound
    <2> HIDE DEF A, rest
    <2> QED BY <1>2, <2>1, <2>2, BatchShows DEF rest
  <1>4. /\ replica' = [replica EXCEPT ![d] = after.db]
        /\ clock' = [clock EXCEPT ![d] = last]
        /\ position' = [position EXCEPT ![d] = n]
        /\ outbox' = outbox /\ log' = log /\ history' = history /\ pending' = pending
    BY DEF Pull, NewPosition
  <1> HIDE DEF after
  <1>5. /\ last \in Nat /\ clock[d] <= last /\ clock[d] \in Nat
        /\ \A x \in ToSet(rest) : x.at <= last
    <2>1. clock[d] \in Nat BY <1>1 DEF Typed
    <2> HIDE DEF rest
    <2> QED BY <1>2, <2>1, GreatestIs
  <1> HIDE DEF last
  <1>6. /\ replica'[d] = after.db /\ position'[d] = n /\ clock'[d] = last
        /\ \A r \in Replicas \ {d} : replica'[r] = replica[r]
        /\ \A e \in Devices \ {d} : position'[e] = position[e] /\ clock'[e] = clock[e]
    BY <1>1, <1>4, DeviceIsReplica DEF Typed
  <1>7. n \in Nat /\ log \in Seq(Operations) BY <1>1, UnseenIs
  <1>8. Typed'
    <2>1. replica' \in [Replicas -> Repaired] BY <1>1, <1>3, <1>4 DEF Typed
    <2>2. position' \in [Devices -> Nat] /\ \A e \in Devices : position'[e] <= n
      BY <1>1, <1>4, <1>6, <1>7 DEF Typed
    <2>3. clock' \in [Devices -> Nat] BY <1>1, <1>4, <1>5 DEF Typed
    <2> QED BY <1>1, <1>4, <2>1, <2>2, <2>3 DEF Typed
  <1>9. Applied(d)' = A \cup ToSet(rest)
    <2>1. d # Server BY DeviceIsReplica
    <2>2. Echoes(d)' = Echoes(d) BY <1>4 DEF Echoes
    <2>3. Applied(d)' = ToSet(Seeds) \cup Rows(log, n) \cup Echoes(d) \cup ToSet(outbox[d])
      BY <1>4, <1>6, <2>1, <2>2 DEF Applied
    <2>4. Rows(log, n) = ToSet(log) BY <1>7, AllRows
    <2>5. ToSet(log) = Rows(log, position[d]) \cup ToSet(rest) BY <1>1, UnseenIs
    <2>6. A = ToSet(Seeds) \cup Rows(log, position[d]) \cup Echoes(d) \cup ToSet(outbox[d])
      BY <1>1, AppliedIs
    <2> HIDE DEF A, rest
    <2> QED BY <2>3, <2>4, <2>5, <2>6
  <1>10. ASSUME NEW r \in Replicas \ {d} PROVE Applied(r)' = Applied(r)
    <2>1. Echoes(r)' = Echoes(r) BY <1>4 DEF Echoes
    <2>2. r = Server \/ position'[r] = position[r] BY <1>6 DEF Replicas
    <2> QED BY <1>4, <2>1, <2>2 DEF Applied
  <1>11. Reflected'
    <2> SUFFICES ASSUME NEW r \in Replicas PROVE Shows(replica'[r], Applied(r)') /\ Past(Applied(r)')
      BY DEF Reflected
    <2>1. CASE r = d
      <3>1. replica'[r] = after.db /\ Applied(r)' = A \cup ToSet(rest) BY <1>6, <1>9, <2>1
      <3> HIDE DEF A, rest
      <3> QED BY <1>3, <3>1, Zenon
    <2>2. CASE r # d
      <3>1. replica'[r] = replica[r] /\ Applied(r)' = Applied(r) BY <1>6, <1>10, <2>2
      <3>2. Shows(replica[r], Applied(r)) /\ Past(Applied(r)) BY <1>1 DEF Reflected
      <3> QED BY <3>1, <3>2, Zenon
    <2> QED BY <2>1, <2>2
  <1>12. Logged' = Logged /\ Written' = Written BY <1>4 DEF Logged, Written
  <1>13. Grounded' BY <1>1, <1>4, <1>12 DEF Grounded
  <1>14. Distinct' BY <1>1, <1>4, <1>12 DEF Distinct
  <1>15. Timely'
    <2> SUFFICES ASSUME NEW e \in Devices, NEW x \in Applied(e)' PROVE x.at <= clock'[e]
      BY DEF Timely
    <2>1. CASE e # d
      <3>1. x \in Applied(e) /\ clock'[e] = clock[e] BY <1>6, <1>10, <2>1, DeviceIsReplica
      <3> QED BY <1>1, <3>1 DEF Timely
    <2>2. CASE e = d
      <3>1. x \in A \/ x \in ToSet(rest) BY <1>9, <2>2
      <3>2. clock'[e] = last BY <1>6, <2>2
      <3>3. CASE x \in A
        <4>1. x.at <= clock[d] BY <1>1, <3>3 DEF Timely
        <4>2. x.at \in Nat
          <5>1. Past(A) BY DeviceIsReplica, DeviceShows
          <5> QED BY <3>3, <5>1 DEF Past, Stamp
        <4> QED BY <1>5, <3>2, <4>1, <4>2
      <3> QED BY <1>5, <3>1, <3>2, <3>3
    <2> QED BY <2>1, <2>2
  <1>16. Replicated' BY <1>8, <1>11, <1>13, <1>14, <1>15 DEF Replicated
  <1>17. Remembered
    <2> SUFFICES ASSUME NEW e \in Devices PROVE Heard(replica[e]) \subseteq Heard(replica'[e])
      BY DEF Remembered
    <2>1. CASE e # d BY <1>6, <2>1, DeviceIsReplica
    <2>2. CASE e = d
      <3>1. Shows(replica[d], A) BY DeviceIsReplica, DeviceShows
      <3>2. Heard(replica[d]) = Made(A) BY <3>1 DEF Shows
      <3>3. Heard(after.db) = Made(A \cup ToSet(rest)) BY <1>3 DEF Shows
      <3>4. Made(A) \subseteq Made(A \cup ToSet(rest)) BY DEF Made
      <3> HIDE DEF A, rest
      <3> QED BY <1>6, <2>2, <3>2, <3>3, <3>4
    <2> QED BY <2>1, <2>2
  <1> QED BY <1>4, <1>16, <1>17, StillSayable DEF Inductive

LEMMA NextIsInductive == Inductive /\ [Next]_vars => Inductive'
  <1> SUFFICES ASSUME Inductive, [Next]_vars PROVE Inductive' OBVIOUS
  <1>1. CASE UNCHANGED vars
    <2>1. UNCHANGED <<replica, clock, outbox, position, log>> /\ UNCHANGED <<history, pending>>
      BY <1>1 DEF vars
    <2>2. Replicated' BY <2>1, ReplicatedStays DEF Inductive
    <2> QED BY <2>1, <2>2 DEF Inductive
  <1>2. CASE Next
    <2>1. PICK d \in Devices :
            \/ \E p \in Pages :
                 \/ \E title \in Titles \cup {None} : CreatePage(d, p, title) \/ RenamePage(d, p, title)
                 \/ EnsureJournal(d, p)
                 \/ DeletePage(d, p)
            \/ \E b \in Blocks :
                 \/ \E parent \in (Blocks \ {b}) \cup {None} : CreateBlock(d, b, parent) \/ MoveBlock(d, b, parent)
                 \/ SetBlockContent(d, b)
                 \/ DeleteBlock(d, b)
            \/ Commit(d)
            \/ MoveHistory(d, "undo")
            \/ MoveHistory(d, "redo")
            \/ Push(d)
            \/ Pull(d)
      BY <1>2 DEF Next
    <2>2. ASSUME NEW p \in Pages, NEW title \in Titles \cup {None},
                 CreatePage(d, p, title) \/ RenamePage(d, p, title)
          PROVE  Inductive'
      BY <2>2, CreatePageKeeps, RenamePageKeeps
    <2>3. ASSUME NEW p \in Pages, EnsureJournal(d, p) \/ DeletePage(d, p)
          PROVE  Inductive'
      BY <2>3, EnsureJournalKeeps, DeletePageKeeps
    <2>4. ASSUME NEW b \in Blocks, NEW parent \in (Blocks \ {b}) \cup {None},
                 CreateBlock(d, b, parent) \/ MoveBlock(d, b, parent)
          PROVE  Inductive'
      BY <2>4, CreateBlockKeeps, MoveBlockKeeps
    <2>5. ASSUME NEW b \in Blocks, SetBlockContent(d, b) \/ DeleteBlock(d, b)
          PROVE  Inductive'
      BY <2>5, SetBlockContentKeeps, DeleteBlockKeeps
    <2>6. CASE Commit(d) BY <2>6, CommitKeeps
    <2>7. CASE MoveHistory(d, "undo") \/ MoveHistory(d, "redo") BY <2>7, MoveHistoryKeeps
    <2>8. CASE Push(d) BY <2>8, PushKeeps
    <2>9. CASE Pull(d) BY <2>9, PullKeeps
    <2> QED BY <2>1, <2>2, <2>3, <2>4, <2>5, <2>6, <2>7, <2>8, <2>9
  <1> QED BY <1>1, <1>2

-----------------------------------------------------------------------------
(* Theorems *)

\* In every state every replica shows the operations it has applied, no two of
\* which have the same stamp; what each needs was made before it; and whatever is
\* under way is an operation that can be applied (apply_one_with_effects,
\* record_action, move_history).
THEOREM InductiveHolds == Spec => []Inductive
  BY InitIsInductive, NextIsInductive, PTL DEF Spec

\* On every replica a block belongs to the current generation of its page, in
\* whatever order the operations come (BlockCreate, PageCreate).
THEOREM GenerationsHold == Spec => []Generations
  <1>1. Inductive => Generations
    BY RepairedIsSound DEF Inductive, Replicated, Typed, Generations, Sound, Consistent
  <1> QED BY <1>1, InductiveHolds, PTL

\* No two pages of a replica have the same title (apply_page_title).
THEOREM TitlesUniqueHold == Spec => []TitlesUnique
  <1>1. Inductive => TitlesUnique
    BY RepairedIsSound DEF Inductive, Replicated, Typed, TitlesUnique, Sound, Consistent
  <1> QED BY <1>1, InductiveHolds, PTL

\* The blocks of every replica form a forest, whatever moves were concurrent
\* (reconcile_structure).
THEOREM ForestHolds == Spec => []Forest
  <1>1. Inductive => Forest
    <2> SUFFICES ASSUME Inductive, NEW r \in Replicas, NEW b \in Blocks
                 PROVE  b \notin Above(ParentOf(replica[r]), b)
      BY DEF Forest
    <2>1. PICK db \in Sound : replica[r] = ReconcileStructure(db) BY DeviceShows DEF Repaired
    <2> QED BY <2>1, ReconcileMakesAForest DEF Sound
  <1> QED BY <1>1, InductiveHolds, PTL

\* The operations a device wrote, and those the log holds, always apply: what
\* each needs was made before it (apply_one_with_effects).
THEOREM NothingRefusedHolds == Spec => []NothingRefused
  <1>1. ASSUME Inductive, NEW d \in Devices
        PROVE  /\ ApplyBatch(replica[Server], outbox[d]).ok
               /\ ApplyUnknown(replica[d], Echoes(d), Unseen(d)).ok
    <2>1. Replicated /\ Typed BY <1>1 DEF Inductive, Replicated
    <2>2. /\ replica[d] \in Sound /\ Shows(replica[d], Applied(d)) /\ Past(Applied(d))
          /\ replica[Server] \in Sound /\ Shows(replica[Server], Logged) /\ Past(Logged)
      <3>1. Applied(Server) = Logged BY <2>1, AppliedIs
      <3>2. Shows(replica[Server], Applied(Server)) /\ Past(Applied(Server))
        BY <1>1, DeviceIsReplica, DeviceShows
      <3>3. Shows(replica[Server], Logged) /\ Past(Logged) BY <3>1, <3>2, Zenon
      <3> QED BY <1>1, <3>3, DeviceIsReplica, DeviceShows, RepairedIsSound
    <2>3. ApplyUnknown(replica[Server], {}, outbox[d]).ok BY <2>1, <2>2, OutboxFits, BatchShows
    <2>4. ApplyUnknown(replica[d], Echoes(d), Unseen(d)).ok BY <2>1, <2>2, UnseenFits, BatchShows
    <2> QED BY <2>3, <2>4 DEF ApplyBatch
  <1>2. Inductive => NothingRefused BY <1>1 DEF NothingRefused
  <1> QED BY <1>2, InductiveHolds, PTL

-----------------------------------------------------------------------------
(* Convergence *)

LEMMA RowsAreFinite ==
  ASSUME NEW S, NEW s \in Seq(S)
  PROVE  IsFiniteSet(ToSet(s))
  <1> DEFINE n == Len(s)
             T == {m \in 0..n : IsFiniteSet(Rows(s, m))}
  <1>1. n \in Nat /\ 0 \in 0..n /\ n \in 0..n OBVIOUS
  <1>2. 0 \in T
    <2>1. IsFiniteSet(Rows(s, 0)) BY NoRows, FS_EmptySet
    <2> QED BY <1>1, <2>1
  <1>3. ASSUME NEW i \in 1..n, i - 1 \in T PROVE i \in T
    <2>1. Rows(s, i) = Rows(s, i - 1) \cup {s[i]} BY OneMoreRow
    <2>2. IsFiniteSet(Rows(s, i - 1)) BY <1>3
    <2>3. IsFiniteSet(Rows(s, i - 1) \cup {s[i]}) BY <2>2, FS_AddElement
    <2>4. IsFiniteSet(Rows(s, i)) BY <2>1, <2>3, Zenon
    <2> QED BY <2>4
  <1>4. n \in T
    <2> HIDE DEF T, n
    <2> QED BY <1>1, <1>2, <1>3, PlacesAreInductive
  <1>5. ToSet(s) = Rows(s, n) BY AllRows
  <1> QED BY <1>4, <1>5

\* A set with no more than one element has no two.
LEMMA AtMostOne ==
  ASSUME NEW S, IsFiniteSet(S), Cardinality(S) <= 1, NEW x \in S, NEW y \in S
  PROVE  x = y
  <1> SUFFICES ASSUME x # y PROVE FALSE OBVIOUS
  <1>1. IsFiniteSet({x}) /\ Cardinality({x}) = 1 BY FS_Singleton
  <1>2. IsFiniteSet({x} \cup {y}) /\ Cardinality({x} \cup {y}) = 1 + 1 BY <1>1, FS_AddElement
  <1>3. {x} \cup {y} \in SUBSET S OBVIOUS
  <1>4. Cardinality({x} \cup {y}) <= Cardinality(S) BY <1>3, FS_Subset
  <1>5. Cardinality(S) \in Nat BY FS_CardinalityType
  <1> QED BY <1>2, <1>4, <1>5

\* What a device with nothing left to exchange has applied, the server has, and
\* the words of Convergence for it say the same as those of the engine.
LEMMA SettledIs ==
  ASSUME Inductive, NEW d \in Devices, Settled(d)
  PROVE  /\ Shows(replica[d], Logged) /\ Shows(replica[Server], Logged)
         /\ replica[d] \in Repaired /\ replica[Server] \in Repaired
         /\ Past(Logged) /\ StampsDiffer(Logged)
         /\ \A o \in Objects : Cardinality(CreationsOf(o)) <= 1 => Once(Logged, o)
         /\ \A p \in Pages : Uncontested(p) => Alone(Logged, p)
  <1>1. Typed /\ Distinct BY DEF Inductive, Replicated
  <1>2. Applied(Server) = Logged BY <1>1, AppliedIs
  <1>3. Applied(d) = Logged
    <2>1. Applied(d) = ToSet(Seeds) \cup Rows(log, position[d]) \cup Echoes(d) \cup ToSet(outbox[d])
      BY <1>1, AppliedIs
    <2>2. outbox[d] = <<>> /\ position[d] = Len(log) BY DEF Settled
    <2>3. ToSet(<<>>) = {} BY DEF ToSet
    <2>4. Rows(log, Len(log)) = ToSet(log)
      <3>1. log \in Seq(Operations) BY <1>1 DEF Typed
      <3> QED BY <3>1, AllRows
    <2> QED BY <2>1, <2>2, <2>3, <2>4 DEF Logged, Echoes
  <1>4. /\ Shows(replica[Server], Applied(Server)) /\ Past(Applied(Server)) /\ replica[Server] \in Repaired
        /\ Shows(replica[d], Applied(d)) /\ replica[d] \in Repaired
    BY DeviceIsReplica, DeviceShows
  <1>5. Shows(replica[d], Logged) /\ Shows(replica[Server], Logged) /\ Past(Logged)
    BY <1>2, <1>3, <1>4, Zenon
  <1>6. StampsDiffer(Logged)
    <2>1. Logged \subseteq Written BY <1>1, AppliedIs
    <2> QED BY <1>1, <2>1 DEF Distinct, StampsDiffer
  <1>7. IsFiniteSet(Logged)
    <2>1. log \in Seq(Operations) /\ Seeds \in Seq(Operations) BY <1>1, SeedsAre DEF Typed
    <2>2. IsFiniteSet(ToSet(Seeds)) /\ IsFiniteSet(ToSet(log)) BY <2>1, RowsAreFinite
    <2> QED BY <2>2, FS_Union DEF Logged
  <1>8. ASSUME NEW o, Cardinality(CreationsOf(o)) <= 1 PROVE Once(Logged, o)
    <2>1. CreationsOf(o) \in SUBSET Logged BY DEF CreationsOf
    <2>2. IsFiniteSet(CreationsOf(o)) BY <1>7, <2>1, FS_Subset
    <2> SUFFICES ASSUME NEW x \in Logged, NEW y \in Logged, o \in Makes(x.kind), o \in Makes(y.kind)
                 PROVE  x = y
      BY DEF Once
    <2>3. x \in CreationsOf(o) /\ y \in CreationsOf(o) BY DEF CreationsOf
    <2> QED BY <1>8, <2>2, <2>3, AtMostOne
  <1>9. \A p \in Pages : Claims(p) = TitlesOf(Logged, p)
    BY Zenon DEF Claims, TitlesOf, Names, Naming
  <1>10. \A p \in Pages : Uncontested(p) => Alone(Logged, p) BY <1>9 DEF Uncontested, Alone
  <1> QED BY <1>4, <1>5, <1>6, <1>8, <1>10

\* Replicas that have applied the same operations, each in an order of its own,
\* agree on every page and block that was created once: on what is there, on
\* texts and places, on titles only one page claims, and on the whole tree if all
\* of them are such (apply_one_with_effects).
THEOREM KeptConvergedHolds == Spec => []KeptConverged
  <1>1. ASSUME Inductive, NEW d \in Devices, Settled(d)
        PROVE  LET mine == replica[d]
                   all  == replica[Server]
               IN  /\ \A p \in Pages \cap Original :
                        /\ mine.pages[p].existence = all.pages[p].existence
                        /\ Uncontested(p) => mine.pages[p] = all.pages[p]
                   /\ \A b \in Blocks \cap Original :
                        /\ mine.structure[b] = all.structure[b]
                        /\ [mine.blocks[b] EXCEPT !.parent = None] = [all.blocks[b] EXCEPT !.parent = None]
                   /\ Objects \subseteq Original => mine.blocks = all.blocks
    <2> DEFINE mine == replica[d]
               all  == replica[Server]
               A    == Logged
               Row  == [existence : Nat, parent : Blocks \cup {None}, markdownAt : Nat]
    <2>1. /\ Shows(mine, A) /\ Shows(all, A) /\ Past(A) /\ StampsDiffer(A)
          /\ mine \in Repaired /\ all \in Repaired
          /\ \A o \in Objects : Cardinality(CreationsOf(o)) <= 1 => Once(A, o)
          /\ \A p \in Pages : Uncontested(p) => Alone(A, p)
      BY <1>1, SettledIs
    <2>2. /\ mine \in Databases /\ ReconcileStructure(mine) = mine
          /\ all \in Databases /\ ReconcileStructure(all) = all
      BY <2>1, RepairedShows
    <2>3. ASSUME NEW o \in Original
          PROVE  o \in Objects /\ Once(A, o) /\ (o \in Blocks => Once(A, PageOf[o]))
      <3>1. o \in Objects /\ Cardinality(CreationsOf(o)) <= 1
            /\ (o \in Blocks => PageOf[o] \in Objects /\ Cardinality(CreationsOf(PageOf[o])) <= 1)
        BY DEF Original
      <3> QED BY <2>1, <3>1
    <2> HIDE DEF mine, all, A
    <2>4. ASSUME NEW p \in Pages \cap Original
          PROVE  /\ mine.pages[p].existence = all.pages[p].existence
                 /\ Uncontested(p) => mine.pages[p] = all.pages[p]
      <3>1. Once(A, p) BY <2>3
      <3>2. /\ mine.pages[p].existence = all.pages[p].existence
            /\ Alone(A, p) => mine.pages[p] = all.pages[p]
        BY <2>1, <2>2, <3>1, SamePage
      <3> QED BY <2>1, <3>2
    <2>5. ASSUME NEW b \in Blocks \cap Original
          PROVE  /\ mine.structure[b] = all.structure[b]
                 /\ [mine.blocks[b] EXCEPT !.parent = None] = [all.blocks[b] EXCEPT !.parent = None]
      <3>1. Once(A, b) /\ Once(A, PageOf[b]) BY <2>3
      <3>2. /\ mine.structure[b] = all.structure[b]
            /\ mine.blocks[b].existence = all.blocks[b].existence
            /\ mine.blocks[b].markdownAt = all.blocks[b].markdownAt
        BY <2>1, <2>2, <3>1, SameBlock
      <3>3. mine.blocks[b] \in Row /\ all.blocks[b] \in Row BY <2>2 DEF Databases
      <3>4. [mine.blocks[b] EXCEPT !.parent = None] = [all.blocks[b] EXCEPT !.parent = None]
        BY <3>2, <3>3
      <3> QED BY <3>2, <3>4
    <2>6. ASSUME Objects \subseteq Original PROVE mine.blocks = all.blocks
      <3>1. \A o \in Objects : Once(A, o) BY <2>3, <2>6
      <3> QED BY <2>1, <2>2, <3>1, SameBlocks
    <2> QED BY <2>4, <2>5, <2>6 DEF mine, all
  <1>2. Inductive => KeptConverged BY <1>1 DEF KeptConverged
  <1> QED BY <1>2, InductiveHolds, PTL

\* And if every object was created once and no title claimed twice, they hold the
\* same pages and the same tree of blocks (apply_one_with_effects,
\* reconcile_structure).
THEOREM ConvergenceHolds == Spec => []OriginalsConverge
  <1>1. ASSUME Inductive, KeptConverged, Objects \subseteq Original, \A p \in Pages : Uncontested(p),
               NEW d \in Devices, Settled(d)
        PROVE  /\ replica[d].pages  = replica[Server].pages
               /\ replica[d].blocks = replica[Server].blocks
    <2>1. replica[d] \in Databases /\ replica[Server] \in Databases
      BY <1>1, DeviceIsReplica, DeviceShows, RepairedShows
    <2>2. \A p \in Pages : replica[d].pages[p] = replica[Server].pages[p]
      BY <1>1 DEF KeptConverged, Objects
    <2>3. replica[d].blocks = replica[Server].blocks BY <1>1 DEF KeptConverged
    <2> QED BY <2>1, <2>2, <2>3 DEF Databases
  <1>2. Inductive /\ KeptConverged => OriginalsConverge BY <1>1 DEF Converged, OriginalsConverge
  <1> QED BY <1>2, InductiveHolds, KeptConvergedHolds, PTL

\* "The first generation uses the earliest observed ensure HLC, independently of
\* delivery order": a journal that nobody deleted (PageCreate of a journal).
THEOREM EarliestEnsureHolds == Spec => []EarliestEnsure
  <1>1. ASSUME Inductive, NEW d \in Devices, Settled(d), NEW p \in Journals,
               CreationsOf(p) # {}, ~(\E op \in Logged : op.kind = PageDeletes(p))
        PROVE  replica[d].pages[p].existence = Min({op.at : op \in CreationsOf(p)})
    <2> DEFINE at == {op.at : op \in CreationsOf(p)}
               here == replica[d].pages[p].existence
    <2>1. Shows(replica[d], Logged) /\ Past(Logged) BY <1>1, SettledIs
    <2>2. p \in Pages BY EngineAssumption
    <2>3. JournalKept(replica[d], Logged, p) BY <2>1, <2>2 DEF Shows, PageShown
    <2>4. ~Deleted(Logged, p)
      <3> SUFFICES ASSUME NEW x \in Logged, Deleting(x.kind, p) PROVE x.kind = PageDeletes(p)
        BY <1>1 DEF Deleted
      <3>1. x.kind \in Kinds BY <2>1 DEF Past
      <3>2. \A q \in Pages : x.kind = PageDeletes(q) => q = p BY PageDeletesSays
      <3>3. p \notin Blocks BY <2>2, EngineAssumption
      <3>4. /\ \A q \in Pages, t \in Titles \cup {None} :
                 x.kind # PageCreates(q, t) /\ x.kind # PageSetsTitle(q, t)
            /\ \A b \in Blocks, u \in Blocks \cup {None} :
                 x.kind # BlockCreates(b, u) /\ x.kind # BlockMoves(b, u)
            /\ \A b \in Blocks : x.kind # BlockSetsMarkdown(b) /\ x.kind # BlockDeletes(b)
        BY <3>3, PageCreatesSays, PageSetsTitleSays, BlockCreatesSays, BlockMovesSays,
           BlockSetsMarkdownSays, BlockDeletesSays
      <3> QED BY <3>1, <3>2, <3>4, KindCases
    <2>5. p \in Made(Logged) BY <1>1 DEF CreationsOf, Made
    <2>6. /\ \E x \in Logged : p \in Makes(x.kind) /\ here = x.at
          /\ \A x \in Logged : p \in Makes(x.kind) => here <= x.at
      BY <1>1, <2>3, <2>4, <2>5 DEF JournalKept
    <2>7. here \in at /\ \A s \in at : here <= s BY <2>6 DEF CreationsOf
    <2>8. at \subseteq Nat BY <2>1 DEF CreationsOf, Past, Stamp
    <2> HIDE DEF at, here
    <2>9. Min(at) \in at /\ \A s \in at : Min(at) <= s BY <2>7 DEF Min
    <2>10. here \in Nat /\ Min(at) \in Nat BY <2>7, <2>8, <2>9, Zenon
    <2>11. here <= Min(at) /\ Min(at) <= here BY <2>7, <2>9, Zenon
    <2>12. here = Min(at) BY <2>10, <2>11
    <2> QED BY <2>12 DEF at, here
  <1>2. Inductive => EarliestEnsure BY <1>1 DEF EarliestEnsure
  <1> QED BY <1>2, InductiveHolds, PTL

\* Both together: what does not depend on the order in which a replica applied
\* the operations, whatever is undone, ensured twice or named alike.
THEOREM KeptThroughoutHolds == Spec => []KeptThroughout
  <1>1. KeptConverged /\ EarliestEnsure => KeptThroughout BY DEF KeptThroughout
  <1> QED BY <1>1, KeptConvergedHolds, EarliestEnsureHolds, PTL

-----------------------------------------------------------------------------
(* Snapshots *)

\* A repaired database that shows what was applied is handed over whole.
LEMMA ShownCarriesOver ==
  ASSUME NEW db \in Repaired, NEW A, Shows(db, A)
  PROVE  CarriesOver(db)
  <1> DEFINE s    == ExportSnapshot(db)
             rows == InsertedRows(s)
             PRow == [existence : Nat, title : Titles \cup {None}, titleAt : Nat]
             BRow == [existence : Nat, parent : Blocks \cup {None}, markdownAt : Nat]
             IRow == [at : Nat, parent : Blocks \cup {None}]
  <1>1. /\ db \in Databases /\ ReconcileStructure(db) = db
        /\ \A b \in Blocks : BlockTidy(db, b)
        /\ \A b \in Blocks : db.blocks[b].parent # None =>
             /\ db.blocks[b].parent \in Blocks /\ BlockExists(db, db.blocks[b].parent)
             /\ PageOf[db.blocks[b].parent] = PageOf[b]
    BY RepairedShows
  <1>2. /\ InGeneration(db) /\ PageLiveOrDead(db)
        /\ \A p \in Pages : ~PageExists(db, p) => db.pages[p] = NoPage
    BY DEF Shows, Consistent, PageShown, PageTidy
  <1>3. /\ db.pages \in [Pages -> PRow] /\ db.blocks \in [Blocks -> BRow]
        /\ db.structure \in [Blocks -> IRow] /\ db.tombstones \in [Objects -> Nat]
    BY <1>1 DEF Databases
  <1>4. /\ DOMAIN s.pages = {p \in Pages : PageExists(db, p)}
        /\ DOMAIN s.blocks = {b \in Blocks : BlockExists(db, b)}
        /\ DOMAIN s.structure = {b \in Blocks : db.structure[b].at > 0}
        /\ DOMAIN s.tombstones = {x \in Objects : IsTombstoned(db, x)}
        /\ \A p \in DOMAIN s.pages : s.pages[p] = db.pages[p]
        /\ \A b \in DOMAIN s.blocks : s.blocks[b] = db.blocks[b]
        /\ \A b \in DOMAIN s.structure : s.structure[b] = db.structure[b]
        /\ \A x \in DOMAIN s.tombstones : s.tombstones[x] = db.tombstones[x]
    BY DEF ExportSnapshot
  <1> HIDE DEF s
  <1>5. \A b \in Blocks : db.structure[b].at > 0 <=> BlockExists(db, b)
    <2>1. NoIntent.at = 0 /\ ~(0 > 0) BY DEF NoIntent
    <2> QED BY <1>1, <2>1 DEF BlockTidy
  <1>6. rows.pages = db.pages
    <2>1. \A p \in Pages : RowOr(s.pages, p, NoPage) = db.pages[p] BY <1>2, <1>4 DEF RowOr
    <2>2. rows.pages = [p \in Pages |-> RowOr(s.pages, p, NoPage)] BY DEF InsertedRows
    <2> HIDE DEF rows
    <2> QED BY <1>3, <2>1, <2>2
  <1>7. rows.structure = db.structure
    <2>1. \A b \in Blocks : RowOr(s.structure, b, NoIntent) = db.structure[b]
      BY <1>1, <1>4, <1>5 DEF RowOr, BlockTidy
    <2>2. rows.structure = [b \in Blocks |-> RowOr(s.structure, b, NoIntent)] BY DEF InsertedRows
    <2> HIDE DEF rows
    <2> QED BY <1>3, <2>1, <2>2
  <1>8. rows.tombstones = db.tombstones
    <2>1. \A x \in Objects : RowOr(s.tombstones, x, 0) = db.tombstones[x]
      BY <1>3, <1>4 DEF RowOr, IsTombstoned
    <2>2. rows.tombstones = [x \in Objects |-> RowOr(s.tombstones, x, 0)] BY DEF InsertedRows
    <2> HIDE DEF rows
    <2> QED BY <1>3, <2>1, <2>2
  <1>9. /\ rows.blocks \in [Blocks -> BRow]
        /\ \A b \in Blocks : /\ rows.blocks[b].existence = db.blocks[b].existence
                             /\ rows.blocks[b].markdownAt = db.blocks[b].markdownAt
    <2>1. \A b \in Blocks : RowOr(s.blocks, b, NoBlock) = db.blocks[b]
      BY <1>1, <1>4 DEF RowOr, BlockTidy
    <2>2. rows.blocks = [b \in Blocks |-> [RowOr(s.blocks, b, NoBlock) EXCEPT !.parent = None]]
      BY DEF InsertedRows
    <2> HIDE DEF rows
    <2>3. \A b \in Blocks : rows.blocks[b] = [db.blocks[b] EXCEPT !.parent = None] BY <2>1, <2>2
    <2>4. \A b \in Blocks : db.blocks[b] \in BRow BY <1>3
    <2>5. \A b \in Blocks : /\ rows.blocks[b] \in BRow
                            /\ rows.blocks[b].existence = db.blocks[b].existence
                            /\ rows.blocks[b].markdownAt = db.blocks[b].markdownAt
      BY <2>3, <2>4
    <2> QED BY <2>2, <2>5
  <1>10. rows \in Databases
    <2>1. rows = [pages |-> rows.pages, blocks |-> rows.blocks, structure |-> rows.structure,
                  tombstones |-> rows.tombstones]
      BY DEF InsertedRows
    <2> HIDE DEF rows
    <2> QED BY <1>3, <1>6, <1>7, <1>8, <1>9, <2>1 DEF Databases
  <1> DEFINE after == ReconcileStructure(rows)
  <1> HIDE DEF rows
  <1>11. TreeOf(rows) = TreeOf(db)
    <2>1. \A p \in Pages : PageExists(rows, p) <=> PageExists(db, p) BY <1>6 DEF PageExists
    <2>2. \A b \in Blocks : db.structure[b].parent \in Blocks \cup {None} BY <1>3
    <2> QED BY <1>7, <1>9, <2>1, <2>2, SameTree
  <1>12. /\ after \in Databases /\ after.pages = db.pages /\ after.tombstones = db.tombstones
         /\ after.structure = db.structure
         /\ \A b \in Blocks : /\ after.blocks[b].existence = db.blocks[b].existence
                              /\ after.blocks[b].markdownAt = db.blocks[b].markdownAt
                              /\ after.blocks[b].parent = TreeOf(db)[b]
    BY <1>6, <1>7, <1>8, <1>9, <1>10, <1>11, RepairIs
  <1>13. \A b \in Blocks : db.blocks[b].parent = TreeOf(db)[b] BY <1>1, RepairIs
  <1> HIDE DEF after
  <1>14. after.blocks = db.blocks
    <2>1. after.blocks \in [Blocks -> BRow] BY <1>12 DEF Databases
    <2>2. ASSUME NEW b \in Blocks PROVE after.blocks[b] = db.blocks[b]
      <3>1. after.blocks[b] \in BRow /\ db.blocks[b] \in BRow BY <1>3, <2>1
      <3> QED BY <1>12, <1>13, <3>1
    <2> QED BY <1>3, <2>1, <2>2
  <1>15. ImportSnapshot(s) = db
    <2>1. after = db BY <1>1, <1>12, <1>14 DEF Databases
    <2> QED BY <2>1 DEF ImportSnapshot, rows, after
  <1>16. BlocksHavePages(s) BY <1>2, <1>4, EngineAssumption DEF BlocksHavePages, InGeneration
  <1>17. ParentsAreThere(s) BY <1>1, <1>4 DEF ParentsAreThere
  <1>18. IntentsMatchBlocks(s) BY <1>4, <1>5 DEF IntentsMatchBlocks
  <1>19. IntendedParentsAreKnown(s)
    <2> SUFFICES ASSUME NEW b \in Blocks, BlockExists(db, b), db.structure[b].parent # None
                 PROVE  IF db.structure[b].parent \in DOMAIN s.blocks
                        THEN PageOf[db.structure[b].parent] = PageOf[b]
                        ELSE db.structure[b].parent \in Dead(s)
      BY <1>4, <1>5 DEF IntendedParentsAreKnown
    <2> DEFINE up == db.structure[b].parent
    <2>1. up \in PlacesOf(b) /\ up \in Heard(db) BY <1>1 DEF BlockTidy
    <2>2. up \in Blocks /\ PageOf[up] = PageOf[b] BY <2>1 DEF PlacesOf
    <2>3. BlockExists(db, up) \/ IsTombstoned(db, up) BY <2>1, <2>2, HeardMembers
    <2> QED BY <1>4, <2>2, <2>3 DEF Dead, Objects
  <1>20. Live(s) \cap Dead(s) \subseteq Blocks
    <2> SUFFICES ASSUME NEW x \in Live(s) \cap Dead(s), x \notin Blocks PROVE FALSE OBVIOUS
    <2>1. x \in Pages /\ PageExists(db, x) /\ IsTombstoned(db, x) BY <1>4 DEF Live, Dead
    <2> QED BY <1>2, <2>1 DEF PageLiveOrDead
  <1> QED BY <1>15, <1>16, <1>17, <1>18, <1>19, <1>20 DEF CarriesOver, s

\* What the server exports is, after it is imported, the database it was taken of,
\* with the tree of blocks built again; the importer finds the pages of its
\* blocks, their parents and their intents (export_sync_snapshot,
\* validate_snapshot, import_sync_snapshot).
THEOREM SnapshotsCarryOverHolds == Spec => []SnapshotsCarryOver
  <1>1. Inductive => SnapshotsCarryOver
    BY DeviceIsReplica, DeviceShows, ShownCarriesOver DEF SnapshotsCarryOver
  <1> QED BY <1>1, InductiveHolds, PTL
=============================================================================
