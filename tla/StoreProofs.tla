----------------------------- MODULE StoreProofs ------------------------------
(***************************************************************************)
(* The stores beside the replica, for any number of documents, workers,    *)
(* imports and files: the semantic index answers for the notes it counts   *)
(* as reconciled with, an entity is there as long as something names it,   *)
(* an import is one moment of the directory it was read from, every        *)
(* attachment keeps its file, and the bytes of an accepted operation can   *)
(* be downloaded or will be uploaded again.                                *)
(*                                                                         *)
(* None of these is inductive.  What each rests on is what a step that has *)
(* read something knows when it comes to write: a worker at its            *)
(* transaction has read the notes its token stands for, an answer is of    *)
(* the text its job is still for, a scan lies between two moments of the   *)
(* directory, who has seen a file is counted by every cleanup, and a row   *)
(* of the server's ownership table is given up only for an operation that  *)
(* brings the blob again.                                                  *)
(***************************************************************************)
EXTENDS AiIndex, Entities, Imports, Blobs, BlobFiles, Induction, SequenceTheorems

-----------------------------------------------------------------------------
(* The semantic index *)

\* Every document of the last reconciliation has its vectors or a job for them,
\* never both, and nothing is left of the others.
Settled(gen) ==
    \A d \in Docs : \/ gen.job[d] = Absent /\ gen.vec[d] = gen.last[d]
                    \/ gen.job[d] # Absent /\ gen.job[d] = gen.last[d]
\* Who has compared the token with the present one has read the present notes.
UpToDate(gen) == gen.cursor <= stamp /\ (gen.cursor = stamp => gen.last = text)
ReadInTime(k) ==
    k.token <= stamp /\ (k.step \in {"commit", "commit2"} /\ k.token = stamp => k.docs = text)

NotesTyped == text \in Contents /\ stamp \in 0 .. MaxEdits
GensTyped ==
    /\ gens \in Seq(Generations)
    /\ serving \in DOMAIN gens /\ opened \in {0} \union DOMAIN gens
    /\ resets \in 0 .. MaxResets
GensWell == \A g \in DOMAIN gens : Settled(gens[g]) /\ UpToDate(gens[g])
WorkersWell ==
    /\ workers \in Seq(Workers)
    /\ \A w \in DOMAIN workers : workers[w].gen \in DOMAIN gens /\ ReadInTime(workers[w])
AiInv == NotesTyped /\ GensTyped /\ GensWell /\ WorkersWell

LEMMA NothingIs == Nothing \in Contents /\ \A d \in Docs : Nothing[d] = Absent
  BY DEF Nothing, Contents

LEMMA BuildingIs ==
  ASSUME NEW m \in Models
  PROVE  /\ Building(m) \in Generations /\ Settled(Building(m))
         /\ Building(m).cursor = -1 /\ Building(m).status = "building"
  BY NothingIs, AiAssumption DEF Building, Generations, Settled, NeverReconciled

LEMMA WorkerIs ==
  ASSUME NEW g \in Nat
  PROVE  /\ Worker(g) \in Workers /\ Worker(g).gen = g /\ Worker(g).token = 0
         /\ Worker(g).step = "compare"
<1>1. 0 \in 0 .. MaxEdits BY AiAssumption
<1>2. Nothing \in Contents BY NothingIs
<1> QED BY <1>1, <1>2, Zenon DEF Worker, Workers, Steps

LEMMA HaltedIs ==
  ASSUME NEW k \in Workers
  PROVE  LET q == [k EXCEPT !.live = FALSE]
         IN  q \in Workers /\ q.gen = k.gen /\ q.token = k.token /\ q.step = k.step
                /\ q.docs = k.docs
  BY DEF Workers

\* A set of places that is not empty has a last one.
LEMMA LastPlace ==
  ASSUME NEW n \in Nat, NEW X \in SUBSET (1 .. n), X # {}
  PROVE  \E g \in X : \A h \in X : h <= g
<1> DEFINE Has(Y) == \E g \in Y : \A h \in Y : h <= g
<1> DEFINE T == {k \in Nat : \A Y \in SUBSET (1 .. k) : Y # {} => Has(Y)}
<1>1. 0 \in T
  <2>1. \A Y \in SUBSET (1 .. 0) : Y = {} OBVIOUS
  <2> HIDE DEF Has
  <2> QED BY <2>1
<1>2. ASSUME NEW k \in T PROVE k + 1 \in T
  <2> SUFFICES ASSUME NEW Y \in SUBSET (1 .. (k + 1)), Y # {} PROVE Has(Y) OBVIOUS
  <2>1. CASE k + 1 \in Y
    <3>1. \A h \in Y : h <= k + 1 OBVIOUS
    <3> QED BY <2>1, <3>1
  <2>2. CASE k + 1 \notin Y
    <3>1. Y \in SUBSET (1 .. k) BY <2>2
    <3> QED BY <3>1
  <2> QED BY <2>1, <2>2
<1>3. T \in SUBSET Nat OBVIOUS
<1> HIDE DEF T
<1>4. T = Nat BY <1>1, <1>2, <1>3, NaturalsAreInductive
<1> QED BY <1>4 DEF T

LEMMA ReusableIs ==
  ASSUME GensTyped, NEW m
  PROVE  Reusable(m) \in {0} \union DOMAIN gens
<1> DEFINE of(status) == {g \in DOMAIN gens :
                            gens[g].model = m /\ gens[g].status = status}
<1> DEFINE newest(set) == CHOOSE g \in set : \A h \in set : h <= g
<1>1. Len(gens) \in Nat /\ DOMAIN gens = 1 .. Len(gens) BY DEF GensTyped
<1>2. ASSUME NEW set \in SUBSET DOMAIN gens, set # {} PROVE newest(set) \in DOMAIN gens
  <2>1. \E g \in set : \A h \in set : h <= g BY <1>1, <1>2, LastPlace
  <2> QED BY <2>1
<1>3. /\ of("active") \in SUBSET DOMAIN gens
      /\ of("building") \in SUBSET DOMAIN gens
  OBVIOUS
<1>4. Reusable(m) = IF of("active") # {} THEN newest(of("active"))
                    ELSE IF of("building") # {} THEN newest(of("building")) ELSE 0
  BY DEF Reusable
<1> HIDE DEF of, newest
<1> QED BY <1>2, <1>3, <1>4

LEMMA AiInitHolds == AiInit => AiInv
<1> SUFFICES ASSUME AiInit PROVE AiInv OBVIOUS
<1> DEFINE m == CHOOSE m \in Models : TRUE
<1>1. m \in Models BY AiAssumption
<1> HIDE DEF m
<1>2. gens = <<Building(m)>> /\ workers = <<Worker(1)>> BY DEF AiInit, m
<1>3. text \in Contents /\ stamp = 0 /\ NotesTyped
  BY NothingIs, AiAssumption DEF AiInit, NotesTyped
<1>4. GensTyped BY <1>1, <1>2, BuildingIs, AiAssumption DEF AiInit, GensTyped
<1>5. GensWell BY <1>1, <1>2, <1>3, BuildingIs DEF GensWell, UpToDate
<1>6. WorkersWell BY <1>2, <1>3, WorkerIs DEF WorkersWell, ReadInTime
<1> QED BY <1>3, <1>4, <1>5, <1>6 DEF AiInv

LEMMA EditDocumentKeeps == ASSUME AiInv, EditDocument PROVE AiInv'
<1>1. /\ stamp < MaxEdits /\ stamp' = stamp + 1
      /\ UNCHANGED <<gens, workers, serving, opened, resets>>
  BY DEF EditDocument
<1>2. stamp \in 0 .. MaxEdits /\ text \in Contents BY DEF AiInv, NotesTyped
<1>3. NotesTyped'
  BY <1>1, <1>2, AiAssumption DEF EditDocument, NotesTyped, Contents
<1>4. GensTyped' BY <1>1 DEF AiInv, GensTyped
<1>5. GensWell'
  <2> SUFFICES ASSUME NEW g \in DOMAIN gens PROVE Settled(gens[g]) /\ UpToDate(gens[g])'
    BY <1>1 DEF GensWell, Settled
  <2>1. Settled(gens[g]) /\ gens[g].cursor <= stamp BY DEF AiInv, GensWell, UpToDate
  <2>2. gens[g].cursor \in Int
    <3>1. gens[g] \in Generations BY DEF AiInv, GensTyped
    <3> QED BY <3>1, AiAssumption DEF Generations
  <2> QED BY <1>1, <1>2, <2>1, <2>2 DEF UpToDate
<1>6. WorkersWell'
  <2> SUFFICES ASSUME NEW w \in DOMAIN workers PROVE ReadInTime(workers[w])'
    BY <1>1 DEF WorkersWell, AiInv
  <2>1. ReadInTime(workers[w]) BY DEF AiInv, WorkersWell
  <2>2. workers[w].token \in Int
    <3>1. workers[w] \in Workers BY DEF AiInv, WorkersWell
    <3> QED BY <3>1, AiAssumption DEF Workers
  <2> QED BY <1>1, <1>2, <2>1, <2>2 DEF ReadInTime
<1> QED BY <1>3, <1>4, <1>5, <1>6 DEF AiInv

-----------------------------------------------------------------------------
(* What the steps are made of *)

\* The same contents with another status.
LEMMA StatusIs ==
  ASSUME NEW gen \in Generations, NEW s \in {"building", "active", "retired"}
  PROVE  LET n == [gen EXCEPT !.status = s]
         IN  n \in Generations /\ n.status = s /\ n.vec = gen.vec /\ n.job = gen.job
                /\ n.last = gen.last /\ n.cursor = gen.cursor
  BY DEF Generations

\* A generation that has come into use in this step.
Activated(old, new) == old.status # "active" /\ new.status = "active"

\* A step of worker w that leaves the index alone.
LEMMA BecomeKeeps ==
  ASSUME AiInv, NEW w \in DOMAIN workers, NEW k \in Workers, k.gen = workers[w].gen,
         ReadInTime(k), Become(w, k), UNCHANGED <<text, stamp>>, DOMAIN gens' = DOMAIN gens
  PROVE  WorkersWell' /\ NotesTyped'
<1>1. workers' = [workers EXCEPT ![w] = k] BY DEF Become
<1>2. /\ workers \in Seq(Workers)
      /\ \A v \in DOMAIN workers : workers[v].gen \in DOMAIN gens /\ ReadInTime(workers[v])
  BY DEF AiInv, WorkersWell
<1>3. workers' \in Seq(Workers) /\ DOMAIN workers' = DOMAIN workers BY <1>1, <1>2
<1>4. ASSUME NEW v \in DOMAIN workers
      PROVE  workers'[v].gen \in DOMAIN gens /\ ReadInTime(workers'[v])
  BY <1>1, <1>2
<1>5. \A v \in DOMAIN workers' : ReadInTime(workers[v])'
  BY <1>3, <1>4 DEF ReadInTime
<1> QED BY <1>3, <1>4, <1>5 DEF WorkersWell, AiInv, NotesTyped

\* A generation that was written, and the others, some of which are retired.
LEMMA PutKeeps ==
  ASSUME AiInv, NEW g \in DOMAIN gens, NEW gen \in Generations, Settled(gen),
         UpToDate(gen), gen.status = gens[g].status, NEW count, Put(g, gen, count),
         UNCHANGED <<text, stamp, serving, opened, resets>>
  PROVE  /\ GensTyped' /\ GensWell' /\ DOMAIN gens' = DOMAIN gens
         /\ \A h \in DOMAIN gens :
                Activated(gens[h], gens'[h]) => gens'[h].vec = gens'[h].last
<1>1. /\ gens \in Seq(Generations)
      /\ \A h \in DOMAIN gens : Settled(gens[h]) /\ UpToDate(gens[h])
  BY DEF AiInv, GensTyped, GensWell
<1>2. DOMAIN gens = 1 .. Len(gens) /\ Len(gens) \in Nat
      /\ \A h \in DOMAIN gens : gens[h] \in Generations
  BY <1>1
<1> DEFINE used == [gen EXCEPT !.status = "active"]
<1> DEFINE old(h) == [gens[h] EXCEPT !.status = "retired"]
<1>3. CASE MayActivate(gen, count)
  <2>1. gens' = [h \in DOMAIN gens |->
                    IF h = g THEN used
                    ELSE IF gens[h].status = "active" THEN old(h) ELSE gens[h]]
    BY <1>3 DEF Put
  <2>2. used \in Generations /\ used.vec = gen.vec /\ used.job = gen.job
        /\ used.last = gen.last /\ used.cursor = gen.cursor
    BY StatusIs
  <2>3. \A h \in DOMAIN gens :
            old(h) \in Generations /\ old(h).status = "retired"
            /\ old(h).vec = gens[h].vec /\ old(h).job = gens[h].job
            /\ old(h).last = gens[h].last /\ old(h).cursor = gens[h].cursor
    BY <1>2, StatusIs
  <2> HIDE DEF used, old
  <2>4. DOMAIN gens' = DOMAIN gens /\ \A h \in DOMAIN gens : gens'[h] \in Generations
    BY <1>2, <2>1, <2>2, <2>3
  <2>5. gens' \in Seq(Generations)
    <3>1. gens' = [h \in 1 .. Len(gens) |-> gens'[h]] BY <1>2, <2>1
    <3> QED BY <1>2, <2>4, <3>1
  <2>6. ASSUME NEW h \in DOMAIN gens PROVE Settled(gens'[h]) /\ UpToDate(gens'[h])
    <3>1. CASE h = g BY <2>1, <2>2, <3>1 DEF Settled, UpToDate
    <3>2. CASE h # g /\ gens[h].status = "active"
      BY <1>1, <2>1, <2>3, <3>2 DEF Settled, UpToDate
    <3>3. CASE h # g /\ gens[h].status # "active" BY <1>1, <2>1, <3>3
    <3> QED BY <3>1, <3>2, <3>3
  <2>7. used.vec = used.last
    <3>1. \A d \in Docs : gen.job[d] = Absent BY <1>3 DEF MayActivate, Present
    <3>2. \A d \in Docs : gen.vec[d] = gen.last[d] BY <3>1 DEF Settled
    <3>3. gen.vec \in Contents /\ gen.last \in Contents BY DEF Generations
    <3> QED BY <2>2, <3>2, <3>3 DEF Contents
  <2>8. \A h \in DOMAIN gens : Activated(gens[h], gens'[h]) => h = g
    BY <2>1, <2>3 DEF Activated
  <2>9. \A h \in DOMAIN gens' : UpToDate(gens[h])' /\ Settled(gens[h])'
    BY <2>4, <2>6 DEF UpToDate, Settled
  <2>10. GensTyped' BY <2>4, <2>5 DEF AiInv, GensTyped
  <2>11. gens'[g] = used BY <2>1
  <2> QED BY <2>4, <2>7, <2>8, <2>9, <2>10, <2>11 DEF GensWell
<1>4. CASE ~MayActivate(gen, count)
  <2>1. gens' = [gens EXCEPT ![g] = gen] BY <1>4 DEF Put
  <2>2. gens' \in Seq(Generations) /\ DOMAIN gens' = DOMAIN gens BY <1>1, <2>1
  <2>3. ASSUME NEW h \in DOMAIN gens
        PROVE  /\ Settled(gens'[h]) /\ UpToDate(gens'[h])
               /\ gens'[h].status = gens[h].status
    <3>1. CASE h = g BY <1>1, <2>1, <3>1
    <3>2. CASE h # g BY <1>1, <2>1, <3>2
    <3> QED BY <3>1, <3>2
  <2>4. \A h \in DOMAIN gens' : UpToDate(gens[h])' /\ Settled(gens[h])'
    BY <2>2, <2>3 DEF UpToDate, Settled
  <2>5. GensTyped' BY <2>2 DEF AiInv, GensTyped
  <2> QED BY <2>2, <2>3, <2>4, <2>5 DEF GensWell, Activated
<1> QED BY <1>3, <1>4

LEMMA WorkersHere ==
  ASSUME AiInv, NEW w \in DOMAIN workers
  PROVE  /\ workers[w] \in Workers /\ workers[w].gen \in DOMAIN gens
         /\ ReadInTime(workers[w]) /\ Now(w) \in Generations
         /\ Settled(Now(w)) /\ UpToDate(Now(w))
         /\ workers[w].token \in 0 .. MaxEdits /\ workers[w].step \in Steps
         /\ workers[w].docs \in Contents /\ workers[w].taken \in Contents
         /\ workers[w].got \in Contents /\ workers[w].count \in Nat
         /\ stamp \in 0 .. MaxEdits /\ text \in Contents
<1>1. workers[w] \in Workers /\ workers[w].gen \in DOMAIN gens /\ ReadInTime(workers[w])
  BY DEF AiInv, WorkersWell
<1>2. Now(w) \in Generations /\ Settled(Now(w)) /\ UpToDate(Now(w))
  BY <1>1 DEF AiInv, GensTyped, GensWell, Now
<1>3. stamp \in 0 .. MaxEdits /\ text \in Contents BY DEF AiInv, NotesTyped
<1> QED BY <1>1, <1>2, <1>3 DEF Workers

-----------------------------------------------------------------------------
(* The worker *)

\* A worker that goes on to a step at which it has read nothing.
Comparing(k, t, c, s) ==
    k \in Workers /\ t \in 0 .. MaxEdits /\ c \in Nat /\ s \in Steps =>
        /\ LET q == [k EXCEPT !.token = t, !.step = s]
           IN  q \in Workers /\ q.gen = k.gen /\ q.token = t /\ q.step = s
        /\ LET q == [k EXCEPT !.count = c, !.step = s]
           IN  q \in Workers /\ q.gen = k.gen /\ q.token = k.token /\ q.step = s

LEMMA ComparingIs == \A k, t, c, s : Comparing(k, t, c, s)
<1> TAKE k, t, c, s
<1>1. ASSUME k \in Workers, t \in 0 .. MaxEdits, s \in Steps
      PROVE  LET q == [k EXCEPT !.token = t, !.step = s]
             IN  q \in Workers /\ q.gen = k.gen /\ q.token = t /\ q.step = s
  BY <1>1 DEF Workers
<1>2. ASSUME k \in Workers, c \in Nat, s \in Steps
      PROVE  LET q == [k EXCEPT !.count = c, !.step = s]
             IN  q \in Workers /\ q.gen = k.gen /\ q.token = k.token /\ q.step = s
  BY <1>2 DEF Workers
<1> QED BY <1>1, <1>2 DEF Comparing

\* A step of worker w that leaves the index alone.
LEMMA WorkerAlone ==
  ASSUME AiInv, NEW w \in DOMAIN workers, NEW k \in Workers, k.gen = workers[w].gen,
         ReadInTime(k), Become(w, k),
         UNCHANGED <<text, stamp, gens, serving, opened, resets>>
  PROVE  AiInv'
<1>1. WorkersWell' /\ NotesTyped' BY BecomeKeeps
<1>2. GensTyped' /\ GensWell' BY DEF AiInv, GensTyped, GensWell, Settled, UpToDate
<1> QED BY <1>1, <1>2 DEF AiInv

LEMMA CompareTokensKeeps ==
  ASSUME AiInv, NEW w \in DOMAIN workers, CompareTokens(w) PROVE AiInv'
<1>1. /\ workers[w].step \in {"compare", "compare2"}
      /\ UNCHANGED <<text, stamp, gens, serving, opened, resets>>
  BY DEF CompareTokens
<1> DEFINE c == Now(w).count
<1>2. c \in Nat BY WorkersHere DEF Generations
<1>3. CASE Now(w).cursor = stamp
  <2> DEFINE s == Again(Again(Again(workers[w].step)))
  <2>1. Become(w, [workers[w] EXCEPT !.count = c, !.step = s])
    BY <1>3 DEF CompareTokens
  <2>2. s \in {"take", "write"}
    <3>1. CASE workers[w].step = "compare"
      <4>1. Again("compare") = "read" /\ Again("read") = "commit"
            /\ Again("commit") = "take"
        BY DEF Again
      <4> QED BY <3>1, <4>1
    <3>2. CASE workers[w].step = "compare2"
      <4>1. Again("compare2") = "read2" /\ Again("read2") = "commit2"
            /\ Again("commit2") = "write"
        BY DEF Again
      <4> QED BY <3>2, <4>1
    <3> QED BY <1>1, <3>1, <3>2
  <2> HIDE DEF s, c
  <2> DEFINE k == [workers[w] EXCEPT !.count = c, !.step = s]
  <2>3. Comparing(workers[w], stamp, c, s) BY ComparingIs
  <2>4. k \in Workers /\ k.gen = workers[w].gen /\ k.token = workers[w].token /\ k.step = s
    BY <1>2, <2>2, <2>3, WorkersHere DEF Comparing, Steps
  <2>5. Become(w, k) BY <2>1
  <2> HIDE DEF k
  <2>6. ReadInTime(k) BY <2>2, <2>4, WorkersHere DEF ReadInTime
  <2> QED BY <1>1, <2>4, <2>5, <2>6, WorkerAlone
<1>4. CASE Now(w).cursor # stamp
  <2> DEFINE s == Again(workers[w].step)
  <2>1. Become(w, [workers[w] EXCEPT !.token = stamp, !.step = s])
    BY <1>4 DEF CompareTokens
  <2>2. s \in {"read", "read2"} BY <1>1 DEF Again
  <2> HIDE DEF s, c
  <2> DEFINE k == [workers[w] EXCEPT !.token = stamp, !.step = s]
  <2>3. Comparing(workers[w], stamp, c, s) BY ComparingIs
  <2>4. k \in Workers /\ k.gen = workers[w].gen /\ k.token = stamp /\ k.step = s
    BY <1>2, <2>2, <2>3, WorkersHere DEF Comparing, Steps
  <2>5. Become(w, k) BY <2>1
  <2> HIDE DEF k
  <2>6. ReadInTime(k) BY <2>2, <2>4, WorkersHere DEF ReadInTime
  <2> QED BY <1>1, <2>4, <2>5, <2>6, WorkerAlone
<1> QED BY <1>3, <1>4

LEMMA ReadDocumentsKeeps ==
  ASSUME AiInv, NEW w \in DOMAIN workers, ReadDocuments(w) PROVE AiInv'
<1>1. /\ workers[w].step \in {"read", "read2"}
      /\ UNCHANGED <<text, stamp, gens, serving, opened, resets>>
  BY DEF ReadDocuments
<1> DEFINE s == Again(workers[w].step)
<1> DEFINE k == [workers[w] EXCEPT !.docs = text, !.step = s]
<1>2. Become(w, k) BY DEF ReadDocuments
<1>3. s \in Steps BY <1>1 DEF Again, Steps
<1> HIDE DEF s
<1>4. k \in Workers /\ k.gen = workers[w].gen /\ k.token = workers[w].token /\ k.docs = text
  BY <1>3, WorkersHere DEF Workers
<1> HIDE DEF k
<1>5. ReadInTime(k) BY <1>4, WorkersHere DEF ReadInTime
<1> QED BY <1>1, <1>2, <1>4, <1>5, WorkerAlone

LEMMA ReconciledIs ==
  ASSUME NEW gen \in Generations, NEW docs \in Contents, NEW token \in 0 .. MaxEdits
  PROVE  LET n == Reconciled(gen, docs, token)
         IN  /\ n \in Generations /\ Settled(n) /\ n.cursor = token /\ n.last = docs
             /\ n.status = gen.status /\ n.count \in Nat
<1> DEFINE due == [d \in Docs |-> IF docs[d] = gen.vec[d] THEN Absent ELSE docs[d]]
<1> DEFINE vec == [d \in Docs |-> IF docs[d] = Absent THEN Absent ELSE gen.vec[d]]
<1> DEFINE given == {d \in gen.given : due[d] # Absent /\ due[d] = gen.job[d]}
<1> DEFINE c == Cardinality(Present(docs))
<1> DEFINE n == [gen EXCEPT !.vec = vec, !.job = due, !.given = given,
                            !.cursor = token, !.count = c, !.last = docs]
<1>1. n = Reconciled(gen, docs, token) BY DEF Reconciled
<1>2. c \in Nat
  <2>1. IsFiniteSet(Present(docs))
    BY AiAssumption, FS_Subset DEF Present
  <2> QED BY <2>1, FS_CardinalityType
<1>3. gen.vec \in Contents /\ gen.job \in Contents /\ gen.given \in SUBSET Docs
  BY DEF Generations
<1>4. due \in Contents /\ vec \in Contents /\ given \in SUBSET Docs
  BY <1>3 DEF Contents
<1>5. \A d \in Docs : \/ due[d] = Absent /\ vec[d] = docs[d]
                      \/ due[d] # Absent /\ due[d] = docs[d]
  OBVIOUS
<1>6. token \in -1 .. MaxEdits BY AiAssumption
<1> HIDE DEF c, due, vec, given
<1>7. /\ n \in Generations /\ n.vec = vec /\ n.job = due /\ n.cursor = token
      /\ n.last = docs /\ n.status = gen.status /\ n.count = c
  BY <1>2, <1>4, <1>6 DEF Generations
<1> HIDE DEF n
<1>8. Settled(n) BY <1>5, <1>7 DEF Settled
<1> QED BY <1>1, <1>2, <1>7, <1>8

\* The activations of a step.
UsedWell == \A h \in DOMAIN gens :
                Activated(gens[h], gens'[h]) => gens'[h].vec = gens'[h].last

LEMMA CommitReconciliationKeeps ==
  ASSUME AiInv, NEW w \in DOMAIN workers, CommitReconciliation(w)
  PROVE  AiInv' /\ UsedWell
<1> DEFINE gen == Reconciled(Now(w), workers[w].docs, workers[w].token)
<1> DEFINE g == workers[w].gen
<1> DEFINE s == Step(w, Again(workers[w].step))
<1> DEFINE c == gen.count
<1> DEFINE k == [workers[w] EXCEPT !.count = c, !.docs = Nothing,
                                   !.token = 0, !.step = s]
<1>1. /\ workers[w].step \in {"commit", "commit2"}
      /\ Put(g, gen, gen.count) /\ Become(w, k)
      /\ UNCHANGED <<text, stamp, serving, opened, resets>>
  BY DEF CommitReconciliation
<1>2. /\ gen \in Generations /\ Settled(gen) /\ gen.cursor = workers[w].token
      /\ gen.last = workers[w].docs /\ gen.status = Now(w).status /\ c \in Nat
  BY WorkersHere, ReconciledIs
<1>3. s \in {"compare", "take", "write"} BY <1>1 DEF Step, Again
<1> HIDE DEF c, s, gen
<1>4. UpToDate(gen) BY <1>1, <1>2, WorkersHere DEF UpToDate, ReadInTime
<1>5. /\ GensTyped' /\ GensWell' /\ DOMAIN gens' = DOMAIN gens /\ UsedWell
  BY <1>1, <1>2, <1>4, WorkersHere, PutKeeps DEF Now, UsedWell
<1>6. k \in Workers /\ k.gen = workers[w].gen /\ k.token = 0 /\ k.step = s
  <2>1. 0 \in 0 .. MaxEdits BY AiAssumption
  <2> QED BY <1>2, <1>3, <2>1, NothingIs, WorkersHere DEF Workers, Steps
<1> HIDE DEF k
<1>7. ReadInTime(k) BY <1>3, <1>6, WorkersHere DEF ReadInTime
<1> QED BY <1>1, <1>5, <1>6, <1>7, BecomeKeeps DEF AiInv

LEMMA StoredIs ==
  ASSUME NEW gen \in Generations, NEW got \in Contents, Settled(gen)
  PROVE  LET n == Stored(gen, got)
         IN  /\ n \in Generations /\ Settled(n) /\ n.cursor = gen.cursor
             /\ n.last = gen.last /\ n.status = gen.status
<1> DEFINE wanted == {d \in Present(got) : gen.job[d] = got[d]}
<1> DEFINE vec == [d \in Docs |-> IF d \in wanted THEN got[d] ELSE gen.vec[d]]
<1> DEFINE job == [d \in Docs |-> IF d \in wanted THEN Absent ELSE gen.job[d]]
<1> DEFINE given == gen.given \ wanted
<1> DEFINE n == [gen EXCEPT !.vec = vec, !.job = job, !.given = given]
<1>1. n = Stored(gen, got) BY DEF Stored
<1>2. gen.vec \in Contents /\ gen.job \in Contents /\ gen.given \in SUBSET Docs
  BY DEF Generations
<1>3. vec \in Contents /\ job \in Contents /\ given \in SUBSET Docs
  BY <1>2 DEF Contents
<1>4. \A d \in Docs : \/ job[d] = Absent /\ vec[d] = gen.last[d]
                      \/ job[d] # Absent /\ job[d] = gen.last[d]
  <2> SUFFICES ASSUME NEW d \in Docs
               PROVE  \/ job[d] = Absent /\ vec[d] = gen.last[d]
                      \/ job[d] # Absent /\ job[d] = gen.last[d]
    OBVIOUS
  <2>1. CASE d \in wanted
    <3>1. gen.job[d] = got[d] /\ got[d] # Absent BY <2>1 DEF Present
    <3>2. gen.last[d] = got[d] BY <3>1 DEF Settled
    <3>3. job[d] = Absent /\ vec[d] = got[d] BY <2>1
    <3> QED BY <3>2, <3>3
  <2>2. CASE d \notin wanted
    <3>1. job[d] = gen.job[d] /\ vec[d] = gen.vec[d] BY <2>2
    <3> QED BY <3>1 DEF Settled
  <2> QED BY <2>1, <2>2
<1> HIDE DEF vec, job, given
<1>5. /\ n \in Generations /\ n.vec = vec /\ n.job = job /\ n.cursor = gen.cursor
      /\ n.last = gen.last /\ n.status = gen.status
  BY <1>3 DEF Generations
<1> HIDE DEF n
<1>6. Settled(n) BY <1>4, <1>5 DEF Settled
<1> QED BY <1>1, <1>5, <1>6

LEMMA WriteEmbeddingsKeeps ==
  ASSUME AiInv, NEW w \in DOMAIN workers, WriteEmbeddings(w)
  PROVE  AiInv' /\ UsedWell
<1> DEFINE gen == Stored(Now(w), workers[w].got)
<1> DEFINE g == workers[w].gen
<1> DEFINE k == [workers[w] EXCEPT !.got = Nothing, !.count = 0, !.step = "compare"]
<1>1. /\ workers[w].step = "write"
      /\ Put(g, gen, workers[w].count) /\ Become(w, k)
      /\ UNCHANGED <<text, stamp, serving, opened, resets>>
  BY DEF WriteEmbeddings
<1>2. /\ gen \in Generations /\ Settled(gen) /\ gen.cursor = Now(w).cursor
      /\ gen.last = Now(w).last /\ gen.status = Now(w).status
  BY WorkersHere, StoredIs
<1> HIDE DEF gen
<1>3. UpToDate(gen) BY <1>2, WorkersHere DEF UpToDate
<1>4. /\ GensTyped' /\ GensWell' /\ DOMAIN gens' = DOMAIN gens /\ UsedWell
  BY <1>1, <1>2, <1>3, WorkersHere, PutKeeps DEF Now, UsedWell
<1>5. k \in Workers /\ k.gen = workers[w].gen /\ k.token = workers[w].token
      /\ k.step = "compare"
  BY NothingIs, WorkersHere DEF Workers, Steps
<1> HIDE DEF k
<1>6. ReadInTime(k) BY <1>5, WorkersHere DEF ReadInTime
<1> QED BY <1>1, <1>4, <1>5, <1>6, BecomeKeeps DEF AiInv

LEMMA TakeJobsKeeps ==
  ASSUME AiInv, NEW w \in DOMAIN workers, TakeJobs(w) PROVE AiInv'
<1>1. UNCHANGED <<text, stamp, gens, serving, opened, resets>> BY DEF TakeJobs
<1>2. PICK batch \in SUBSET (Present(Now(w).job) \ Now(w).given) :
        Become(w, [workers[w] EXCEPT
            !.taken = [d \in Docs |-> IF d \in batch THEN Now(w).job[d] ELSE Absent],
            !.count = 0, !.step = IF batch = {} THEN "compare" ELSE "embed"])
  BY DEF TakeJobs
<1> DEFINE jobs == [d \in Docs |-> IF d \in batch THEN Now(w).job[d] ELSE Absent]
<1> DEFINE s == IF batch = {} THEN "compare" ELSE "embed"
<1> DEFINE k == [workers[w] EXCEPT !.taken = jobs, !.count = 0, !.step = s]
<1>3. Become(w, k) BY <1>2
<1>4. jobs \in Contents
  <2>1. Now(w).job \in Contents BY WorkersHere DEF Generations
  <2> QED BY <2>1 DEF Contents
<1>5. s \in {"compare", "embed"} OBVIOUS
<1> HIDE DEF jobs, s
<1>6. k \in Workers /\ k.gen = workers[w].gen /\ k.token = workers[w].token /\ k.step = s
  BY <1>4, <1>5, WorkersHere DEF Workers, Steps
<1> HIDE DEF k
<1>7. ReadInTime(k) BY <1>5, <1>6, WorkersHere DEF ReadInTime
<1> QED BY <1>1, <1>3, <1>6, <1>7, WorkerAlone

LEMMA TickFailsKeeps ==
  ASSUME AiInv, NEW w \in DOMAIN workers, TickFails(w) PROVE AiInv'
<1>1. /\ Become(w, Worker(workers[w].gen))
      /\ UNCHANGED <<text, stamp, gens, serving, opened, resets>>
  BY DEF TickFails
<1> DEFINE k == Worker(workers[w].gen)
<1>2. workers[w].gen \in Nat BY WorkersHere DEF Workers
<1>3. k \in Workers /\ k.gen = workers[w].gen /\ k.token = 0 /\ k.step = "compare"
  BY <1>2, WorkerIs
<1>4. Become(w, k) BY <1>1
<1> HIDE DEF k
<1>5. ReadInTime(k) BY <1>3, WorkersHere DEF ReadInTime
<1> QED BY <1>1, <1>3, <1>4, <1>5, WorkerAlone

LEMMA EmbedAnswersKeeps ==
  ASSUME AiInv, NEW w \in DOMAIN workers, EmbedAnswers(w) PROVE AiInv' /\ UsedWell
<1> DEFINE g == workers[w].gen
<1>1. UNCHANGED <<text, stamp, serving, opened, resets>> /\ workers[w].step = "embed"
  BY DEF EmbedAnswers
<1>2. PICK good \in SUBSET Present(workers[w].taken),
           lost \in SUBSET Present(workers[w].taken) :
        /\ gens' = [gens EXCEPT ![g].given = @ \union
                {d \in lost : Now(w).job[d] = workers[w].taken[d]}]
        /\ Become(w, [workers[w] EXCEPT
                !.got = [d \in Docs |-> IF d \in good THEN workers[w].taken[d]
                                        ELSE Absent],
                !.taken = Nothing, !.step = "compare2"])
  BY DEF EmbedAnswers
<1> DEFINE given == Now(w).given \union {d \in lost : Now(w).job[d] = workers[w].taken[d]}
<1> DEFINE gen == [Now(w) EXCEPT !.given = given]
<1> DEFINE vectors == [d \in Docs |-> IF d \in good THEN workers[w].taken[d] ELSE Absent]
<1> DEFINE k == [workers[w] EXCEPT !.got = vectors, !.taken = Nothing, !.step = "compare2"]
<1>3. g \in DOMAIN gens /\ gens \in Seq(Generations)
  BY WorkersHere DEF AiInv, GensTyped
<1>4. gens' = [gens EXCEPT ![g] = gen] BY <1>2, <1>3 DEF Now
<1>5. given \in SUBSET Docs
  <2>1. Now(w).given \in SUBSET Docs BY WorkersHere DEF Generations
  <2>2. lost \subseteq Docs BY DEF Present
  <2> QED BY <2>1, <2>2
<1>6. vectors \in Contents BY WorkersHere DEF Contents
<1>7. Become(w, k) BY <1>2
<1> HIDE DEF given, vectors
<1>8. /\ gen \in Generations /\ gen.status = Now(w).status /\ gen.vec = Now(w).vec
      /\ gen.job = Now(w).job /\ gen.last = Now(w).last /\ gen.cursor = Now(w).cursor
  BY <1>5, WorkersHere DEF Generations
<1>9. k \in Workers /\ k.gen = g /\ k.token = workers[w].token /\ k.step = "compare2"
  BY <1>6, NothingIs, WorkersHere DEF Workers, Steps
<1> HIDE DEF k, gen
<1>10. Settled(gen) /\ UpToDate(gen) BY <1>8, WorkersHere DEF Settled, UpToDate
<1>11. DOMAIN gens' = DOMAIN gens /\ gens' \in Seq(Generations) BY <1>3, <1>4, <1>8
<1>12. ASSUME NEW h \in DOMAIN gens
       PROVE  /\ Settled(gens'[h]) /\ UpToDate(gens'[h])
              /\ gens'[h].status = gens[h].status
  <2>1. CASE h = g BY <1>3, <1>4, <1>8, <1>10, <2>1 DEF Now
  <2>2. CASE h # g BY <1>3, <1>4, <2>2 DEF AiInv, GensWell
  <2> QED BY <2>1, <2>2
<1>13. GensWell' BY <1>1, <1>11, <1>12 DEF GensWell, Settled, UpToDate
<1>14. GensTyped' BY <1>1, <1>11 DEF AiInv, GensTyped
<1>15. UsedWell BY <1>12 DEF UsedWell, Activated
<1>16. ReadInTime(k) BY <1>9, WorkersHere DEF ReadInTime
<1> QED BY <1>1, <1>7, <1>9, <1>11, <1>13, <1>14, <1>15, <1>16, BecomeKeeps DEF AiInv

-----------------------------------------------------------------------------
(* Provider updates, restarts and new indexes *)

LEMMA ModelIs == ASSUME NEW gen \in Generations PROVE gen.model \in Models
  BY DEF Generations

LEMMA ResetIndexKeeps == ASSUME AiInv, ResetIndex PROVE AiInv' /\ UsedWell
<1> DEFINE gen == Building(gens[serving].model)
<1>1. /\ resets < MaxResets /\ resets' = resets + 1
      /\ gens' = [gens EXCEPT ![serving] = gen]
      /\ UNCHANGED <<text, stamp, workers, serving, opened>>
  BY DEF ResetIndex
<1>2. /\ serving \in DOMAIN gens /\ gens \in Seq(Generations)
      /\ resets \in 0 .. MaxResets /\ stamp \in 0 .. MaxEdits
  BY DEF AiInv, GensTyped, NotesTyped
<1>3. gens[serving].model \in Models
  <2>1. gens[serving] \in Generations BY <1>2
  <2> QED BY <2>1, ModelIs
<1>4. gen \in Generations /\ Settled(gen) /\ gen.cursor = -1 /\ gen.status = "building"
  BY <1>3, BuildingIs
<1> HIDE DEF gen
<1>5. DOMAIN gens' = DOMAIN gens /\ gens' \in Seq(Generations) BY <1>1, <1>2, <1>4
<1>6. UpToDate(gen) BY <1>2, <1>4 DEF UpToDate
<1>7. ASSUME NEW h \in DOMAIN gens
      PROVE  /\ Settled(gens'[h]) /\ UpToDate(gens'[h])
             /\ gens'[h].status \in {gens[h].status, "building"}
  <2>1. CASE h = serving BY <1>1, <1>2, <1>4, <1>6, <2>1
  <2>2. CASE h # serving BY <1>1, <1>2, <2>2 DEF AiInv, GensWell
  <2> QED BY <2>1, <2>2
<1>8. GensWell' BY <1>1, <1>5, <1>7 DEF GensWell, Settled, UpToDate
<1>9. GensTyped' BY <1>1, <1>2, <1>5, AiAssumption DEF AiInv, GensTyped
<1>10. WorkersWell' BY <1>1, <1>5 DEF AiInv, WorkersWell, ReadInTime
<1>11. NotesTyped' BY <1>1 DEF AiInv, NotesTyped
<1>12. UsedWell BY <1>7 DEF UsedWell, Activated
<1> QED BY <1>8, <1>9, <1>10, <1>11, <1>12 DEF AiInv

\* One more generation, or none.
LEMMA OneMore ==
  ASSUME AiInv, NEW m \in Models, gens' \in {gens, Append(gens, Building(m))},
         UNCHANGED <<text, stamp>>
  PROVE  /\ gens' \in Seq(Generations) /\ GensWell' /\ UsedWell
         /\ DOMAIN gens \subseteq DOMAIN gens'
         /\ gens' = Append(gens, Building(m)) => Len(gens) + 1 \in DOMAIN gens'
<1>1. gens \in Seq(Generations) /\ stamp \in 0 .. MaxEdits
  BY DEF AiInv, GensTyped, NotesTyped
<1> DEFINE gen == Building(m)
<1>2. gen \in Generations /\ Settled(gen) /\ gen.cursor = -1 BY BuildingIs
<1> HIDE DEF gen
<1>3. UpToDate(gen) BY <1>1, <1>2 DEF UpToDate
<1>4. gens' = gens \/ gens' = Append(gens, gen) BY DEF gen
<1>5. gens' \in Seq(Generations) /\ DOMAIN gens \subseteq DOMAIN gens'
      /\ (gens' = Append(gens, gen) => Len(gens) + 1 \in DOMAIN gens')
  BY <1>1, <1>2, <1>4
<1>6. \A h \in DOMAIN gens : gens'[h] = gens[h] BY <1>1, <1>2, <1>4
<1>7. \A h \in DOMAIN gens' : h \in DOMAIN gens \/ gens'[h] = gen BY <1>1, <1>2, <1>4
<1>8. \A h \in DOMAIN gens' : Settled(gens'[h]) /\ UpToDate(gens'[h])
  BY <1>2, <1>3, <1>6, <1>7 DEF AiInv, GensWell
<1>9. GensWell' BY <1>8 DEF GensWell, Settled, UpToDate
<1>10. UsedWell BY <1>6 DEF UsedWell, Activated
<1> QED BY <1>5, <1>9, <1>10 DEF gen

LEMMA OpenProviderKeeps == ASSUME AiInv, OpenProvider PROVE AiInv' /\ UsedWell
<1>1. PICK m \in Models : Open(m) BY DEF OpenProvider
<1>2. UNCHANGED <<text, stamp, workers, serving, resets>> BY DEF OpenProvider
<1>3. \/ gens' = gens /\ opened' = Reusable(m)
      \/ gens' = Append(gens, Building(m)) /\ opened' = Len(gens) + 1
  BY <1>1 DEF Open
<1>4. /\ gens' \in Seq(Generations) /\ GensWell' /\ UsedWell
      /\ DOMAIN gens \subseteq DOMAIN gens'
      /\ gens' = Append(gens, Building(m)) => Len(gens) + 1 \in DOMAIN gens'
  BY <1>2, <1>3, OneMore
<1>5. Reusable(m) \in {0} \union DOMAIN gens BY ReusableIs DEF AiInv
<1>6. opened' \in {0} \union DOMAIN gens' BY <1>3, <1>4, <1>5
<1>7. GensTyped' BY <1>2, <1>4, <1>6 DEF AiInv, GensTyped
<1>8. WorkersWell' BY <1>2, <1>4 DEF AiInv, WorkersWell, ReadInTime
<1> QED BY <1>2, <1>4, <1>7, <1>8 DEF AiInv, NotesTyped

\* The workers there were, changed so that nothing is left to go wrong, and a
\* new one.
LEMMA OneMoreWorker ==
  ASSUME AiInv, NEW g \in DOMAIN gens', NEW ws, gens' \in Seq(Generations),
         workers' = Append(ws, Worker(g)), ws \in Seq(Workers),
         \A v \in DOMAIN ws : ws[v].gen \in DOMAIN gens /\ ReadInTime(ws[v]),
         DOMAIN gens \subseteq DOMAIN gens', UNCHANGED <<text, stamp>>
  PROVE  WorkersWell'
<1> DEFINE k == Worker(g)
<1>1. g \in Nat OBVIOUS
<1>2. k \in Workers /\ k.gen = g /\ k.token = 0 /\ k.step = "compare" BY <1>1, WorkerIs
<1>3. workers' = Append(ws, k) OBVIOUS
<1> HIDE DEF k
<1>4. stamp \in 0 .. MaxEdits BY DEF AiInv, NotesTyped
<1>5. ReadInTime(k) BY <1>2, <1>4 DEF ReadInTime
<1>6. workers' \in Seq(Workers) BY <1>2, <1>3
<1>7. ASSUME NEW v \in DOMAIN workers'
      PROVE  workers'[v].gen \in DOMAIN gens' /\ ReadInTime(workers'[v])
  <2>1. CASE v \in DOMAIN ws BY <1>3, <2>1
  <2>2. CASE v \notin DOMAIN ws
    <3>1. workers'[v] = k BY <1>2, <1>3, <2>2
    <3> QED BY <1>2, <1>5, <3>1
  <2> QED BY <2>1, <2>2
<1>8. \A v \in DOMAIN workers' : ReadInTime(workers[v])' BY <1>7 DEF ReadInTime
<1> QED BY <1>6, <1>7, <1>8 DEF WorkersWell

LEMMA SwitchProviderKeeps == ASSUME AiInv, SwitchProvider PROVE AiInv'
<1>1. /\ opened # 0 /\ workers' = Append(Halted(workers), Worker(opened))
      /\ serving' = opened /\ opened' = 0 /\ UNCHANGED <<text, stamp, gens, resets>>
  BY DEF SwitchProvider
<1>2. opened \in DOMAIN gens /\ gens \in Seq(Generations)
  BY <1>1 DEF AiInv, GensTyped
<1> DEFINE ws == Halted(workers)
<1>3. /\ workers \in Seq(Workers)
      /\ \A v \in DOMAIN workers : workers[v].gen \in DOMAIN gens /\ ReadInTime(workers[v])
  BY DEF AiInv, WorkersWell
<1>4. DOMAIN ws = 1 .. Len(workers) /\ Len(workers) \in Nat BY <1>3 DEF Halted
<1>5. \A v \in 1 .. Len(workers) :
        /\ ws[v] \in Workers /\ ws[v].gen = workers[v].gen
        /\ ws[v].token = workers[v].token /\ ws[v].step = workers[v].step
        /\ ws[v].docs = workers[v].docs
  <2> TAKE v \in 1 .. Len(workers)
  <2>1. workers[v] \in Workers /\ v \in DOMAIN workers BY <1>3
  <2>2. ws[v] = [workers[v] EXCEPT !.live = FALSE] BY <2>1 DEF Halted
  <2> QED BY <2>1, <2>2, HaltedIs
<1>6. ws = [v \in 1 .. Len(workers) |-> ws[v]] BY <1>3 DEF Halted
<1> HIDE DEF ws
<1>7. ws \in Seq(Workers) BY <1>4, <1>5, <1>6
<1>8. \A v \in DOMAIN ws : ws[v].gen \in DOMAIN gens /\ ReadInTime(ws[v])
  BY <1>3, <1>4, <1>5 DEF ReadInTime
<1>9. WorkersWell' BY <1>1, <1>2, <1>7, <1>8, OneMoreWorker DEF ws
<1>10. GensTyped' /\ GensWell'
  BY <1>1, <1>2 DEF AiInv, GensTyped, GensWell, Settled, UpToDate
<1> QED BY <1>1, <1>9, <1>10 DEF AiInv, NotesTyped

LEMMA RestartServerKeeps == ASSUME AiInv, RestartServer PROVE AiInv' /\ UsedWell
<1>1. gens \in Seq(Generations) /\ serving \in DOMAIN gens
      /\ opened \in {0} \union DOMAIN gens
  BY DEF AiInv, GensTyped
<1>2. \A g \in DOMAIN gens : gens[g].model \in Models 
  <2> TAKE g \in DOMAIN gens
  <2>1. gens[g] \in Generations BY <1>1
  <2> QED BY <2>1, ModelIs
<1> DEFINE G(m) == IF Reusable(m) # 0 THEN Reusable(m) ELSE Len(gens) + 1
<1> DEFINE ws == [w \in DOMAIN workers |->
                    [Worker(workers[w].gen) EXCEPT !.live = FALSE]]
<1>3. PICK m \in {gens[serving].model}
                \union (IF opened = 0 THEN {} ELSE {gens[opened].model}) :
        /\ gens' = IF Reusable(m) # 0 THEN gens ELSE Append(gens, Building(m))
        /\ serving' = G(m) /\ workers' = Append(ws, Worker(G(m)))
  BY DEF RestartServer
<1>4. opened' = 0 /\ UNCHANGED <<text, stamp, resets>> BY DEF RestartServer
<1>5. m \in Models BY <1>1, <1>2
<1>6. /\ gens' \in Seq(Generations) /\ GensWell' /\ UsedWell
      /\ DOMAIN gens \subseteq DOMAIN gens'
      /\ gens' = Append(gens, Building(m)) => Len(gens) + 1 \in DOMAIN gens'
  BY <1>3, <1>4, <1>5, OneMore
<1> DEFINE g == G(m)
<1>7. g \in DOMAIN gens'
  <2>1. Reusable(m) \in {0} \union DOMAIN gens BY ReusableIs DEF AiInv
  <2> QED BY <1>3, <1>6, <2>1
<1>8. /\ workers \in Seq(Workers)
      /\ \A v \in DOMAIN workers : workers[v].gen \in DOMAIN gens
  BY DEF AiInv, WorkersWell
<1>9. DOMAIN ws = 1 .. Len(workers) /\ Len(workers) \in Nat BY <1>8
<1>10. \A v \in 1 .. Len(workers) :
        /\ ws[v] \in Workers /\ ws[v].gen = workers[v].gen
        /\ ws[v].token = 0 /\ ws[v].step = "compare"
  <2> TAKE v \in 1 .. Len(workers)
  <2>1. v \in DOMAIN workers /\ workers[v].gen \in Nat BY <1>1, <1>8
  <2> DEFINE k == Worker(workers[v].gen)
  <2>2. k \in Workers /\ k.gen = workers[v].gen /\ k.token = 0 /\ k.step = "compare"
    BY <2>1, WorkerIs
  <2>3. ws[v] = [k EXCEPT !.live = FALSE] BY <2>1
  <2> HIDE DEF k
  <2> QED BY <2>2, <2>3, HaltedIs
<1>11. ws = [v \in 1 .. Len(workers) |-> ws[v]] BY <1>9
<1>12. serving' = g /\ workers' = Append(ws, Worker(g)) BY <1>3
<1> HIDE DEF ws, g
<1>13. ws \in Seq(Workers) BY <1>9, <1>10, <1>11
<1>14. \A v \in DOMAIN ws : ws[v].gen \in DOMAIN gens /\ ReadInTime(ws[v])
  <2>1. stamp \in 0 .. MaxEdits BY DEF AiInv, NotesTyped
  <2> QED BY <1>8, <1>9, <1>10, <2>1 DEF ReadInTime
<1>15. WorkersWell' BY <1>4, <1>6, <1>7, <1>12, <1>13, <1>14, OneMoreWorker
<1>16. GensTyped' BY <1>4, <1>6, <1>7, <1>12 DEF AiInv, GensTyped
<1> QED BY <1>4, <1>6, <1>15, <1>16 DEF AiInv, NotesTyped

-----------------------------------------------------------------------------

LEMMA AiNextKeeps == ASSUME AiInv, [AiNext]_aiVars PROVE AiInv' /\ UsedWell
<1>1. CASE UNCHANGED aiVars
  <2>1. AiInv'
    BY <1>1 DEF aiVars, AiInv, NotesTyped, GensTyped, GensWell, WorkersWell, Settled,
                UpToDate, ReadInTime
  <2>2. UsedWell BY <1>1 DEF aiVars, UsedWell, Activated
  <2> QED BY <2>1, <2>2
<1>2. CASE EditDocument \/ SwitchProvider
  <2>1. gens' = gens BY <1>2 DEF EditDocument, SwitchProvider
  <2>2. UsedWell BY <2>1 DEF UsedWell, Activated
  <2> QED BY <1>2, <2>2, EditDocumentKeeps, SwitchProviderKeeps
<1>3. CASE ResetIndex \/ OpenProvider \/ RestartServer
  BY <1>3, ResetIndexKeeps, OpenProviderKeeps, RestartServerKeeps
<1>4. ASSUME NEW w \in DOMAIN workers, WorkerStep(w) PROVE AiInv' /\ UsedWell
  <2>1. CASE CompareTokens(w) \/ ReadDocuments(w) \/ TakeJobs(w) \/ TickFails(w)
    <3>1. gens' = gens BY <2>1 DEF CompareTokens, ReadDocuments, TakeJobs, TickFails
    <3>2. UsedWell BY <3>1 DEF UsedWell, Activated
    <3> QED
      BY <2>1, <3>2, CompareTokensKeeps, ReadDocumentsKeeps, TakeJobsKeeps, TickFailsKeeps
  <2>2. CASE CommitReconciliation(w) \/ EmbedAnswers(w) \/ WriteEmbeddings(w)
    BY <2>2, CommitReconciliationKeeps, EmbedAnswersKeeps, WriteEmbeddingsKeeps
  <2> QED BY <1>4, <2>1, <2>2 DEF WorkerStep
<1> QED BY <1>1, <1>2, <1>3, <1>4 DEF AiNext

\* The inductive invariant of the index: what each generation has, what a worker
\* holds, and what both know of the notes (reconcile, write_embeddings, run).
THEOREM IndexHolds == AiSpec => []AiInv
<1> QED BY AiInitHolds, AiNextKeeps, PTL DEF AiSpec

\* A generation whose token is the one of the notes answers for the notes as they
\* are: vectors of the present text or a job for it, and nothing of documents
\* that are gone (reconcile, write_embeddings, reset_index).
THEOREM IndexAnswersForNotes == AiSpec => [](AiTypeOK /\ IndexedOrQueued)
<1>1. AiInv => AiTypeOK
  BY DEF AiInv, AiTypeOK, NotesTyped, GensTyped, WorkersWell
<1>2. AiInv => IndexedOrQueued
  <2> SUFFICES ASSUME AiInv, NEW g \in DOMAIN gens, gens[g].cursor = stamp, NEW d \in Docs
               PROVE  IF text[d] = Absent
                      THEN gens[g].vec[d] = Absent /\ gens[g].job[d] = Absent
                      ELSE text[d] \in {gens[g].vec[d], gens[g].job[d]}
    BY DEF IndexedOrQueued
  <2>1. Settled(gens[g]) /\ gens[g].last = text BY DEF AiInv, GensWell, UpToDate
  <2> QED BY <2>1 DEF Settled
<1> QED BY <1>1, <1>2, IndexHolds, PTL

\* A generation that comes into use has vectors of exactly the documents of its
\* last reconciliation (activate_generation_if_complete).
THEOREM UsedIsComplete == AiSpec => ActivatedComplete
<1>1. AiInv /\ [AiNext]_aiVars => [UsedWell]_aiVars BY AiNextKeeps
<1>2. [UsedWell]_aiVars =>
        [\A g \in DOMAIN gens :
            gens[g].status # "active" /\ gens'[g].status = "active" =>
                gens'[g].vec = gens'[g].last]_aiVars
  BY DEF UsedWell, Activated
<1> QED BY <1>1, <1>2, IndexHolds, PTL DEF AiSpec, ActivatedComplete

-----------------------------------------------------------------------------
(* The entity graph *)

\* The names some edge of the set points at.
Mentioned(set) == {n \in Names : \E e \in set : e.dst = n \/ e.src = n}

\* A job that was taken is of a block.
AboutABlock(l) == l.stage \in {"extract", "recheck", "finish"} => l.block \in Blocks

EntityInv ==
    /\ EntityTypeOK
    /\ \A w \in WorkersOfStore : AboutABlock(lane[w])
    /\ entities = Mentioned(edges)

LEMMA IdleIsALane == Idle \in Lanes /\ AboutABlock(Idle)
  BY EntitiesAssumption
     DEF Idle, Lanes, LaneStages, Quiet, Sayings, AboutABlock

LEMMA EntityInitHolds == EntityInit => EntityInv
<1> SUFFICES ASSUME EntityInit PROVE EntityInv OBVIOUS
<1>1. /\ said \in Sayings /\ clock \in 0 .. MaxWrites
      /\ queue \in Sayings /\ done \in Sayings
  BY EntitiesAssumption DEF EntityInit, Sayings, Quiet
<1>2. starts \in 1 .. MaxStarts /\ compared \in -1 .. MaxWrites
  BY EntitiesAssumption DEF EntityInit, Unseen
<1>3. /\ refused \subseteq Blocks /\ edges \subseteq Edges
      /\ entities \subseteq Names /\ dropped \subseteq Blocks
  BY DEF EntityInit
<1>4. lane \in [WorkersOfStore -> Lanes] /\ \A w \in WorkersOfStore : AboutABlock(lane[w])
  BY IdleIsALane DEF EntityInit
<1>5. entities = Mentioned(edges) BY DEF EntityInit, Mentioned
<1> QED BY <1>1, <1>2, <1>3, <1>4, <1>5 DEF EntityInv, EntityTypeOK

\* Dropping the edges of one block for others, and the candidates nobody names
\* any more, leaves exactly the names that are mentioned.
OrphansGone(kept, old, named, new, found) ==
    (/\ \A e \in old : e.src \in named /\ e.dst \in named
     /\ found \in SUBSET Names /\ Mentioned(new) \subseteq found)
    => (Mentioned(kept \union old) \union found)
            \ Orphans(named \union found, kept \union new)
        = Mentioned(kept \union new)

LEMMA OrphansGo ==
  \A kept, old, named, new, found : OrphansGone(kept, old, named, new, found)
<1> TAKE kept, old, named, new, found
<1> SUFFICES ASSUME found \in SUBSET Names,
                    \A e \in old : e.src \in named /\ e.dst \in named,
                    Mentioned(new) \subseteq found
             PROVE  (Mentioned(kept \union old) \union found)
                            \ Orphans(named \union found, kept \union new)
                        = Mentioned(kept \union new)
  BY DEF OrphansGone
<1> DEFINE now == kept \union new
<1> DEFINE left == (Mentioned(kept \union old) \union found)
                        \ Orphans(named \union found, now)
<1>1. ASSUME NEW n \in left PROVE n \in Mentioned(now)
  <2>1. n \in Names BY <1>1 DEF Mentioned
  <2>2. CASE n \in named \union found
    <3>1. \E e \in now : e.src = n \/ e.dst = n BY <1>1, <2>2 DEF Orphans
    <3> QED BY <2>1, <3>1 DEF Mentioned
  <2>3. CASE n \notin named \union found
    <3>1. n \in Mentioned(kept \union old) BY <1>1, <2>3
    <3>2. PICK e \in kept \union old : e.dst = n \/ e.src = n
      BY <3>1 DEF Mentioned
    <3>3. e \notin old BY <2>3, <3>2
    <3> QED BY <2>1, <3>2, <3>3 DEF Mentioned
  <2> QED BY <2>2, <2>3
<1>2. ASSUME NEW n \in Mentioned(now) PROVE n \in left
  <2>1. n \in Names /\ \E e \in now : e.dst = n \/ e.src = n BY DEF Mentioned
  <2>2. n \notin Orphans(named \union found, now) BY <2>1 DEF Orphans
  <2>3. n \in Mentioned(kept) \/ n \in Mentioned(new) BY <2>1 DEF Mentioned
  <2>4. Mentioned(kept) \subseteq Mentioned(kept \union old) BY DEF Mentioned
  <2> QED BY <2>2, <2>3, <2>4
<1> QED BY <1>1, <1>2

\* What tells a step of the lanes.
LEMMA LanesStay ==
  ASSUME EntityInv, NEW l \in Lanes, AboutABlock(l), NEW w \in WorkersOfStore,
         Proceed(w, l)
  PROVE  /\ lane' \in [WorkersOfStore -> Lanes]
         /\ \A v \in WorkersOfStore : AboutABlock(lane'[v])
<1> DEFINE n == IF w = "now" THEN l ELSE Idle
<1>1. lane' = [lane EXCEPT ![w] = n] BY DEF Proceed
<1>2. n \in Lanes /\ AboutABlock(n) BY IdleIsALane
<1> HIDE DEF n
<1>3. lane \in [WorkersOfStore -> Lanes] /\ \A v \in WorkersOfStore : AboutABlock(lane[v])
  BY DEF EntityInv, EntityTypeOK
<1>4. lane' \in [WorkersOfStore -> Lanes] BY <1>1, <1>2, <1>3
<1>5. ASSUME NEW v \in WorkersOfStore PROVE AboutABlock(lane'[v])
  <2>1. lane'[v] = n \/ lane'[v] = lane[v] BY <1>1, <1>3
  <2> QED BY <1>2, <1>3, <2>1
<1> QED BY <1>4, <1>5

LEMMA LanesHere ==
  ASSUME EntityInv, NEW w \in WorkersOfStore
  PROVE  /\ lane[w] \in Lanes /\ AboutABlock(lane[w])
         /\ lane[w].stage \in LaneStages /\ lane[w].token \in 0 .. MaxWrites
         /\ lane[w].docs \in Sayings /\ lane[w].stale \in SUBSET Blocks
         /\ lane[w].text \in Phrases \union {Silent} /\ lane[w].found \in SUBSET Names
<1>1. lane[w] \in Lanes /\ AboutABlock(lane[w]) BY DEF EntityInv, EntityTypeOK
<1> QED BY <1>1 DEF Lanes

\* Steps of the lanes that leave the store alone.
LEMMA StoreStays ==
  ASSUME EntityInv, lane' \in [WorkersOfStore -> Lanes],
         \A v \in WorkersOfStore : AboutABlock(lane'[v]),
         UNCHANGED <<said, clock, compared, queue, done, edges, entities, dropped>>,
         starts' \in 1 .. MaxStarts, refused' \subseteq Blocks
  PROVE  EntityInv'
  BY DEF EntityInv, EntityTypeOK, AboutABlock, Mentioned

LEMMA WriteBlockKeeps == ASSUME EntityInv, WriteBlock PROVE EntityInv'
<1>1. said' \in Sayings BY DEF WriteBlock, EntityInv, EntityTypeOK, Sayings
<1>2. clock' \in 0 .. MaxWrites
  BY EntitiesAssumption DEF WriteBlock, EntityInv, EntityTypeOK
<1> QED
  BY <1>1, <1>2 DEF WriteBlock, store, EntityInv, EntityTypeOK, AboutABlock, Mentioned

LEMMA RestartExtractorKeeps == ASSUME EntityInv, RestartExtractor PROVE EntityInv'
<1>1. PICK late \in {Idle, lane["now"]} : lane' = [now |-> Idle, late |-> late]
  BY DEF RestartExtractor
<1>2. late \in Lanes /\ AboutABlock(late)
  BY <1>1, IdleIsALane, LanesHere DEF WorkersOfStore
<1>3. /\ lane' \in [WorkersOfStore -> Lanes]
      /\ \A v \in WorkersOfStore : AboutABlock(lane'[v])
  BY <1>1, <1>2, IdleIsALane DEF WorkersOfStore
<1>4. starts' \in 1 .. MaxStarts
  BY EntitiesAssumption DEF RestartExtractor, EntityInv, EntityTypeOK
<1> QED BY <1>3, <1>4, StoreStays DEF RestartExtractor, store, EntityInv, EntityTypeOK

\* Steps of a worker between two transactions.
LEMMA WaitingKeeps ==
  ASSUME EntityInv, NEW l \in Lanes, AboutABlock(l), NEW w \in WorkersOfStore,
         Proceed(w, l), UNCHANGED <<said, clock, compared, queue, done, edges,
                                    entities, dropped, starts>>,
         refused' \subseteq Blocks
  PROVE  EntityInv'
<1>1. /\ lane' \in [WorkersOfStore -> Lanes]
      /\ \A v \in WorkersOfStore : AboutABlock(lane'[v])
  BY LanesStay
<1>2. starts' \in 1 .. MaxStarts BY DEF EntityInv, EntityTypeOK
<1> QED BY <1>1, <1>2, StoreStays

\* Both ends of the edges of a block are candidates when it loses them.
LEMMA NamedHolds ==
  ASSUME NEW b, NEW e \in edges, e.from = b
  PROVE  e.src \in Named(b) /\ e.dst \in Named(b)
<1>1. {e.src, e.dst} \in {{f.src, f.dst} : f \in {f \in edges : f.from = b}}
  OBVIOUS
<1> QED BY <1>1, Zenon DEF Named

LEMMA ForgetSourceKeeps ==
  ASSUME EntityInv, NEW w \in WorkersOfStore, ForgetSource(w) PROVE EntityInv'
<1>1. CASE lane[w].stale = {}
  <2> DEFINE l == [lane[w] EXCEPT !.stage = "take"]
  <2>1. Proceed(w, l) /\ UNCHANGED <<store, dropped, said, clock, starts>>
    BY <1>1 DEF ForgetSource
  <2>2. l \in Lanes /\ l.stage = "take" BY LanesHere DEF Lanes, LaneStages
  <2> HIDE DEF l
  <2> QED
    BY <2>1, <2>2, WaitingKeeps DEF AboutABlock, store, EntityInv, EntityTypeOK
<1>2. CASE lane[w].stale # {}
  <2>1. PICK b \in lane[w].stale :
            /\ edges' = {e \in edges : e.from # b}
            /\ entities' = entities \ Orphans(Named(b), edges')
            /\ done' = [done EXCEPT ![b] = Silent]
            /\ queue' = [queue EXCEPT ![b] = Silent]
            /\ refused' = refused \ {b}
            /\ Proceed(w, [lane[w] EXCEPT !.stale = @ \ {b}])
            /\ dropped' = IF w = "late" THEN dropped \union {b} ELSE dropped
            /\ UNCHANGED compared
    BY <1>2 DEF ForgetSource
  <2>2. b \in Blocks BY LanesHere
  <2> DEFINE rest == lane[w].stale \ {b}
  <2> DEFINE l == [lane[w] EXCEPT !.stale = rest]
  <2>3. rest \in SUBSET Blocks BY LanesHere
  <2>4. Proceed(w, l) /\ UNCHANGED <<said, clock, starts>> BY <1>2, <2>1 DEF ForgetSource
  <2> HIDE DEF rest
  <2>5. l \in Lanes /\ l.stage = lane[w].stage BY <2>3, LanesHere DEF Lanes
  <2>6. lane[w].stage = "forget" BY DEF ForgetSource
  <2> HIDE DEF l
  <2>7. /\ lane' \in [WorkersOfStore -> Lanes]
        /\ \A v \in WorkersOfStore : AboutABlock(lane'[v])
    BY <2>4, <2>5, <2>6, LanesStay DEF AboutABlock
  <2>8. queue' \in Sayings /\ done' \in Sayings
    BY <2>1, <2>2 DEF EntityInv, EntityTypeOK, Sayings
  <2>9. entities' = Mentioned(edges')
    <3> DEFINE kept == {e \in edges : e.from # b}
    <3> DEFINE old == {e \in edges : e.from = b}
    <3>1. \A e \in old : e.src \in Named(b) /\ e.dst \in Named(b) BY NamedHolds
    <3>2. kept \union old = edges OBVIOUS
    <3>3. entities = Mentioned(kept \union old) BY <3>2 DEF EntityInv
    <3>4. edges' = kept /\ entities' = entities \ Orphans(Named(b), kept) BY <2>1
    <3> DEFINE none == {}
    <3>5. Mentioned(none) \subseteq none /\ none \in SUBSET Names BY DEF Mentioned
    <3>7. /\ kept \union none = kept /\ Named(b) \union none = Named(b)
          /\ Mentioned(kept \union old) \union none = Mentioned(kept \union old)
      OBVIOUS
    <3> HIDE DEF kept, old, none
    <3>6. (Mentioned(kept \union old) \union none)
                \ Orphans(Named(b) \union none, kept \union none)
            = Mentioned(kept \union none)
      <4>1. OrphansGone(kept, old, Named(b), none, none) BY OrphansGo
      <4> QED BY <3>1, <3>5, <4>1 DEF OrphansGone
    <3>8. Mentioned(kept \union old) \ Orphans(Named(b), kept) = Mentioned(kept)
      BY <3>6, <3>7
    <3> QED BY <3>3, <3>4, <3>8
  <2>10. /\ edges' \subseteq Edges /\ refused' \subseteq Blocks
         /\ dropped' \subseteq Blocks
    BY <2>1, <2>2 DEF EntityInv, EntityTypeOK
  <2>11. entities' \subseteq Names BY <2>9 DEF Mentioned
  <2>12. /\ said' \in Sayings /\ clock' \in 0 .. MaxWrites
         /\ compared' \in -1 .. MaxWrites /\ starts' \in 1 .. MaxStarts
    BY <2>1, <2>4 DEF EntityInv, EntityTypeOK
  <2>13. EntityTypeOK' BY <2>7, <2>8, <2>10, <2>11, <2>12 DEF EntityTypeOK
  <2>14. \A v \in WorkersOfStore : AboutABlock(lane[v])' BY <2>7 DEF AboutABlock
  <2>15. entities' = Mentioned(edges)' BY <2>9 DEF Mentioned
  <2> QED BY <2>13, <2>14, <2>15 DEF EntityInv
<1> QED BY <1>1, <1>2

LEMMA FinishExtractionKeeps ==
  ASSUME EntityInv, NEW w \in WorkersOfStore, FinishExtraction(w) PROVE EntityInv'
<1> DEFINE b == lane[w].block
<1> DEFINE found == lane[w].found
<1>1. /\ lane[w].stage = "finish" /\ Proceed(w, Idle)
      /\ UNCHANGED <<said, clock, starts, dropped>>
  BY DEF FinishExtraction
<1>2. CASE ~JobIsCurrent(b, lane[w].text)
  <2>1. UNCHANGED store BY <1>2 DEF FinishExtraction
  <2> QED
    BY <1>1, <2>1, IdleIsALane, WaitingKeeps DEF store, EntityInv, EntityTypeOK
<1>3. CASE JobIsCurrent(b, lane[w].text)
  <2>1. PICK new \in Extractions(b, found) :
            edges' = {e \in edges : e.from # b} \union new
    BY <1>3 DEF FinishExtraction
  <2>2. /\ entities' = (entities \union found) \ Orphans(Doubtful(b, found), edges')
        /\ done' = [done EXCEPT ![b] = lane[w].text]
        /\ queue' = [queue EXCEPT ![b] = Silent]
        /\ refused' = refused \ {b} /\ UNCHANGED compared
    BY <1>3 DEF FinishExtraction
  <2>3. b \in Blocks BY <1>1, LanesHere DEF AboutABlock
  <2>4. found \in SUBSET Names /\ lane[w].text \in Phrases \union {Silent} BY LanesHere
  <2>5. \A e \in new : e \in Edges /\ e.src \in {b} \union found /\ e.dst \in found
    <3> HIDE DEF b, found
    <3>1. PICK pairs \in SUBSET {p \in found \X found : p[1] # p[2]} :
            new = {[from |-> b, src |-> b, dst |-> n] : n \in found}
                \union {[from |-> b, src |-> p[1], dst |-> p[2]] : p \in pairs}
      BY DEF Extractions
    <3> QED BY <2>3, <2>4, <3>1 DEF Edges, Endpoints
  <2>6. Mentioned(new) \subseteq found
    BY <2>3, <2>5, EntitiesAssumption DEF Mentioned
  <2>7. /\ lane' \in [WorkersOfStore -> Lanes]
        /\ \A v \in WorkersOfStore : AboutABlock(lane'[v])
    BY <1>1, IdleIsALane, LanesStay
  <2>8. queue' \in Sayings /\ done' \in Sayings
    BY <2>2, <2>3, <2>4 DEF EntityInv, EntityTypeOK, Sayings
  <2>9. entities' = Mentioned(edges')
    <3> DEFINE kept == {e \in edges : e.from # b}
    <3> DEFINE old == {e \in edges : e.from = b}
    <3>1. \A e \in old : e.src \in Named(b) /\ e.dst \in Named(b) BY NamedHolds
    <3>2. kept \union old = edges OBVIOUS
    <3>3. entities = Mentioned(kept \union old) BY <3>2 DEF EntityInv
    <3>4. edges' = kept \union new BY <2>1
    <3>5. entities' = (entities \union found) \ Orphans(Named(b) \union found, edges')
      BY <2>2 DEF Doubtful
    <3> HIDE DEF kept, old, b, found
    <3>6. (Mentioned(kept \union old) \union found)
                \ Orphans(Named(b) \union found, kept \union new)
            = Mentioned(kept \union new)
      <4>1. OrphansGone(kept, old, Named(b), new, found) BY OrphansGo
      <4> QED BY <2>4, <2>6, <3>1, <4>1 DEF OrphansGone
    <3> QED BY <3>3, <3>4, <3>5, <3>6
  <2>10. edges' \subseteq Edges BY <2>1, <2>5 DEF EntityInv, EntityTypeOK
  <2>11. entities' \subseteq Names BY <2>9 DEF Mentioned
  <2>12. /\ said' \in Sayings /\ clock' \in 0 .. MaxWrites
         /\ compared' \in -1 .. MaxWrites /\ starts' \in 1 .. MaxStarts
         /\ refused' \subseteq Blocks /\ dropped' \subseteq Blocks
    BY <1>1, <2>2 DEF EntityInv, EntityTypeOK
  <2>13. EntityTypeOK' BY <2>7, <2>8, <2>10, <2>11, <2>12 DEF EntityTypeOK
  <2>14. \A v \in WorkersOfStore : AboutABlock(lane[v])' BY <2>7 DEF AboutABlock
  <2>15. entities' = Mentioned(edges)' BY <2>9 DEF Mentioned
  <2> QED BY <2>13, <2>14, <2>15 DEF EntityInv
<1> QED BY <1>2, <1>3

LEMMA ReconcileExtractionsKeeps ==
  ASSUME EntityInv, NEW w \in WorkersOfStore, ReconcileExtractions(w) PROVE EntityInv'
<1> DEFINE gone == (In(done) \union {e.from : e \in edges}) \ In(lane[w].docs)
<1> DEFINE l == [Idle EXCEPT !.stage = "forget", !.stale = gone]
<1> DEFINE due == [b \in Blocks |-> IF lane[w].docs[b] = done[b] THEN Silent
                                    ELSE lane[w].docs[b]]
<1>1. /\ queue' = due /\ refused' = {b \in refused : due[b] # Silent /\ due[b] = queue[b]}
      /\ compared' = lane[w].token /\ Proceed(w, l)
      /\ UNCHANGED <<said, clock, done, edges, entities, starts, dropped>>
  BY DEF ReconcileExtractions
<1>2. gone \in SUBSET Blocks BY DEF In, EntityInv, EntityTypeOK, Edges
<1> HIDE DEF gone
<1>3. l \in Lanes /\ l.stage = "forget"
  BY <1>2, IdleIsALane DEF Lanes, LaneStages
<1> HIDE DEF l
<1>4. /\ lane' \in [WorkersOfStore -> Lanes]
      /\ \A v \in WorkersOfStore : AboutABlock(lane'[v])
  BY <1>1, <1>3, LanesStay DEF AboutABlock
<1>5. due \in Sayings BY LanesHere DEF Sayings
<1>6. compared' \in -1 .. MaxWrites
  BY <1>1, LanesHere, EntitiesAssumption
<1>7. refused' \subseteq Blocks BY <1>1 DEF EntityInv, EntityTypeOK
<1> HIDE DEF due
<1> QED
  BY <1>1, <1>4, <1>5, <1>6, <1>7 DEF EntityInv, EntityTypeOK, AboutABlock, Mentioned

LEMMA AskedKeeps ==
  ASSUME EntityInv, CompareExtractionToken \/ ReadBlocks \/ TakeExtraction \/ Answer
                        \/ Recheck
  PROVE  EntityInv'
<1>0. "now" \in WorkersOfStore BY DEF WorkersOfStore
<1> DEFINE job == lane["now"]
<1>1. CASE CompareExtractionToken
  <2> DEFINE s == IF compared = clock THEN "take" ELSE "read"
  <2> DEFINE t == IF compared = clock THEN 0 ELSE clock
  <2> DEFINE l == [Idle EXCEPT !.stage = s, !.token = t]
  <2>1. Proceed("now", l) /\ UNCHANGED <<said, clock, store, starts, dropped>>
    BY <1>1 DEF CompareExtractionToken
  <2>2. s \in {"take", "read"} /\ t \in 0 .. MaxWrites
    BY EntitiesAssumption DEF EntityInv, EntityTypeOK
  <2> HIDE DEF s, t
  <2>3. l \in Lanes /\ l.stage = s BY <2>2, IdleIsALane DEF Lanes, LaneStages
  <2> HIDE DEF l
  <2>4. AboutABlock(l) BY <2>2, <2>3 DEF AboutABlock
  <2> QED BY <1>0, <2>1, <2>3, <2>4, WaitingKeeps DEF store, EntityInv, EntityTypeOK
<1>2. CASE ReadBlocks
  <2> DEFINE l == [job EXCEPT !.stage = "commit", !.docs = said]
  <2>1. Proceed("now", l) /\ UNCHANGED <<said, clock, store, starts, dropped>>
    BY <1>2 DEF ReadBlocks
  <2>2. said \in Sayings BY DEF EntityInv, EntityTypeOK
  <2>3. l \in Lanes /\ l.stage = "commit"
    BY <1>0, <2>2, LanesHere DEF Lanes, LaneStages
  <2> HIDE DEF l
  <2>4. AboutABlock(l) BY <2>3 DEF AboutABlock
  <2> QED BY <1>0, <2>1, <2>3, <2>4, WaitingKeeps DEF store, EntityInv, EntityTypeOK
<1>3. CASE TakeExtraction
  <2>0. UNCHANGED <<said, clock, store, starts, dropped>> BY <1>3 DEF TakeExtraction
  <2>1. CASE Proceed("now", Idle)
    BY <1>0, <2>0, <2>1, IdleIsALane, WaitingKeeps DEF store, EntityInv, EntityTypeOK
  <2>2. CASE ~Proceed("now", Idle)
    <3>1. PICK b \in In(queue) \ refused :
            Proceed("now", [Idle EXCEPT !.block = b, !.text = queue[b],
                    !.stage = IF queue[b] \in Short THEN "finish" ELSE "extract"])
      BY <1>3, <2>2 DEF TakeExtraction
    <3> DEFINE s == IF queue[b] \in Short THEN "finish" ELSE "extract"
    <3> DEFINE t == queue[b]
    <3> DEFINE l == [Idle EXCEPT !.block = b, !.text = t, !.stage = s]
    <3>2. b \in Blocks /\ t \in Phrases \union {Silent}
      BY DEF In, EntityInv, EntityTypeOK, Sayings
    <3>3. s \in LaneStages BY DEF LaneStages
    <3>4. Proceed("now", l) BY <3>1
    <3> HIDE DEF s, t
    <3>5. l \in Lanes /\ l.block = b BY <3>2, <3>3, IdleIsALane DEF Lanes
    <3> HIDE DEF l
    <3>6. AboutABlock(l) BY <3>2, <3>5 DEF AboutABlock
    <3> QED
      BY <1>0, <2>0, <3>4, <3>5, <3>6, WaitingKeeps DEF store, EntityInv, EntityTypeOK
  <2> QED BY <2>1, <2>2
<1>4. CASE Answer
  <2>0. job.stage = "extract" /\ UNCHANGED <<said, clock, starts, dropped>>
    BY <1>4 DEF Answer
  <2>1. CASE Proceed("now", Idle) /\ UNCHANGED <<compared, queue, done, edges, entities>>
                /\ refused' \in {refused, refused \union
                        {b \in {job.block} : queue[b] = job.text}}
    <3>1. job.block \in Blocks BY <1>0, <2>0, LanesHere DEF AboutABlock
    <3>2. refused' \subseteq Blocks BY <2>1, <3>1 DEF EntityInv, EntityTypeOK
    <3> QED BY <1>0, <2>0, <2>1, <3>2, IdleIsALane, WaitingKeeps
  <2>2. CASE UNCHANGED store /\ \E found \in SUBSET Names :
                Proceed("now", [job EXCEPT !.stage = "recheck", !.found = found])
    <3>1. PICK found \in SUBSET Names :
                Proceed("now", [job EXCEPT !.stage = "recheck", !.found = found])
      BY <2>2
    <3> DEFINE l == [job EXCEPT !.stage = "recheck", !.found = found]
    <3>2. l \in Lanes /\ l.block = job.block
      BY <1>0, LanesHere DEF Lanes, LaneStages
    <3>3. Proceed("now", l) BY <3>1
    <3> HIDE DEF l
    <3>4. AboutABlock(l) BY <1>0, <2>0, <3>2, LanesHere DEF AboutABlock
    <3> QED
      BY <1>0, <2>0, <2>2, <3>2, <3>3, <3>4, WaitingKeeps
         DEF store, EntityInv, EntityTypeOK
  <2> QED BY <1>4, <2>1, <2>2 DEF Answer
<1>5. CASE Recheck
  <2>0. job.stage = "recheck" /\ UNCHANGED <<said, clock, store, starts, dropped>>
    BY <1>5 DEF Recheck
  <2> DEFINE l == [job EXCEPT !.stage = "finish"]
  <2>1. Proceed("now", l) \/ Proceed("now", Idle) BY <1>5 DEF Recheck
  <2>2. l \in Lanes /\ l.block = job.block BY <1>0, LanesHere DEF Lanes, LaneStages
  <2> HIDE DEF l
  <2>3. AboutABlock(l) BY <1>0, <2>0, <2>2, LanesHere DEF AboutABlock
  <2>4. refused' \subseteq Blocks BY <2>0 DEF store, EntityInv, EntityTypeOK
  <2> QED BY <1>0, <2>0, <2>1, <2>2, <2>3, <2>4, IdleIsALane, WaitingKeeps DEF store
<1> QED BY <1>1, <1>2, <1>3, <1>4, <1>5

LEMMA EntityStepHolds ==
  ASSUME EntityInv, [EntityNext]_entityVars PROVE EntityInv'
<1>1. CASE UNCHANGED entityVars
  BY <1>1 DEF EntityInv, EntityTypeOK, AboutABlock, Mentioned, entityVars, store
<1>2. CASE EntityNext
  BY <1>2, WriteBlockKeeps, RestartExtractorKeeps, AskedKeeps,
     ReconcileExtractionsKeeps, ForgetSourceKeeps, FinishExtractionKeeps
     DEF EntityNext
<1> QED BY <1>1, <1>2

\* Every variable of the entity graph has a value of its kind, and an entity has
\* a row exactly as long as an edge names it: edges of other blocks keep it and
\* the last one takes it along, whoever the edges came from (finish_extraction,
\* forget_extraction_source, delete_orphan_entities).
THEOREM EntityGraphHolds == EntitySpec => [](EntityTypeOK /\ EntitiesAreNamed)
<1>1. EntityInit => EntityInv BY EntityInitHolds
<1>2. EntityInv /\ [EntityNext]_entityVars => EntityInv' BY EntityStepHolds
<1>3. EntityInv => EntityTypeOK /\ EntitiesAreNamed
  <2> SUFFICES ASSUME EntityInv PROVE EntityTypeOK /\ EntitiesAreNamed OBVIOUS
  <2>1. \A e \in edges : e.dst \in Names BY DEF EntityInv, EntityTypeOK, Edges
  <2>2. Mentioned(edges) = {e.dst : e \in edges}
                                \union ({e.src : e \in edges} \intersect Names)
    BY <2>1 DEF Mentioned
  <2> QED BY <2>2 DEF EntityInv, EntitiesAreNamed
<1> QED BY <1>1, <1>2, <1>3, PTL DEF EntitySpec

-----------------------------------------------------------------------------
(* What the extraction knows of the notes *)

\* A block is extracted from what it says, or waits for it, or is gone.
Attended(b) == \/ queue[b] = Silent /\ (said[b] # Silent => done[b] = said[b])
               \/ queue[b] # Silent /\ queue[b] = said[b]

\* Whose token is the present one has read the present blocks; a job that was
\* taken is for some text.
LaneInTime(l) ==
    /\ l.token <= clock
    /\ l.stage = "commit" /\ l.token = clock => l.docs = said
    /\ l.stage \in {"extract", "recheck", "finish"} => l.text # Silent

\* A worker that was cancelled does not know more than the one that followed.
LateIsOlder ==
    lane["late"].stage = "commit" /\ lane["now"].stage \in {"read", "commit"} =>
        lane["late"].token <= lane["now"].token

\* What the worker is about to forget is gone, or nobody will take the graph for
\* reconciled before the blocks were read again.
StaleIsGone ==
    lane["now"].stage = "forget" =>
        \A b \in lane["now"].stale :
            \/ said[b] = Silent
            \/ /\ compared # clock
               /\ ~(lane["late"].stage = "commit" /\ lane["late"].token = clock)

FollowInv ==
    /\ compared <= clock
    /\ LaneInTime(lane["now"]) /\ LaneInTime(lane["late"])
    /\ LateIsOlder /\ StaleIsGone
    /\ compared = clock => \A b \in Blocks \ dropped : Attended(b)

LEMMA LaneFields ==
  ASSUME EntityInv
  PROVE  /\ "now" \in WorkersOfStore /\ "late" \in WorkersOfStore
         /\ DOMAIN lane = WorkersOfStore
         /\ lane["now"] \in Lanes /\ lane["late"] \in Lanes
         /\ lane["now"].token \in Nat /\ lane["late"].token \in Nat
         /\ compared \in Int /\ clock \in Nat
         /\ said \in Sayings /\ queue \in Sayings /\ done \in Sayings
<1>1. "now" \in WorkersOfStore /\ "late" \in WorkersOfStore BY DEF WorkersOfStore
<1>2. lane["now"].token \in 0 .. MaxWrites /\ lane["late"].token \in 0 .. MaxWrites
  BY <1>1, LanesHere
<1>3. lane \in [WorkersOfStore -> Lanes] /\ compared \in -1 .. MaxWrites
      /\ clock \in 0 .. MaxWrites /\ said \in Sayings /\ queue \in Sayings
      /\ done \in Sayings
  BY DEF EntityInv, EntityTypeOK
<1> QED BY <1>1, <1>2, <1>3, EntitiesAssumption

LEMMA IdleInTime == ASSUME EntityInv PROVE LaneInTime(Idle)
  BY LaneFields DEF LaneInTime, Idle

LEMMA FollowInit == EntityInit => FollowInv
<1> SUFFICES ASSUME EntityInit PROVE FollowInv OBVIOUS
<1>1. lane["now"] = Idle /\ lane["late"] = Idle BY DEF EntityInit, WorkersOfStore
<1>2. clock = 0 /\ compared = -1 BY DEF EntityInit, Unseen
<1> QED BY <1>1, <1>2 DEF FollowInv, LaneInTime, LateIsOlder, StaleIsGone, Idle

\* Steps of the worker that leave the graph and the notes alone.
LEMMA WorkerFollows ==
  ASSUME EntityInv, FollowInv, NEW l, Proceed("now", l),
         UNCHANGED <<said, clock, compared, queue, done, dropped>>, LaneInTime(l),
         l.stage \in {"read", "commit"} /\ lane["late"].stage = "commit" =>
                lane["late"].token <= l.token,
         l.stage # "forget"
  PROVE  FollowInv'
<1>1. lane' = [lane EXCEPT !["now"] = l] BY DEF Proceed
<1>2. lane'["now"] = l /\ lane'["late"] = lane["late"] BY <1>1, LaneFields
<1>3. LaneInTime(lane["now"])' /\ LaneInTime(lane["late"])'
  BY <1>2 DEF FollowInv, LaneInTime
<1>4. LateIsOlder' /\ StaleIsGone' BY <1>2 DEF LateIsOlder, StaleIsGone
<1>5. (compared = clock => \A b \in Blocks \ dropped : Attended(b))'
  BY DEF FollowInv, Attended
<1> QED BY <1>3, <1>4, <1>5 DEF FollowInv

LEMMA WriteBlockFollows == ASSUME EntityInv, FollowInv, WriteBlock PROVE FollowInv'
<1>1. clock' = clock + 1 /\ UNCHANGED <<compared, lane>> BY DEF WriteBlock, store
<1>2. compared' < clock' /\ lane["now"].token < clock' /\ lane["late"].token < clock'
  BY <1>1, LaneFields DEF FollowInv, LaneInTime
<1>3. compared' # clock' /\ lane["now"].token # clock' /\ lane["late"].token # clock'
  BY <1>1, <1>2, LaneFields
<1>4. LaneInTime(lane["now"])' /\ LaneInTime(lane["late"])'
  BY <1>1, <1>2, <1>3, LaneFields DEF FollowInv, LaneInTime
<1>5. LateIsOlder' /\ StaleIsGone'
  BY <1>1, <1>3 DEF FollowInv, LateIsOlder, StaleIsGone
<1> QED BY <1>1, <1>2, <1>3, <1>4, <1>5, LaneFields DEF FollowInv

LEMMA RestartFollows ==
  ASSUME EntityInv, FollowInv, RestartExtractor PROVE FollowInv'
<1>1. PICK late \in {Idle, lane["now"]} : lane' = [now |-> Idle, late |-> late]
  BY DEF RestartExtractor
<1>2. UNCHANGED <<said, clock, compared, queue, done, dropped>>
  BY DEF RestartExtractor, store
<1>3. lane'["now"] = Idle /\ lane'["late"] = late BY <1>1
<1>4. LaneInTime(Idle) /\ LaneInTime(late) BY <1>1, IdleInTime DEF FollowInv
<1>5. LaneInTime(lane["now"])' /\ LaneInTime(lane["late"])'
  BY <1>2, <1>3, <1>4 DEF LaneInTime
<1>6. Idle.stage = "compare" BY DEF Idle
<1>7. LateIsOlder' /\ StaleIsGone' BY <1>3, <1>6 DEF LateIsOlder, StaleIsGone
<1> QED BY <1>2, <1>5, <1>7 DEF FollowInv, Attended

LEMMA AskedFollows ==
  ASSUME EntityInv, FollowInv,
         CompareExtractionToken \/ ReadBlocks \/ TakeExtraction \/ Answer \/ Recheck
  PROVE  FollowInv'
<1> DEFINE job == lane["now"]
<1>0. job \in Lanes /\ job.token \in Nat /\ LaneInTime(job) /\ LaneInTime(Idle)
      /\ Idle.stage = "compare"
  BY LaneFields, IdleInTime DEF FollowInv, Idle
<1>1. CASE CompareExtractionToken
  <2> DEFINE s == IF compared = clock THEN "take" ELSE "read"
  <2> DEFINE t == IF compared = clock THEN 0 ELSE clock
  <2> DEFINE l == [Idle EXCEPT !.stage = s, !.token = t]
  <2>1. Proceed("now", l) /\ UNCHANGED <<said, clock, store, starts, dropped>>
    BY <1>1 DEF CompareExtractionToken
  <2>2. s \in {"take", "read"} /\ t <= clock /\ (s = "read" => t = clock)
    BY LaneFields
  <2> HIDE DEF s, t
  <2>3. l.stage = s /\ l.token = t BY DEF Idle
  <2> HIDE DEF l
  <2>4. LaneInTime(l) BY <2>2, <2>3 DEF LaneInTime
  <2>5. lane["late"].token <= clock BY DEF FollowInv, LaneInTime
  <2> QED BY <2>1, <2>2, <2>3, <2>4, <2>5, WorkerFollows DEF store
<1>2. CASE ReadBlocks
  <2> DEFINE l == [job EXCEPT !.stage = "commit", !.docs = said]
  <2>1. Proceed("now", l) /\ UNCHANGED <<said, clock, store, starts, dropped>>
        /\ job.stage = "read"
    BY <1>2 DEF ReadBlocks
  <2>2. l.stage = "commit" /\ l.docs = said /\ l.token = job.token
    BY <1>0 DEF Lanes
  <2> HIDE DEF l
  <2>3. LaneInTime(l) BY <1>0, <2>2 DEF LaneInTime
  <2>4. lane["late"].stage = "commit" => lane["late"].token <= l.token
    BY <2>1, <2>2 DEF FollowInv, LateIsOlder
  <2> QED BY <2>1, <2>2, <2>3, <2>4, WorkerFollows DEF store
<1>3. CASE TakeExtraction
  <2>0. UNCHANGED <<said, clock, store, starts, dropped>> BY <1>3 DEF TakeExtraction
  <2>1. CASE Proceed("now", Idle)
    BY <1>0, <2>0, <2>1, WorkerFollows DEF store
  <2>2. CASE ~Proceed("now", Idle)
    <3>1. PICK b \in In(queue) \ refused :
            Proceed("now", [Idle EXCEPT !.block = b, !.text = queue[b],
                    !.stage = IF queue[b] \in Short THEN "finish" ELSE "extract"])
      BY <1>3, <2>2 DEF TakeExtraction
    <3> DEFINE s == IF queue[b] \in Short THEN "finish" ELSE "extract"
    <3> DEFINE t == queue[b]
    <3> DEFINE l == [Idle EXCEPT !.block = b, !.text = t, !.stage = s]
    <3>2. t # Silent BY DEF In
    <3>3. s \in {"finish", "extract"} OBVIOUS
    <3>4. Proceed("now", l) BY <3>1
    <3> HIDE DEF s, t
    <3>5. l.stage = s /\ l.token = 0 /\ l.text = t BY DEF Idle
    <3> HIDE DEF l
    <3>6. LaneInTime(l) BY <3>2, <3>3, <3>5, LaneFields DEF LaneInTime
    <3> QED BY <2>0, <3>3, <3>4, <3>5, <3>6, WorkerFollows DEF store
  <2> QED BY <2>1, <2>2
<1>4. CASE Answer
  <2>0. job.stage = "extract" /\ UNCHANGED <<said, clock, starts, dropped>>
        /\ UNCHANGED <<compared, queue, done>>
    BY <1>4 DEF Answer, store
  <2>1. CASE Proceed("now", Idle)
    BY <1>0, <2>0, <2>1, WorkerFollows
  <2>2. CASE ~Proceed("now", Idle)
    <3>1. PICK found \in SUBSET Names :
                Proceed("now", [job EXCEPT !.stage = "recheck", !.found = found])
      BY <1>4, <2>2 DEF Answer
    <3> DEFINE l == [job EXCEPT !.stage = "recheck", !.found = found]
    <3>2. l.stage = "recheck" /\ l.token = job.token /\ l.text = job.text
      BY <1>0 DEF Lanes
    <3>3. Proceed("now", l) BY <3>1
    <3> HIDE DEF l
    <3>4. LaneInTime(l) BY <1>0, <2>0, <3>2 DEF LaneInTime
    <3> QED BY <2>0, <3>2, <3>3, <3>4, WorkerFollows
  <2> QED BY <2>1, <2>2
<1>5. CASE Recheck
  <2>0. job.stage = "recheck" /\ UNCHANGED <<said, clock, store, starts, dropped>>
    BY <1>5 DEF Recheck
  <2> DEFINE l == [job EXCEPT !.stage = "finish"]
  <2>1. Proceed("now", l) \/ Proceed("now", Idle) BY <1>5 DEF Recheck
  <2>2. l.stage = "finish" /\ l.token = job.token /\ l.text = job.text
    BY <1>0 DEF Lanes
  <2> HIDE DEF l
  <2>3. LaneInTime(l) BY <1>0, <2>0, <2>2 DEF LaneInTime
  <2> QED BY <1>0, <2>0, <2>1, <2>2, <2>3, WorkerFollows DEF store
<1> QED BY <1>1, <1>2, <1>3, <1>4, <1>5

\* The lane of a worker after its step; a late one stops.
LEMMA LaneAfter ==
  ASSUME EntityInv, NEW w \in WorkersOfStore, NEW l, Proceed(w, l)
  PROVE  /\ w = "now"  => lane'["now"] = l /\ lane'["late"] = lane["late"]
         /\ w = "late" => lane'["now"] = lane["now"] /\ lane'["late"] = Idle
  BY LaneFields DEF Proceed

LEMMA ReconcileFollows ==
  ASSUME EntityInv, FollowInv, NEW w \in WorkersOfStore, ReconcileExtractions(w)
  PROVE  FollowInv'
<1> DEFINE docs == lane[w].docs
<1> DEFINE gone == (In(done) \union {e.from : e \in edges}) \ In(docs)
<1> DEFINE l == [Idle EXCEPT !.stage = "forget", !.stale = gone]
<1> DEFINE due == [b \in Blocks |-> IF docs[b] = done[b] THEN Silent ELSE docs[b]]
<1>1. /\ lane[w].stage = "commit" /\ queue' = due
      /\ compared' = lane[w].token /\ Proceed(w, l)
      /\ UNCHANGED <<said, clock, done, edges, entities, starts, dropped>>
  BY DEF ReconcileExtractions
<1>2. l.stage = "forget" /\ l.stale = gone /\ l.token = 0 BY DEF Idle
<1>3. gone \subseteq Blocks /\ \A b \in gone : docs[b] = Silent
  BY DEF EntityInv, EntityTypeOK, Edges, In
<1>4. LaneInTime(lane[w]) BY DEF FollowInv, WorkersOfStore
<1>5. lane[w].token = clock => docs = said BY <1>1, <1>4 DEF LaneInTime
<1>6. (compared = clock => \A b \in Blocks \ dropped : Attended(b))'
  <2> SUFFICES ASSUME lane[w].token = clock, NEW b \in Blocks
               PROVE  Attended(b)'
    BY <1>1 DEF Attended
  <2>1. queue'[b] = IF said[b] = done[b] THEN Silent ELSE said[b]
    BY <1>1, <1>5
  <2> QED BY <1>1, <2>1 DEF Attended
<1> HIDE DEF l, gone, due
<1>7. compared' <= clock' BY <1>1, <1>4 DEF LaneInTime
<1>8. LaneInTime(l) BY <1>2, LaneFields DEF LaneInTime
<1>9. CASE w = "now"
  <2>1. lane'["now"] = l /\ lane'["late"] = lane["late"] BY <1>1, <1>9, LaneAfter
  <2>2. LaneInTime(lane["now"])' /\ LaneInTime(lane["late"])'
    BY <1>1, <1>8, <2>1 DEF FollowInv, LaneInTime
  <2>3. LateIsOlder' BY <1>2, <2>1 DEF LateIsOlder
  <2>4. ASSUME NEW b \in gone, said[b] # Silent
        PROVE  /\ lane["now"].token # clock
               /\ ~(lane["late"].stage = "commit" /\ lane["late"].token = clock)
    <3>1. lane["now"].token # clock BY <1>3, <1>5, <1>9, <2>4
    <3>2. lane["now"].token < clock
      BY <1>4, <1>9, <3>1, LaneFields DEF LaneInTime
    <3>3. lane["late"].stage = "commit" => lane["late"].token <= lane["now"].token
      BY <1>1, <1>9 DEF FollowInv, LateIsOlder
    <3> QED BY <3>1, <3>2, <3>3, LaneFields
  <2>5. StaleIsGone' BY <1>1, <1>2, <1>9, <2>1, <2>4 DEF StaleIsGone
  <2> QED BY <1>6, <1>7, <2>2, <2>3, <2>5 DEF FollowInv
<1>10. CASE w = "late"
  <2>1. lane'["now"] = lane["now"] /\ lane'["late"] = Idle BY <1>1, <1>10, LaneAfter
  <2>2. LaneInTime(lane["now"])' /\ LaneInTime(lane["late"])'
    BY <1>1, <2>1, IdleInTime DEF FollowInv, LaneInTime
  <2>3. Idle.stage = "compare" BY DEF Idle
  <2>4. LateIsOlder' BY <2>1, <2>3 DEF LateIsOlder
  <2>5. StaleIsGone'
    BY <1>1, <1>10, <2>1, <2>3 DEF FollowInv, StaleIsGone
  <2> QED BY <1>6, <1>7, <2>2, <2>4, <2>5 DEF FollowInv
<1> QED BY <1>9, <1>10 DEF WorkersOfStore

LEMMA ForgetFollows ==
  ASSUME EntityInv, FollowInv, NEW w \in WorkersOfStore, ForgetSource(w)
  PROVE  FollowInv'
<1>0. lane[w].stage = "forget" /\ UNCHANGED <<said, clock>> /\ lane[w] \in Lanes
      /\ LaneInTime(lane[w])
  BY LaneFields DEF ForgetSource, FollowInv, WorkersOfStore
<1>1. CASE lane[w].stale = {}
  <2> DEFINE l == [lane[w] EXCEPT !.stage = "take"]
  <2>1. Proceed(w, l) /\ UNCHANGED <<compared, queue, done, dropped>>
    BY <1>1 DEF ForgetSource, store
  <2>2. l.stage = "take" /\ l.token = lane[w].token BY <1>0 DEF Lanes
  <2> HIDE DEF l
  <2>3. LaneInTime(l) BY <1>0, <2>2 DEF LaneInTime
  <2>4. CASE w = "now" BY <1>0, <2>1, <2>2, <2>3, <2>4, WorkerFollows
  <2>5. CASE w = "late"
    <3>1. lane'["now"] = lane["now"] /\ lane'["late"] = Idle BY <2>1, <2>5, LaneAfter
    <3>2. Idle.stage = "compare" BY DEF Idle
    <3>3. LaneInTime(lane["now"])' /\ LaneInTime(lane["late"])'
      BY <1>0, <3>1, IdleInTime DEF FollowInv, LaneInTime
    <3>4. LateIsOlder' /\ StaleIsGone'
      BY <1>0, <2>1, <3>1, <3>2 DEF FollowInv, LateIsOlder, StaleIsGone
    <3>5. (compared = clock => \A b \in Blocks \ dropped : Attended(b))'
      BY <1>0, <2>1 DEF FollowInv, Attended
    <3> QED BY <1>0, <2>1, <3>3, <3>4, <3>5 DEF FollowInv
  <2> QED BY <2>4, <2>5 DEF WorkersOfStore
<1>2. CASE lane[w].stale # {}
  <2>1. PICK b \in lane[w].stale :
            /\ done' = [done EXCEPT ![b] = Silent]
            /\ queue' = [queue EXCEPT ![b] = Silent]
            /\ Proceed(w, [lane[w] EXCEPT !.stale = @ \ {b}])
            /\ dropped' = IF w = "late" THEN dropped \union {b} ELSE dropped
            /\ UNCHANGED compared
    BY <1>2 DEF ForgetSource
  <2> DEFINE rest == lane[w].stale \ {b}
  <2> DEFINE l == [lane[w] EXCEPT !.stale = rest]
  <2>2. Proceed(w, l) BY <2>1
  <2>3. l.stage = "forget" /\ l.token = lane[w].token /\ l.stale = rest
    BY <1>0 DEF Lanes
  <2> HIDE DEF l
  <2>4. b \in Blocks BY LanesHere
  <2>5. \A c \in Blocks : c # b => queue'[c] = queue[c] /\ done'[c] = done[c]
    BY <2>1, <2>4, LaneFields DEF Sayings
  <2>6. queue'[b] = Silent BY <2>1, <2>4, LaneFields DEF Sayings
  <2>7. \A c \in Blocks : c # b /\ Attended(c) => Attended(c)'
    BY <1>0, <2>5 DEF Attended
  <2>8. LaneInTime(l) BY <1>0, <2>3 DEF LaneInTime
  <2>9. CASE w = "now"
    <3>1. lane'["now"] = l /\ lane'["late"] = lane["late"] BY <2>2, <2>9, LaneAfter
    <3>2. LaneInTime(lane["now"])' /\ LaneInTime(lane["late"])'
      BY <1>0, <2>8, <3>1 DEF FollowInv, LaneInTime
    <3>3. LateIsOlder' BY <2>3, <3>1 DEF LateIsOlder
    <3>4. StaleIsGone'
      BY <1>0, <2>1, <2>3, <2>9, <3>1 DEF FollowInv, StaleIsGone
    <3>5. compared = clock => said[b] = Silent
      BY <1>0, <2>1, <2>9 DEF FollowInv, StaleIsGone
    <3>6. compared = clock => Attended(b)'
      BY <1>0, <2>6, <3>5 DEF Attended
    <3>7. (compared = clock => \A c \in Blocks \ dropped : Attended(c))'
      BY <1>0, <2>1, <2>7, <2>9, <3>6 DEF FollowInv
    <3> QED BY <1>0, <2>1, <3>2, <3>3, <3>4, <3>7 DEF FollowInv
  <2>10. CASE w = "late"
    <3>1. lane'["now"] = lane["now"] /\ lane'["late"] = Idle
      BY <2>2, <2>10, LaneAfter
    <3>2. Idle.stage = "compare" BY DEF Idle
    <3>3. LaneInTime(lane["now"])' /\ LaneInTime(lane["late"])'
      BY <1>0, <3>1, IdleInTime DEF FollowInv, LaneInTime
    <3>4. LateIsOlder' /\ StaleIsGone'
      BY <1>0, <2>1, <3>1, <3>2 DEF FollowInv, LateIsOlder, StaleIsGone
    <3>5. (compared = clock => \A c \in Blocks \ dropped : Attended(c))'
      BY <1>0, <2>1, <2>7, <2>10 DEF FollowInv
    <3> QED BY <1>0, <2>1, <3>3, <3>4, <3>5 DEF FollowInv
  <2> QED BY <2>9, <2>10 DEF WorkersOfStore
<1> QED BY <1>1, <1>2

LEMMA FinishFollows ==
  ASSUME EntityInv, FollowInv, NEW w \in WorkersOfStore, FinishExtraction(w)
  PROVE  FollowInv'
<1> DEFINE b == lane[w].block
<1> DEFINE phrase == lane[w].text
<1>1. /\ lane[w].stage = "finish" /\ Proceed(w, Idle)
      /\ UNCHANGED <<said, clock, starts, dropped, compared>>
  BY DEF FinishExtraction, store
<1>2. phrase # Silent /\ b \in Blocks
  BY <1>1, LanesHere DEF FollowInv, LaneInTime, WorkersOfStore, AboutABlock
<1>3. \/ UNCHANGED <<queue, done>>
      \/ /\ queue[b] = phrase /\ done' = [done EXCEPT ![b] = phrase]
         /\ queue' = [queue EXCEPT ![b] = Silent]
  BY DEF FinishExtraction, JobIsCurrent, store
<1> HIDE DEF b, phrase
<1>4. \A c \in Blocks : Attended(c) => Attended(c)'
  <2>1. CASE UNCHANGED <<queue, done>> BY <1>1, <2>1 DEF Attended
  <2>2. CASE /\ queue[b] = phrase /\ done' = [done EXCEPT ![b] = phrase]
             /\ queue' = [queue EXCEPT ![b] = Silent]
    <3> SUFFICES ASSUME NEW c \in Blocks, Attended(c) PROVE Attended(c)' OBVIOUS
    <3>1. CASE c = b
      <4>1. queue'[c] = Silent /\ done'[c] = phrase
        BY <1>2, <2>2, <3>1, LaneFields DEF Sayings
      <4>2. said[c] = phrase BY <1>2, <2>2, <3>1 DEF Attended
      <4> QED BY <1>1, <4>1, <4>2 DEF Attended
    <3>2. CASE c # b
      <4>1. queue'[c] = queue[c] /\ done'[c] = done[c]
        BY <2>2, <3>2, LaneFields DEF Sayings
      <4> QED BY <1>1, <4>1 DEF Attended
    <3> QED BY <3>1, <3>2
  <2> QED BY <1>3, <2>1, <2>2
<1>5. (compared = clock => \A c \in Blocks \ dropped : Attended(c))'
  BY <1>1, <1>4 DEF FollowInv
<1>6. \A v \in WorkersOfStore : lane'[v] = lane[v] \/ lane'[v] = Idle
  BY <1>1, LaneAfter DEF WorkersOfStore
<1>7. Idle.stage = "compare" /\ LaneInTime(Idle) BY IdleInTime DEF Idle
<1>8. LaneInTime(lane["now"])' /\ LaneInTime(lane["late"])'
  BY <1>1, <1>6, <1>7, LaneFields DEF FollowInv, LaneInTime
<1>9. LateIsOlder' /\ StaleIsGone'
  BY <1>1, <1>6, <1>7, LaneFields DEF FollowInv, LateIsOlder, StaleIsGone
<1> QED BY <1>1, <1>5, <1>8, <1>9 DEF FollowInv

\* When the graph counts as reconciled with the notes as they are, every block
\* was extracted from its present text or waits for it (reconcile_extractions,
\* finish_extraction, forget_extraction_source), however transactions of a
\* cancelled worker fall between those of its successor: what such a worker read
\* has an older token, and what it forgets beyond that is in dropped.
THEOREM ExtractionFollows == EntitySpec => []ExtractedOrQueued
<1> DEFINE Both == EntityInv /\ FollowInv
<1>1. EntityInit => Both BY EntityInitHolds, FollowInit
<1>2. Both /\ [EntityNext]_entityVars => Both'
  <2> SUFFICES ASSUME EntityInv, FollowInv, [EntityNext]_entityVars PROVE Both'
    OBVIOUS
  <2>1. EntityInv' BY EntityStepHolds
  <2>2. CASE UNCHANGED entityVars
    BY <2>1, <2>2 DEF FollowInv, LaneInTime, LateIsOlder, StaleIsGone, Attended, entityVars
  <2>3. CASE EntityNext
    BY <2>1, <2>3, WriteBlockFollows, RestartFollows, AskedFollows, ReconcileFollows,
       ForgetFollows, FinishFollows DEF EntityNext
  <2> QED BY <2>1, <2>2, <2>3
<1>3. Both => ExtractedOrQueued BY DEF FollowInv, Attended, ExtractedOrQueued
<1> QED BY <1>1, <1>2, <1>3, PTL DEF EntitySpec

-----------------------------------------------------------------------------
(* What comes in from outside *)

AtMost(m, g) == \A f \in Files : m[f] <= g[f]

\* The directory only moves forward, and a moment is never repeated.
Directory ==
    /\ graph \in Graphs /\ past \subseteq Graphs /\ graph \in past
    /\ \A m \in past : AtMost(m, graph)
    /\ IsFiniteSet(past)
    /\ \A f \in Files : graph[f] < Cardinality(past)

DataTyped ==
    /\ stored \subseteq Blobs /\ taken \subseteq Blobs
    /\ present \subseteq Owners /\ rows \in Rows /\ undoable \in Rows
    /\ fresh \in BOOLEAN /\ workspace \in Workspaces
    /\ receipt \in Receipts \union {None} /\ backup \in Archives \union {None}
    /\ dryRuns \in 0 .. MaxDryRuns /\ events \in 0 .. MaxEvents
    /\ attach \in Blobs \union {None} /\ fetch \in Blobs \union {None}
    /\ restore \in Restores
    /\ restore.stage \in {"backup", "import"} => restore.archive \in Archives

\* A receipt of one moment of the directory.
Moment(r) ==
    r # None =>
        /\ r.manifest \in past
        /\ \A d \in Documents : r.pages[d] = r.manifest[d]
Moments ==
    /\ Moment(receipt)
    /\ backup # None => Moment(backup.receipt)
    /\ restore.stage \in {"backup", "import"} => Moment(restore.archive.receipt)

Checked == {"ready", "confirm", "media", "reconfirm", "backup", "install", "apply"}
PlanWell(p) ==
    /\ p \in Plans
    /\ p.stage \in {"read", "verify"} \union Checked => p.manifest \in Graphs
    /\ p.stage \in {"verify"} \union Checked =>
            \A d \in Documents : p.pages[d] \in Editions
    /\ p.stage \in {"scan", "read", "verify"} \union Checked =>
            p.namespace \in 1 .. MaxDryRuns

\* m lies between what the first scan found and what the second has found.
Between(p, m, g) ==
    \A f \in Files :
        /\ p.manifest[f] <= m[f] /\ m[f] <= g[f]
        /\ p.again[f] # Unread => m[f] <= p.again[f]
\* A page was read after the first scan and before the second.
PagesBetween(p, g) ==
    \A d \in Documents :
        /\ p.pages[d] <= g[d]
        /\ p.pages[d] # Unread => p.manifest[d] <= p.pages[d]
        /\ p.again[d] # Unread => p.pages[d] <= p.again[d]
Met(p, g, h) == \E m \in h : Between(p, m, g)

PlanReads(p, g, h) ==
    /\ p.stage = "scan" => p.pages = NothingRead /\ AtMost(p.manifest, g)
    /\ p.stage \in {"scan", "read"} => p.again = NothingRead
    /\ p.stage \in {"read", "verify"} => Met(p, g, h) /\ PagesBetween(p, g)
    /\ p.stage \in Checked =>
            p.manifest \in h /\ \A d \in Documents : p.pages[d] = p.manifest[d]

\* Who may count on a file finds it, or it was taken from him.
PlanFiles(p, files) ==
    /\ p.stage \in {"reconfirm", "backup"} =>
            \A a \in Assets : <<a, p.manifest[a]>> \in p.left
    /\ p.stage \in {"install", "apply"} =>
            \A a \in Assets : <<a, p.manifest[a]>> \in p.left \union files
    /\ p.stage = "apply" => p.left = {}
HoldersHaveFiles ==
    /\ \A r \in rows \union undoable : r[2] \in stored \union taken
    /\ attach # None => attach \in stored \union taken
    /\ fetch # None => fetch \in stored \union taken

ImportInv ==
    /\ Directory /\ DataTyped /\ Moments /\ HoldersHaveFiles
    /\ PlanWell(plan) /\ PlanReads(plan, graph, past)
    /\ PlanFiles(plan, stored \union taken)

LEMMA NoImportIs ==
  /\ PlanWell(NoImport) /\ PlanFiles(NoImport, stored \union taken)
  /\ \A g, h : PlanReads(NoImport, g, h)
  BY ImportsAssumption
     DEF NoImport, PlanWell, Plans, PlanStages, NothingRead, Scans, Unread, Checked,
         Workspaces, PlanFiles, PlanReads

LEMMA ImportInitHolds == ImportInit => ImportInv
<1> SUFFICES ASSUME ImportInit PROVE ImportInv OBVIOUS
<1>1. Directory
  <2>1. graph \in Graphs /\ past = {graph}
    BY ImportsAssumption DEF ImportInit, Graphs, Editions
  <2>2. IsFiniteSet(past) /\ Cardinality(past) = 1 BY <2>1, FS_Singleton
  <2> QED BY <2>1, <2>2 DEF ImportInit, Directory, AtMost, Graphs, Editions
<1>2. DataTyped
  BY ImportsAssumption
     DEF ImportInit, DataTyped, Rows, Workspaces, NoRestore, Restores, NoRestore
<1>3. Moments /\ HoldersHaveFiles
  BY DEF ImportInit, Moments, HoldersHaveFiles, Moment, NoRestore
<1>4. plan = NoImport BY DEF ImportInit
<1> QED BY <1>1, <1>2, <1>3, <1>4, NoImportIs DEF ImportInv

\* A step that changes nothing but the plan.
LEMMA ReadsKeep ==
  ASSUME ImportInv, NEW p, Reads(p), PlanWell(p), PlanReads(p, graph, past),
         PlanFiles(p, stored \union taken)
  PROVE  ImportInv'
<1>1. Directory' /\ DataTyped' /\ Moments' /\ HoldersHaveFiles'
  BY DEF ImportInv, Reads, Directory, AtMost, DataTyped, Moments, Moment,
         HoldersHaveFiles, database, others
<1>2. PlanWell(plan') /\ PlanReads(plan', graph', past')
      /\ PlanFiles(plan', stored' \union taken')
  BY DEF Reads, database, others
<1> QED BY <1>1, <1>2 DEF ImportInv, PlanWell, PlanReads, Met, Between, PagesBetween, AtMost, PlanFiles

LEMMA PlanHere ==
  ASSUME ImportInv
  PROVE  /\ plan \in Plans /\ PlanWell(plan) /\ PlanReads(plan, graph, past)
         /\ PlanFiles(plan, stored \union taken)
         /\ plan.manifest \in Scans /\ plan.again \in Scans /\ plan.pages \in Scans
         /\ plan.left \in SUBSET Blobs /\ plan.put \in SUBSET Blobs
         /\ plan.stage \in PlanStages
         /\ graph \in Graphs /\ graph \in past /\ past \subseteq Graphs
  BY DEF ImportInv, PlanWell, Plans, Directory

\* Stated as one predicate, of which the steps cite an instance.
Scanning(p, scan, s) ==
    p \in Plans /\ scan \in Scans /\ s \in PlanStages =>
        LET q == [p EXCEPT !.manifest = scan, !.stage = s]
        IN  /\ q \in Plans /\ q.manifest = scan /\ q.stage = s
            /\ q.again = p.again /\ q.pages = p.pages /\ q.namespace = p.namespace

LEMMA ScanningIs == \A p, scan, s : Scanning(p, scan, s)
<1> TAKE p, scan, s
<1> QED BY DEF Scanning, Plans

LEMMA ScanFileKeeps == ASSUME ImportInv, ScanFile PROVE ImportInv'
<1>1. plan.stage = "scan" BY DEF ScanFile
<1>2. PICK f \in Files :
        LET scan == [plan.manifest EXCEPT ![f] = graph[f]]
        IN  Reads([plan EXCEPT !.manifest = scan,
                    !.stage = IF Whole(scan, Files) THEN "read" ELSE "scan"])
  BY DEF ScanFile
<1> DEFINE scan == [plan.manifest EXCEPT ![f] = graph[f]]
<1> DEFINE s == IF Whole(scan, Files) THEN "read" ELSE "scan"
<1> DEFINE q == [plan EXCEPT !.manifest = scan, !.stage = s]
<1>3. Reads(q) BY <1>2
<1>4. scan \in Scans BY PlanHere DEF Scans, Graphs
<1>5. AtMost(scan, graph) BY <1>1, PlanHere DEF AtMost, PlanReads, Scans, Graphs, Editions
<1>6. plan.pages = NothingRead /\ plan.again = NothingRead
      /\ plan.namespace \in 1 .. MaxDryRuns
  BY <1>1, PlanHere DEF PlanReads, PlanWell
<1>7. s \in {"read", "scan"} /\ (s = "read" => scan \in Graphs)
  BY <1>4 DEF Whole, Scans, Graphs
<1> HIDE DEF s, scan
<1>8. /\ q \in Plans /\ q.manifest = scan /\ q.stage = s
      /\ q.again = plan.again /\ q.pages = plan.pages /\ q.namespace = plan.namespace
  <2>1. Scanning(plan, scan, s) BY ScanningIs
  <2>2. s \in PlanStages BY <1>7 DEF PlanStages
  <2> QED BY <1>4, <2>1, <2>2, PlanHere DEF Scanning
<1> HIDE DEF q
<1>9. PlanWell(q) BY <1>6, <1>7, <1>8 DEF PlanWell, Checked
<1>10. Between(q, graph, graph) /\ PagesBetween(q, graph)
  BY <1>5, <1>6, <1>8, PlanHere
     DEF Between, PagesBetween, AtMost, NothingRead, Unread, Graphs, Editions, Files
<1>11. Met(q, graph, past) BY <1>10, PlanHere DEF Met
<1>12. PlanReads(q, graph, past)
  BY <1>5, <1>6, <1>7, <1>8, <1>10, <1>11 DEF PlanReads, Checked
<1>13. PlanFiles(q, stored \union taken) BY <1>7, <1>8 DEF PlanFiles
<1> QED BY <1>3, <1>9, <1>12, <1>13, ReadsKeep

Reading(p, read, s) ==
    p \in Plans /\ read \in Scans /\ s \in PlanStages =>
        LET q == [p EXCEPT !.pages = read, !.stage = s]
        IN  /\ q \in Plans /\ q.pages = read /\ q.stage = s
            /\ q.again = p.again /\ q.manifest = p.manifest
            /\ q.namespace = p.namespace

LEMMA ReadingIs == \A p, read, s : Reading(p, read, s)
<1> TAKE p, read, s
<1> QED BY DEF Reading, Plans

LEMMA ReadDocumentKeeps == ASSUME ImportInv, ReadDocument PROVE ImportInv'
<1>1. plan.stage = "read" BY DEF ReadDocument
<1>2. PICK d \in Documents :
        LET read == [plan.pages EXCEPT ![d] = graph[d]]
        IN  Reads([plan EXCEPT !.pages = read,
                    !.stage = IF Whole(read, Documents) THEN "verify" ELSE "read"])
  BY DEF ReadDocument
<1> DEFINE read == [plan.pages EXCEPT ![d] = graph[d]]
<1> DEFINE s == IF Whole(read, Documents) THEN "verify" ELSE "read"
<1> DEFINE q == [plan EXCEPT !.pages = read, !.stage = s]
<1>3. Reads(q) BY <1>2
<1>4. d \in Files /\ Documents \subseteq Files BY DEF Files
<1>5. read \in Scans BY <1>4, PlanHere DEF Scans, Graphs
<1>6. /\ plan.again = NothingRead /\ Met(plan, graph, past) /\ PagesBetween(plan, graph)
      /\ plan.namespace \in 1 .. MaxDryRuns /\ plan.manifest \in Graphs
  BY <1>1, PlanHere DEF PlanReads, PlanWell
<1>7. s \in {"read", "verify"} /\ (s = "verify" => \A e \in Documents : read[e] \in Editions)
  BY <1>4, <1>5 DEF Whole, Scans
<1>8. plan.manifest[d] <= graph[d]
  <2>1. PICK m \in past : Between(plan, m, graph) BY <1>6 DEF Met
  <2>2. m \in Graphs BY PlanHere
  <2> QED BY <1>4, <1>6, <2>1, <2>2, PlanHere DEF Between, Graphs, Editions
<1>9. \A e \in Documents : read[e] = IF e = d THEN graph[e] ELSE plan.pages[e]
  BY <1>4, PlanHere DEF Scans
<1> HIDE DEF s, read
<1>10. /\ q \in Plans /\ q.pages = read /\ q.stage = s /\ q.again = plan.again
       /\ q.manifest = plan.manifest /\ q.namespace = plan.namespace
  <2>1. Reading(plan, read, s) BY ReadingIs
  <2>2. s \in PlanStages BY <1>7 DEF PlanStages
  <2> QED BY <1>5, <2>1, <2>2, PlanHere DEF Reading
<1> HIDE DEF q
<1>11. PlanWell(q) BY <1>6, <1>7, <1>10 DEF PlanWell, Checked
<1>12. PagesBetween(q, graph)
  BY <1>4, <1>6, <1>8, <1>9, <1>10, PlanHere
     DEF PagesBetween, NothingRead, Graphs, Editions
<1>13. Met(q, graph, past) BY <1>6, <1>10 DEF Met, Between
<1>14. PlanReads(q, graph, past) BY <1>6, <1>7, <1>10, <1>12, <1>13 DEF PlanReads, Checked
<1>15. PlanFiles(q, stored \union taken) BY <1>7, <1>10 DEF PlanFiles
<1> QED BY <1>3, <1>11, <1>14, <1>15, ReadsKeep

\* What is compared with the manifest.
ScannedAgain(p, scan) ==
    p \in Plans /\ scan \in Scans =>
        LET q == [p EXCEPT !.again = scan]
        IN  /\ q \in Plans /\ q.again = scan /\ q.stage = p.stage
            /\ q.pages = p.pages /\ q.manifest = p.manifest
            /\ q.namespace = p.namespace /\ q.left = p.left

LEMMA ScannedAgainIs == \A p, scan : ScannedAgain(p, scan)
<1> TAKE p, scan
<1> QED BY DEF ScannedAgain, Plans

Verified(p, s) ==
    p \in Plans /\ s \in PlanStages =>
        LET q == [p EXCEPT !.again = NothingRead, !.stage = s]
        IN  /\ q \in Plans /\ q.stage = s
            /\ q.pages = p.pages /\ q.manifest = p.manifest
            /\ q.namespace = p.namespace /\ q.left = p.left

LEMMA VerifiedIs == \A p, s : Verified(p, s)
<1>1. NothingRead \in Scans BY DEF NothingRead, Scans, Unread
<1> TAKE p, s
<1> QED BY <1>1 DEF Verified, Plans

\* A graph between the manifest and the same manifest again is that manifest.
LEMMA NothingChanged ==
  ASSUME NEW m \in Graphs, NEW first \in Graphs, NEW again \in Scans,
         \A f \in Files : first[f] <= m[f] /\ m[f] <= again[f], again = first
  PROVE  first = m
<1>1. \A f \in Files : first[f] = m[f] BY DEF Graphs, Editions
<1> QED BY <1>1 DEF Graphs

LEMMA VerifyFileKeeps == ASSUME ImportInv, VerifyFile PROVE ImportInv'
<1>1. plan.stage \in {"verify", "confirm", "reconfirm"} BY DEF VerifyFile, Afterwards
<1>2. PICK f \in Files :
        LET scan == [plan.again EXCEPT ![f] = graph[f]] IN
        Reads(IF ~Whole(scan, Files) THEN [plan EXCEPT !.again = scan]
              ELSE IF SameManifest(plan.manifest, scan)
              THEN [plan EXCEPT !.again = NothingRead,
                                !.stage = Afterwards[plan.stage]]
              ELSE NoImport)
  BY DEF VerifyFile
<1> DEFINE scan == [plan.again EXCEPT ![f] = graph[f]]
<1>3. scan \in Scans BY PlanHere DEF Scans, Graphs
<1>4. \A e \in Files : scan[e] = IF e = f THEN graph[e] ELSE plan.again[e]
  BY PlanHere DEF Scans
<1>5. /\ plan.manifest \in Graphs /\ \A d \in Documents : plan.pages[d] \in Editions
      /\ plan.namespace \in 1 .. MaxDryRuns
  BY <1>1, PlanHere DEF PlanWell, Checked
<1>6. plan.stage = "verify" =>
        /\ \E m \in past : \A e \in Files : /\ plan.manifest[e] <= m[e] /\ m[e] <= graph[e]
                                            /\ scan[e] # Unread => m[e] <= scan[e]
        /\ \A d \in Documents : /\ plan.pages[d] <= graph[d]
                                /\ plan.pages[d] # Unread => plan.manifest[d] <= plan.pages[d]
                                /\ scan[d] # Unread => plan.pages[d] <= scan[d]
  <2> SUFFICES ASSUME plan.stage = "verify" PROVE
        /\ \E m \in past : \A e \in Files : /\ plan.manifest[e] <= m[e] /\ m[e] <= graph[e]
                                            /\ scan[e] # Unread => m[e] <= scan[e]
        /\ \A d \in Documents : /\ plan.pages[d] <= graph[d]
                                /\ plan.pages[d] # Unread => plan.manifest[d] <= plan.pages[d]
                                /\ scan[d] # Unread => plan.pages[d] <= scan[d]
    OBVIOUS
  <2>1. Met(plan, graph, past) /\ PagesBetween(plan, graph) BY PlanHere DEF PlanReads
  <2>2. PICK m \in past : Between(plan, m, graph) BY <2>1 DEF Met
  <2> HIDE DEF scan
  <2>3. \A e \in Files : /\ plan.manifest[e] <= m[e] /\ m[e] <= graph[e]
                         /\ scan[e] # Unread => m[e] <= scan[e]
    BY <1>4, <2>2 DEF Between
  <2>4. \A d \in Documents : /\ plan.pages[d] <= graph[d]
                             /\ plan.pages[d] # Unread => plan.manifest[d] <= plan.pages[d]
                             /\ scan[d] # Unread => plan.pages[d] <= scan[d]
    BY <1>4, <2>1 DEF PagesBetween, Files
  <2> QED BY <2>3, <2>4
<1> HIDE DEF scan
<1>7. CASE ~Whole(scan, Files)
  <2> DEFINE q == [plan EXCEPT !.again = scan]
  <2>1. Reads(q) BY <1>2, <1>7 DEF scan
  <2>2. /\ q \in Plans /\ q.again = scan /\ q.stage = plan.stage
        /\ q.pages = plan.pages /\ q.manifest = plan.manifest
        /\ q.namespace = plan.namespace /\ q.left = plan.left
    <3>1. ScannedAgain(plan, scan) BY ScannedAgainIs
    <3> QED BY <1>3, <3>1, PlanHere DEF ScannedAgain
  <2> HIDE DEF q
  <2>3. PlanWell(q) BY <1>5, <2>2 DEF PlanWell
  <2>4. q.stage = "verify" => Met(q, graph, past) /\ PagesBetween(q, graph)
    BY <1>6, <2>2 DEF Met, Between, PagesBetween
  <2>5. q.stage \in Checked => q.manifest \in past
                               /\ \A d \in Documents : q.pages[d] = q.manifest[d]
    BY <2>2, PlanHere DEF PlanReads
  <2>6. PlanReads(q, graph, past) BY <1>1, <2>2, <2>4, <2>5 DEF PlanReads
  <2>7. PlanFiles(q, stored \union taken) BY <2>2, PlanHere DEF PlanFiles
  <2> QED BY <2>1, <2>3, <2>6, <2>7, ReadsKeep
<1>8. CASE Whole(scan, Files) /\ ~SameManifest(plan.manifest, scan)
  <2>1. Reads(NoImport) BY <1>2, <1>8 DEF scan
  <2> QED BY <2>1, NoImportIs, ReadsKeep
<1>9. CASE Whole(scan, Files) /\ SameManifest(plan.manifest, scan)
  <2> DEFINE s == Afterwards[plan.stage]
  <2> DEFINE q == [plan EXCEPT !.again = NothingRead, !.stage = s]
  <2>1. Reads(q) BY <1>2, <1>9 DEF scan
  <2>2. /\ s \in {"ready", "media", "backup"}
        /\ s = "backup" => plan.stage = "reconfirm"
    BY <1>1 DEF Afterwards
  <2> HIDE DEF s
  <2>3. /\ q \in Plans /\ q.stage = s /\ q.pages = plan.pages
        /\ q.manifest = plan.manifest /\ q.namespace = plan.namespace
        /\ q.left = plan.left
    <3>1. Verified(plan, s) BY VerifiedIs
    <3>2. s \in PlanStages BY <2>2 DEF PlanStages
    <3> QED BY <3>1, <3>2, PlanHere DEF Verified
  <2> HIDE DEF q
  <2>4. PlanWell(q) BY <1>5, <2>2, <2>3 DEF PlanWell
  <2>5. plan.manifest \in past /\ \A d \in Documents : plan.pages[d] = plan.manifest[d]
    <3>1. CASE plan.stage # "verify"
      BY <1>1, <3>1, PlanHere DEF PlanReads, Checked
    <3>2. CASE plan.stage = "verify"
      <4>1. PICK m \in past :
                \A e \in Files : /\ plan.manifest[e] <= m[e] /\ m[e] <= graph[e]
                                 /\ scan[e] # Unread => m[e] <= scan[e]
        BY <1>6, <3>2
      <4>2. scan = plan.manifest /\ \A e \in Files : scan[e] # Unread
        BY <1>9 DEF SameManifest, Whole
      <4>3. m \in Graphs BY PlanHere
      <4>4. plan.manifest = m
        BY <1>3, <1>5, <4>1, <4>2, <4>3, NothingChanged
      <4>5. \A d \in Documents : plan.pages[d] = plan.manifest[d]
        <5> TAKE d \in Documents
        <5>1. d \in Files /\ plan.pages[d] \in Editions /\ plan.manifest[d] \in Editions
          BY <1>5 DEF Files, Graphs
        <5>2. plan.manifest[d] <= plan.pages[d] /\ plan.pages[d] <= plan.manifest[d]
          BY <1>6, <3>2, <4>2, <5>1 DEF Unread, Editions
        <5> QED BY <5>1, <5>2 DEF Editions
      <4> QED BY <4>1, <4>4, <4>5
    <3> QED BY <3>1, <3>2
  <2>6. PlanReads(q, graph, past) BY <2>2, <2>3, <2>5 DEF PlanReads
  <2>7. PlanFiles(q, stored \union taken) BY <2>2, <2>3, PlanHere DEF PlanFiles
  <2> QED BY <2>1, <2>4, <2>6, <2>7, ReadsKeep
<1> QED BY <1>7, <1>8, <1>9

-----------------------------------------------------------------------------
(* The plan afterwards *)

\* Another stage, with files to install or without.
Staged(p, s) ==
    p \in Plans /\ s \in PlanStages =>
        LET q == [p EXCEPT !.stage = s]
        IN  /\ q \in Plans /\ q.stage = s /\ q.again = p.again /\ q.pages = p.pages
            /\ q.manifest = p.manifest /\ q.namespace = p.namespace
            /\ q.left = p.left /\ q.put = p.put

LEMMA StagedIs == \A p, s : Staged(p, s)
<1> TAKE p, s
<1> QED BY DEF Staged, Plans

\* A checked plan stays one until its files are installed.
LEMMA CheckedStays ==
  ASSUME NEW p \in Plans, PlanWell(p), PlanReads(p, graph, past), p.stage \in Checked,
         NEW q \in Plans, q.stage \in Checked, q.manifest = p.manifest,
         q.pages = p.pages, q.namespace = p.namespace
  PROVE  PlanWell(q) /\ PlanReads(q, graph, past)
  BY DEF PlanWell, PlanReads, Checked

LEMMA ToCleanUp ==
  ASSUME NEW p \in Plans, p.stage = "clean", NEW g, NEW h, NEW files
  PROVE  PlanWell(p) /\ PlanReads(p, g, h) /\ PlanFiles(p, files)
  BY DEF PlanWell, PlanReads, PlanFiles, Checked

LEMMA ReadMediaKeeps == ASSUME ImportInv, ReadMedia PROVE ImportInv'
<1>1. plan.stage = "media" BY DEF ReadMedia
<1> DEFINE needed == {<<a, plan.manifest[a]>> : a \in Assets}
<1> DEFINE q == [plan EXCEPT !.stage = "reconfirm", !.left = needed]
<1>2. Reads(q) \/ Reads(NoImport) BY DEF ReadMedia
<1>3. plan.manifest \in Graphs BY <1>1, PlanHere DEF PlanWell, Checked
<1>4. needed \in SUBSET Blobs BY <1>3 DEF Blobs, Graphs, Files
<1> HIDE DEF needed
<1>5. /\ q \in Plans /\ q.stage = "reconfirm" /\ q.pages = plan.pages
      /\ q.manifest = plan.manifest /\ q.namespace = plan.namespace
      /\ q.left = needed
  BY <1>4, PlanHere DEF Plans, PlanStages
<1> HIDE DEF q
<1>6. PlanWell(q) /\ PlanReads(q, graph, past)
  BY <1>1, <1>5, PlanHere, CheckedStays DEF Checked
<1>7. PlanFiles(q, stored \union taken) BY <1>5 DEF PlanFiles, needed
<1> QED BY <1>2, <1>6, <1>7, NoImportIs, ReadsKeep

LEMMA BeginCommitKeeps == ASSUME ImportInv, BeginCommit PROVE ImportInv'
<1>1. plan.stage = "ready" BY DEF BeginCommit
<1> DEFINE first == (receipt = None)
<1> DEFINE q == [plan EXCEPT !.stage = "confirm", !.first = first]
<1>2. Reads(q) \/ Reads(NoImport) BY DEF BeginCommit
<1>3. first \in BOOLEAN OBVIOUS
<1> HIDE DEF first
<1>5. /\ q \in Plans /\ q.stage = "confirm" /\ q.pages = plan.pages
      /\ q.manifest = plan.manifest /\ q.namespace = plan.namespace
  BY <1>3, PlanHere DEF Plans, PlanStages
<1> HIDE DEF q
<1>6. PlanWell(q) /\ PlanReads(q, graph, past)
  BY <1>1, <1>5, PlanHere, CheckedStays DEF Checked
<1>7. PlanFiles(q, stored \union taken) BY <1>5 DEF PlanFiles
<1> QED BY <1>2, <1>6, <1>7, NoImportIs, ReadsKeep

LEMMA DiscardSessionKeeps == ASSUME ImportInv, DiscardSession PROVE ImportInv'
<1>1. Reads(NoImport) BY DEF DiscardSession
<1> QED BY <1>1, NoImportIs, ReadsKeep

-----------------------------------------------------------------------------
(* Steps that write something *)

LEMMA Assemble ==
  ASSUME ImportInv, UNCHANGED <<graph, past>>, DataTyped', Moments', HoldersHaveFiles',
         PlanWell(plan'), PlanReads(plan', graph, past),
         PlanFiles(plan', stored' \union taken')
  PROVE  ImportInv'
<1>1. Directory' BY DEF ImportInv, Directory, AtMost
<1> QED BY <1>1 DEF ImportInv, PlanWell, PlanReads, Met, Between, PagesBetween, AtMost,
           PlanFiles

\* No file goes and the plan stays.
LEMMA OthersWrite ==
  ASSUME ImportInv, UNCHANGED <<graph, past, plan>>, DataTyped', Moments',
         HoldersHaveFiles', stored \union taken \subseteq stored' \union taken'
  PROVE  ImportInv'
<1>1. PlanFiles(plan', stored' \union taken') BY PlanHere DEF PlanFiles
<1> QED BY <1>1, PlanHere, Assemble

LEMMA EditGraphKeeps == ASSUME ImportInv, EditGraph PROVE ImportInv'
<1>1. PICK f \in Files : graph' = [graph EXCEPT ![f] = @ + 1] BY DEF EditGraph
<1>2. /\ Cardinality(past) <= MaxChanges /\ past' = past \union {graph'}
      /\ UNCHANGED <<stored, database, backup, plan, dryRuns, others, taken>>
  BY DEF EditGraph
<1>3. /\ graph \in Graphs /\ past \subseteq Graphs /\ IsFiniteSet(past)
      /\ \A m \in past : AtMost(m, graph)
      /\ \A e \in Files : graph[e] < Cardinality(past)
  BY DEF ImportInv, Directory
<1>4. Cardinality(past) \in Nat BY <1>3, FS_CardinalityType
<1>5. /\ \A e \in Files : graph'[e] = IF e = f THEN graph[e] + 1 ELSE graph[e]
      /\ graph' \in [Files -> Int] /\ DOMAIN graph' = Files
  BY <1>1, <1>3 DEF Graphs, Editions
<1>6. graph' \in Graphs
  BY <1>1, <1>2, <1>3, <1>4, <1>5, ImportsAssumption DEF Graphs, Editions
<1>7. AtMost(graph, graph')
  BY <1>3, <1>5 DEF AtMost, Graphs, Editions
<1>8. \A m \in past : AtMost(m, graph')
  BY <1>3, <1>6, <1>7 DEF AtMost, Graphs, Editions
<1>9. graph' \notin past
  <2>1. \A m \in past : m[f] <= graph[f] BY <1>3 DEF AtMost
  <2>2. graph'[f] = graph[f] + 1 /\ graph[f] \in Int BY <1>3, <1>5 DEF Graphs, Editions
  <2> QED BY <2>1, <2>2
<1>10. IsFiniteSet(past') /\ Cardinality(past') = Cardinality(past) + 1
  BY <1>2, <1>3, <1>9, FS_AddElement
<1>11. Directory'
  <2>1. \A e \in Files : graph'[e] < Cardinality(past')
    BY <1>3, <1>4, <1>5, <1>10 DEF Graphs, Editions
  <2>2. AtMost(graph', graph') BY <1>6 DEF AtMost, Graphs, Editions
  <2>3. \A m \in past' : AtMost(m, graph') BY <1>2, <1>8, <2>2
  <2> QED BY <1>2, <1>3, <1>6, <1>10, <2>1, <2>3 DEF Directory, AtMost
<1>12. PlanReads(plan, graph', past')
  <2>1. plan.manifest \in Scans /\ plan.pages \in Scans BY PlanHere
  <2>2. AtMost(plan.manifest, graph) => AtMost(plan.manifest, graph')
    BY <1>3, <1>6, <1>7, <2>1 DEF AtMost, Graphs, Scans, Editions, Unread
  <2>3. PagesBetween(plan, graph) => PagesBetween(plan, graph')
    BY <1>3, <1>6, <1>7, <2>1
       DEF AtMost, PagesBetween, Graphs, Scans, Editions, Unread, Files
  <2>4. Met(plan, graph, past) => Met(plan, graph', past')
    <3> SUFFICES ASSUME Met(plan, graph, past) PROVE Met(plan, graph', past') OBVIOUS
    <3>1. PICK m \in past : Between(plan, m, graph) BY DEF Met
    <3>2. m \in Graphs BY <1>3
    <3>3. Between(plan, m, graph')
      BY <1>3, <1>6, <1>7, <3>1, <3>2 DEF Between, AtMost, Graphs, Editions
    <3> QED BY <1>2, <3>3 DEF Met
  <2> QED BY <1>2, <2>2, <2>3, <2>4, PlanHere DEF PlanReads
<1>13. Moments' BY <1>2 DEF ImportInv, Moments, Moment, database, others
<1>14. DataTyped' /\ HoldersHaveFiles'
  BY <1>2 DEF ImportInv, DataTyped, HoldersHaveFiles, database, others
<1>15. PlanWell(plan)' /\ PlanFiles(plan, stored \union taken)'
  BY <1>2, PlanHere DEF PlanWell, PlanFiles
<1>16. PlanReads(plan, graph, past)'
  BY <1>2, <1>12 DEF PlanReads, Met, Between, PagesBetween, AtMost
<1> QED BY <1>11, <1>13, <1>14, <1>15, <1>16 DEF ImportInv

LEMMA BeginPreparingKeeps == ASSUME ImportInv, BeginPreparing PROVE ImportInv'
<1>1. /\ dryRuns < MaxDryRuns /\ dryRuns' = dryRuns + 1
      /\ UNCHANGED <<graph, past, stored, database, backup, others, taken>>
  BY DEF BeginPreparing
<1> DEFINE n == IF receipt = None THEN dryRuns' ELSE receipt.namespace
<1> DEFINE q == [NoImport EXCEPT
                  !.stage = "scan", !.known = receipt, !.clean = fresh,
                  !.workspace = workspace, !.namespace = n]
<1>2. plan' = q BY DEF BeginPreparing
<1>3. dryRuns \in 0 .. MaxDryRuns /\ receipt \in Receipts \union {None}
      /\ fresh \in BOOLEAN /\ workspace \in Workspaces
  BY DEF ImportInv, DataTyped
<1>4. n \in 1 .. MaxDryRuns BY <1>1, <1>3, ImportsAssumption DEF Receipts
<1>5. DataTyped'
  BY <1>1, <1>3, ImportsAssumption DEF ImportInv, DataTyped, database, others
<1>6. Moments' /\ HoldersHaveFiles'
  BY <1>1 DEF ImportInv, Moments, Moment, HoldersHaveFiles, database, others
<1> HIDE DEF n
<1>7. NoImport \in Plans BY NoImportIs DEF PlanWell
<1>8. q \in Plans
  <2>1. n \in 0 .. MaxDryRuns BY <1>4, ImportsAssumption
  <2>2. "scan" \in PlanStages BY DEF PlanStages
  <2> DEFINE k == receipt
  <2> DEFINE c == fresh
  <2> DEFINE w == workspace
  <2>3. k \in Receipts \union {None} /\ c \in BOOLEAN /\ w \in Workspaces BY <1>3
  <2> HIDE DEF k, c, w
  <2>4. [NoImport EXCEPT !.stage = "scan", !.known = k, !.clean = c,
                         !.workspace = w, !.namespace = n] \in Plans
    BY <1>7, <2>1, <2>2, <2>3 DEF Plans
  <2> QED BY <2>4 DEF k, c, w
<1>9. /\ q.stage = "scan" /\ q.namespace = n /\ q.pages = NothingRead
      /\ q.again = NothingRead /\ q.manifest = NothingRead
  BY DEF NoImport
<1> HIDE DEF q
<1>10. PlanWell(q) BY <1>4, <1>8, <1>9 DEF PlanWell, Checked
<1>11. AtMost(NothingRead, graph)
  BY PlanHere DEF AtMost, NothingRead, Unread, Graphs, Editions
<1>12. PlanReads(q, graph, past) BY <1>9, <1>11 DEF PlanReads, Checked
<1>13. PlanFiles(q, stored' \union taken') BY <1>9 DEF PlanFiles
<1> QED BY <1>1, <1>2, <1>5, <1>6, <1>10, <1>12, <1>13, Assemble

LEMMA ArchiveIs ==
  ASSUME DataTyped, Moments
  PROVE  Archive \in Archives /\ Moment(Archive.receipt)
  BY DEF Archive, Archives, DataTyped, Moments

LEMMA WriteBackupIs ==
  ASSUME DataTyped, Moments, WriteBackup
  PROVE  /\ backup' \in Archives \union {None}
         /\ backup' # None => Moment(backup'.receipt)
  BY ArchiveIs DEF WriteBackup, DataTyped, Moments

LEMMA BackUpFirstKeeps == ASSUME ImportInv, BackUpFirst PROVE ImportInv'
<1>1. /\ plan.stage = "backup" /\ (WriteBackup \/ UNCHANGED backup)
      /\ UNCHANGED <<graph, past, stored, database, dryRuns, others, taken>>
      /\ plan' = NoImport \/ plan' = [plan EXCEPT !.stage = "install"]
  BY DEF BackUpFirst
<1>2. /\ backup' \in Archives \union {None}
      /\ backup' # None => Moment(backup'.receipt)
  BY <1>1, WriteBackupIs DEF ImportInv, DataTyped, Moments
<1>3. DataTyped' BY <1>1, <1>2 DEF ImportInv, DataTyped, database, others
<1>4. Moments' BY <1>1, <1>2 DEF ImportInv, Moments, Moment, database, others
<1>5. HoldersHaveFiles' BY <1>1 DEF ImportInv, HoldersHaveFiles, database, others
<1>6. PlanWell(plan') /\ PlanReads(plan', graph, past)
      /\ PlanFiles(plan', stored' \union taken')
  <2>1. CASE plan' = NoImport BY <1>1, <2>1, NoImportIs
  <2>2. CASE plan' = [plan EXCEPT !.stage = "install"]
    <3> DEFINE q == [plan EXCEPT !.stage = "install"]
    <3>0. Staged(plan, "install") BY StagedIs
    <3>1. /\ q \in Plans /\ q.stage = "install" /\ q.pages = plan.pages
          /\ q.manifest = plan.manifest /\ q.namespace = plan.namespace
          /\ q.left = plan.left
      BY <3>0, PlanHere DEF Staged, PlanStages
    <3>2. plan' = q BY <2>2
    <3> HIDE DEF q
    <3>3. PlanWell(q) /\ PlanReads(q, graph, past)
      BY <1>1, <3>1, PlanHere, CheckedStays DEF Checked
    <3>4. PlanFiles(q, stored' \union taken') BY <1>1, <3>1, PlanHere DEF PlanFiles
    <3> QED BY <3>2, <3>3, <3>4
  <2> QED BY <1>1, <2>1, <2>2
<1> QED BY <1>1, <1>3, <1>4, <1>5, <1>6, Assemble

LEMMA InstallBlobKeeps == ASSUME ImportInv, InstallBlob PROVE ImportInv'
<1>1. /\ plan.stage = "install"
      /\ UNCHANGED <<graph, past, database, backup, dryRuns, others, taken>>
  BY DEF InstallBlob
<1>2. \/ /\ plan.left = {} /\ plan' = [plan EXCEPT !.stage = "apply"]
         /\ UNCHANGED stored
      \/ \E b \in plan.left :
            /\ stored' = stored \union {b}
            /\ plan' = [plan EXCEPT !.left = @ \ {b},
                                    !.put = @ \union ({b} \ stored)]
      \/ plan' = [plan EXCEPT !.stage = "clean"] /\ UNCHANGED stored
  BY DEF InstallBlob
<1>3. stored' \subseteq Blobs /\ stored \subseteq stored'
  BY <1>2, PlanHere DEF ImportInv, DataTyped
<1>4. DataTyped' BY <1>1, <1>3 DEF ImportInv, DataTyped, database, others
<1>5. Moments' BY <1>1 DEF ImportInv, Moments, Moment, database, others
<1>6. HoldersHaveFiles'
  BY <1>1, <1>3 DEF ImportInv, HoldersHaveFiles, database, others
<1>7. \A a \in Assets : <<a, plan.manifest[a]>> \in plan.left \union stored \union taken
  BY <1>1, PlanHere DEF PlanFiles
<1>8. CASE plan.left = {} /\ plan' = [plan EXCEPT !.stage = "apply"]
  <2> DEFINE q == [plan EXCEPT !.stage = "apply"]
  <2>1. Staged(plan, "apply") BY StagedIs
  <2>2. /\ q \in Plans /\ q.stage = "apply" /\ q.pages = plan.pages
        /\ q.manifest = plan.manifest /\ q.namespace = plan.namespace
        /\ q.left = plan.left
    BY <2>1, PlanHere DEF Staged, PlanStages
  <2>3. plan' = q BY <1>8
  <2> HIDE DEF q
  <2>4. PlanWell(q) /\ PlanReads(q, graph, past)
    BY <1>1, <2>2, PlanHere, CheckedStays DEF Checked
  <2>5. PlanFiles(q, stored' \union taken') BY <1>1, <1>3, <1>7, <1>8, <2>2 DEF PlanFiles
  <2> QED BY <1>1, <1>4, <1>5, <1>6, <2>3, <2>4, <2>5, Assemble
<1>9. CASE \E b \in plan.left :
            /\ stored' = stored \union {b}
            /\ plan' = [plan EXCEPT !.left = @ \ {b},
                                    !.put = @ \union ({b} \ stored)]
  <2>1. PICK b \in plan.left :
            /\ stored' = stored \union {b}
            /\ plan' = [plan EXCEPT !.left = @ \ {b},
                                    !.put = @ \union ({b} \ stored)]
    BY <1>9
  <2> DEFINE left == plan.left \ {b}
  <2> DEFINE put == plan.put \union ({b} \ stored)
  <2> DEFINE q == [plan EXCEPT !.left = left, !.put = put]
  <2>2. plan' = q BY <2>1
  <2>3. left \in SUBSET Blobs /\ put \in SUBSET Blobs BY PlanHere
  <2>4. \A a \in Assets : <<a, plan.manifest[a]>> \in left \union stored' \union taken'
    BY <1>1, <1>7, <2>1
  <2> HIDE DEF left, put
  <2>5. /\ q \in Plans /\ q.stage = plan.stage /\ q.pages = plan.pages
        /\ q.manifest = plan.manifest /\ q.namespace = plan.namespace /\ q.left = left
    BY <2>3, PlanHere DEF Plans
  <2> HIDE DEF q
  <2>6. PlanWell(q) /\ PlanReads(q, graph, past)
    BY <1>1, <2>5, PlanHere, CheckedStays DEF Checked
  <2>7. PlanFiles(q, stored' \union taken') BY <1>1, <2>4, <2>5 DEF PlanFiles
  <2> QED BY <1>1, <1>4, <1>5, <1>6, <2>2, <2>6, <2>7, Assemble
<1>10. CASE plan' = [plan EXCEPT !.stage = "clean"]
  <2>1. Staged(plan, "clean") BY StagedIs
  <2>2. plan' \in Plans /\ plan'.stage = "clean"
    BY <1>10, <2>1, PlanHere DEF Staged, PlanStages
  <2>3. PlanWell(plan') /\ PlanReads(plan', graph, past)
        /\ PlanFiles(plan', stored' \union taken')
    BY <2>2, ToCleanUp
  <2> QED BY <1>1, <1>4, <1>5, <1>6, <2>3, Assemble
<1> QED BY <1>2, <1>8, <1>9, <1>10

\* A plan that is carried out is a receipt of one moment.
LEMMA PlannedIs ==
  ASSUME ImportInv, plan.stage \in Checked
  PROVE  Planned(plan) \in Receipts /\ Moment(Planned(plan))
<1>1. /\ plan.manifest \in Graphs /\ plan.namespace \in 1 .. MaxDryRuns
      /\ plan.manifest \in past
      /\ \A d \in Documents : plan.pages[d] \in Editions /\ plan.pages[d] = plan.manifest[d]
  BY PlanHere DEF PlanWell, PlanReads, Checked
<1>2. plan.workspace \in Workspaces BY PlanHere DEF Plans
<1> QED BY <1>1, <1>2 DEF Planned, Receipts, Moment

LEMMA ApplyImportKeeps == ASSUME ImportInv, ApplyImport PROVE ImportInv'
<1>1. /\ plan.stage = "apply"
      /\ UNCHANGED <<graph, past, stored, backup, dryRuns, others, taken>>
  BY DEF ApplyImport
<1>2. Planned(plan) \in Receipts /\ Moment(Planned(plan))
  BY <1>1, PlannedIs DEF Checked
<1>3. CASE UNCHANGED database /\ plan' \in {NoImport, [plan EXCEPT !.stage = "clean"]}
  <2>1. DataTyped' /\ Moments' /\ HoldersHaveFiles'
    BY <1>1, <1>3
       DEF ImportInv, DataTyped, Moments, Moment, HoldersHaveFiles, database, others
  <2>2. Staged(plan, "clean") BY StagedIs
  <2>3. PlanWell(plan') /\ PlanReads(plan', graph, past)
        /\ PlanFiles(plan', stored' \union taken')
    <3>1. CASE plan' = NoImport BY <1>1, <3>1, NoImportIs
    <3>2. CASE plan' = [plan EXCEPT !.stage = "clean"]
      <4>1. plan' \in Plans /\ plan'.stage = "clean"
        BY <2>2, <3>2, PlanHere DEF Staged, PlanStages
      <4> QED BY <4>1, ToCleanUp
    <3> QED BY <1>3, <3>1, <3>2
  <2> QED BY <1>1, <2>1, <2>3, Assemble
<1>4. CASE /\ present' = {"graph"} /\ fresh' = FALSE /\ receipt' = Planned(plan)
           /\ rows' = {<<"graph", <<a, plan.manifest[a]>>>> : a \in Assets}
           /\ plan' = NoImport /\ UNCHANGED <<workspace, undoable>>
  <2>1. plan.manifest \in Graphs /\ plan.left = {}
        /\ \A a \in Assets : <<a, plan.manifest[a]>> \in plan.left \union stored \union taken
    BY <1>1, PlanHere DEF PlanWell, PlanFiles, Checked
  <2>2. rows' \in Rows
    BY <1>4, <2>1 DEF Rows, Owners, Blobs, Graphs, Files
  <2>3. \A r \in rows' : r[2] \in stored \union taken BY <1>4, <2>1
  <2>4. DataTyped'
    BY <1>1, <1>2, <1>4, <2>2 DEF ImportInv, DataTyped, Owners, others
  <2>5. HoldersHaveFiles' BY <1>1, <1>4, <2>3 DEF ImportInv, HoldersHaveFiles, others
  <2>6. Moments' BY <1>1, <1>2, <1>4 DEF ImportInv, Moments, Moment, others
  <2>7. PlanWell(plan') /\ PlanReads(plan', graph, past)
        /\ PlanFiles(plan', stored' \union taken')
    BY <1>1, <1>4, NoImportIs
  <2> QED BY <1>1, <2>4, <2>5, <2>6, <2>7, Assemble
<1> QED BY <1>3, <1>4 DEF ApplyImport

-----------------------------------------------------------------------------
(* Cleanups *)

\* What goes is not referred to, and nobody had counted on it.
LEMMA CleanUpIs ==
  ASSUME ImportInv, NEW put \in SUBSET Blobs, CleanUp(put)
  PROVE  /\ stored' \subseteq Blobs /\ taken' \subseteq Blobs
         /\ \A x \in stored \union taken :
                x \in Counted \/ (\E r \in rows : r[2] = x) => x \in stored' \union taken'
<1>1. stored \subseteq Blobs /\ taken \subseteq Blobs BY DEF ImportInv, DataTyped
<1>2. Unreferenced(put) \subseteq Blobs
      /\ \A x \in Unreferenced(put) : \A r \in rows : r[2] # x
  BY DEF Unreferenced
<1>3. CASE UNCHANGED <<stored, taken>> BY <1>1, <1>3
<1>4. CASE /\ stored' = stored \ Unreferenced(put)
           /\ taken' = taken \union (Unreferenced(put) \intersect Counted)
  <2> DEFINE counted == Counted
  <2>1. /\ stored' = stored \ Unreferenced(put)
        /\ taken' = taken \union (Unreferenced(put) \intersect counted)
    BY <1>4
  <2> HIDE DEF counted
  <2>2. \A x \in stored \union taken :
                x \in counted \/ (\E r \in rows : r[2] = x) => x \in stored' \union taken'
    BY <1>2, <2>1
  <2>3. stored' \subseteq Blobs /\ taken' \subseteq Blobs BY <1>1, <1>2, <2>1
  <2> QED BY <2>2, <2>3 DEF counted
<1> QED BY <1>3, <1>4 DEF CleanUp

LEMMA HoldersKeep ==
  ASSUME ImportInv, NEW put \in SUBSET Blobs, CleanUp(put), UNCHANGED <<rows, undoable>>,
         UNCHANGED <<attach, fetch>>
  PROVE  HoldersHaveFiles'
<1>1. \A x \in stored \union taken :
        x \in Counted \/ (\E r \in rows : r[2] = x) => x \in stored' \union taken'
  BY CleanUpIs
<1>2. HoldersHaveFiles BY DEF ImportInv
<1>3. ASSUME NEW r \in rows PROVE r[2] \in stored' \union taken'
  BY <1>1, <1>2 DEF HoldersHaveFiles
<1>4. ASSUME NEW r \in undoable PROVE r[2] \in stored' \union taken'
  <2>1. r[2] \in Counted BY DEF Counted
  <2> QED BY <1>1, <1>2, <2>1 DEF HoldersHaveFiles
<1>5. attach # None => attach \in stored' \union taken'
  <2>1. attach # None => attach \in Counted BY DEF Counted
  <2> QED BY <1>1, <1>2, <2>1 DEF HoldersHaveFiles
<1>6. fetch # None => fetch \in stored' \union taken'
  <2>1. fetch # None => fetch \in Counted BY DEF Counted
  <2> QED BY <1>1, <1>2, <2>1 DEF HoldersHaveFiles
<1> QED BY <1>3, <1>4, <1>5, <1>6 DEF HoldersHaveFiles

LEMMA CleanUpImportKeeps == ASSUME ImportInv, CleanUpImport PROVE ImportInv'
<1>1. /\ plan' = NoImport /\ CleanUp(plan.put)
      /\ UNCHANGED <<graph, past, database, backup, dryRuns, others>>
  BY DEF CleanUpImport
<1>2. plan.put \in SUBSET Blobs BY PlanHere
<1>3. stored' \subseteq Blobs /\ taken' \subseteq Blobs BY <1>1, <1>2, CleanUpIs
<1>4. HoldersHaveFiles' BY <1>1, <1>2, HoldersKeep DEF database, others
<1>5. DataTyped' /\ Moments'
  BY <1>1, <1>3 DEF ImportInv, DataTyped, Moments, Moment, database, others
<1>6. PlanWell(plan') /\ PlanReads(plan', graph, past)
      /\ PlanFiles(plan', stored' \union taken')
  BY <1>1, NoImportIs DEF PlanFiles, NoImport
<1> QED BY <1>1, <1>4, <1>5, <1>6, Assemble

LEMMA CleanUpRestoreKeeps == ASSUME ImportInv, CleanUpRestore PROVE ImportInv'
<1>1. /\ restore' = NoRestore /\ CleanUp(restore.put)
      /\ UNCHANGED <<graph, past, database, backup, plan, dryRuns, attach, fetch, events>>
  BY DEF CleanUpRestore
<1>2. restore.put \in SUBSET Blobs BY DEF ImportInv, DataTyped, Restores
<1>3. /\ stored' \subseteq Blobs /\ taken' \subseteq Blobs
      /\ \A x \in stored \union taken : x \in Counted => x \in stored' \union taken'
  BY <1>1, <1>2, CleanUpIs
<1>4. HoldersHaveFiles' BY <1>1, <1>2, HoldersKeep DEF database
<1>5. NoRestore \in Restores /\ NoRestore.stage = "none" BY DEF NoRestore, Restores
<1>6. DataTyped' /\ Moments'
  BY <1>1, <1>3, <1>5 DEF ImportInv, DataTyped, Moments, Moment, database
<1>7. PlanFiles(plan, stored' \union taken')
  <2>1. plan.stage \in {"install", "apply"} =>
            \A a \in Assets : <<a, plan.manifest[a]>> \in plan.left
                \/ <<a, plan.manifest[a]>> \in Counted
    BY DEF Counted
  <2>2. plan.stage \in {"install", "apply"} =>
            \A a \in Assets : <<a, plan.manifest[a]>> \in plan.left \union stored' \union taken'
    BY <1>3, <2>1, PlanHere DEF PlanFiles
  <2> QED BY <2>2, PlanHere DEF PlanFiles
<1> QED BY <1>1, <1>4, <1>6, <1>7, PlanHere, Assemble

-----------------------------------------------------------------------------
(* Archives *)


LEMMA ForeignIs == Foreign \in Archives /\ Moment(Foreign.receipt)
  BY ImportsAssumption
     DEF Foreign, Archives, Workspaces, Owners, Rows, Blobs, Editions, Files, Moment

LEMMA StageArchiveKeeps == ASSUME ImportInv, StageArchive PROVE ImportInv'
<1>1. /\ events < MaxEvents /\ events' = events + 1
      /\ UNCHANGED <<graph, past, stored, database, backup, plan, dryRuns,
                     attach, fetch, taken>>
  BY DEF StageArchive, Begin
<1>2. PICK a \in {Foreign, backup} \ {None} :
        restore' = [stage |-> "backup", archive |-> a, put |-> {}]
  BY DEF StageArchive
<1>3. a \in Archives /\ Moment(a.receipt)
  BY ForeignIs DEF ImportInv, DataTyped, Moments
<1>4. restore' \in Restores /\ restore'.archive = a BY <1>2, <1>3 DEF Restores
<1>5. events' \in 0 .. MaxEvents BY <1>1, ImportsAssumption DEF ImportInv, DataTyped
<1>6. DataTyped' BY <1>1, <1>3, <1>4, <1>5 DEF ImportInv, DataTyped, database
<1>7. Moments' BY <1>1, <1>3, <1>4 DEF ImportInv, Moments, Moment, database
<1>8. HoldersHaveFiles' BY <1>1 DEF ImportInv, HoldersHaveFiles, database
<1> QED BY <1>1, <1>6, <1>7, <1>8, OthersWrite

LEMMA BackUpBeforeRestoreKeeps == ASSUME ImportInv, BackUpBeforeRestore PROVE ImportInv'
<1>1. /\ restore.stage = "backup" /\ WriteBackup
      /\ UNCHANGED <<graph, past, stored, database, plan, dryRuns, attach, fetch,
                     events, taken>>
      /\ restore' = NoRestore \/ restore' = [restore EXCEPT !.stage = "import"]
  BY DEF BackUpBeforeRestore
<1>2. /\ backup' \in Archives \union {None}
      /\ backup' # None => Moment(backup'.receipt)
  BY <1>1, WriteBackupIs DEF ImportInv
<1>3. restore \in Restores /\ restore.archive \in Archives
      /\ Moment(restore.archive.receipt)
  BY <1>1 DEF ImportInv, DataTyped, Moments
<1>4. /\ restore' \in Restores
      /\ restore'.stage = "import" => restore'.archive = restore.archive
      /\ restore'.stage \in {"none", "import"}
  BY <1>1, <1>3 DEF NoRestore, Restores
<1>5. DataTyped' BY <1>1, <1>2, <1>3, <1>4 DEF ImportInv, DataTyped, database
<1>6. Moments' BY <1>1, <1>2, <1>3, <1>4 DEF ImportInv, Moments, Moment, database
<1>7. HoldersHaveFiles' BY <1>1 DEF ImportInv, HoldersHaveFiles, database
<1> QED BY <1>1, <1>5, <1>6, <1>7, OthersWrite

LEMMA ImportArchiveKeeps == ASSUME ImportInv, ImportArchive PROVE ImportInv'
<1> DEFINE a == restore.archive
<1> DEFINE needed == {r[2] : r \in a.rows}
<1>1. /\ restore.stage = "import"
      /\ UNCHANGED <<graph, past, backup, plan, dryRuns, attach, fetch, events, taken>>
  BY DEF ImportArchive
<1>2. a \in Archives /\ restore \in Restores /\ Moment(a.receipt)
  BY <1>1 DEF ImportInv, DataTyped, Moments
<1>3. /\ a.rows \in Rows /\ a.notes \subseteq Owners /\ a.workspace \in Workspaces
      /\ a.receipt \in Receipts \union {None}
  BY <1>2 DEF Archives
<1>4. needed \subseteq Blobs BY <1>3 DEF Rows
<1>5. CASE /\ stored' = stored \union needed
           /\ rows' = a.rows /\ present' = a.notes /\ receipt' = a.receipt
           /\ workspace' = a.workspace /\ undoable' = {}
           /\ fresh' = (fresh /\ a.notes = {} /\ a.receipt = None)
           /\ restore' = NoRestore
  <2>1. fresh' \in BOOLEAN BY <1>5, Zenon
  <2>2. restore' \in Restores /\ restore'.stage = "none"
    BY <1>5 DEF NoRestore, Restores
  <2>3. /\ stored' \subseteq Blobs /\ rows' \in Rows /\ present' \subseteq Owners
        /\ receipt' \in Receipts \union {None} /\ workspace' \in Workspaces
        /\ undoable' \in Rows
    BY <1>3, <1>4, <1>5 DEF ImportInv, DataTyped, Rows
  <2>4. DataTyped' BY <1>1, <2>1, <2>2, <2>3 DEF ImportInv, DataTyped
  <2>5. Moments' BY <1>1, <1>2, <1>5, <2>2 DEF ImportInv, Moments, Moment
  <2>6. \A r \in rows' \union undoable' : r[2] \in stored' \union taken' BY <1>5
  <2>7. HoldersHaveFiles'
    BY <1>1, <1>5, <2>6 DEF ImportInv, HoldersHaveFiles
  <2> QED BY <1>1, <1>5, <2>4, <2>5, <2>7, OthersWrite
<1>6. CASE /\ UNCHANGED database
           /\ \E published \in SUBSET needed :
                /\ stored' = stored \union published
                /\ restore' = [restore EXCEPT !.stage = "clean",
                                              !.put = published \ stored]
  <2>1. PICK published \in SUBSET needed :
            /\ stored' = stored \union published
            /\ restore' = [restore EXCEPT !.stage = "clean", !.put = published \ stored]
    BY <1>6
  <2> DEFINE put == published \ stored
  <2>2. put \in SUBSET Blobs /\ published \subseteq Blobs BY <1>4
  <2>3. restore' = [restore EXCEPT !.stage = "clean", !.put = put] BY <2>1
  <2> HIDE DEF put
  <2>4. restore' \in Restores /\ restore'.stage = "clean"
    BY <1>2, <2>2, <2>3 DEF Restores
  <2>5. stored' \subseteq Blobs /\ stored \subseteq stored'
    BY <2>1, <2>2 DEF ImportInv, DataTyped
  <2>6. DataTyped' BY <1>1, <1>6, <2>4, <2>5 DEF ImportInv, DataTyped, database
  <2>7. Moments' BY <1>1, <1>6, <2>4 DEF ImportInv, Moments, Moment, database
  <2>8. HoldersHaveFiles'
    BY <1>1, <1>6, <2>5 DEF ImportInv, HoldersHaveFiles, database
  <2> QED BY <1>1, <2>5, <2>6, <2>7, <2>8, OthersWrite
<1> QED BY <1>5, <1>6 DEF ImportArchive

-----------------------------------------------------------------------------
(* Everybody else *)

LEMMA EventsIs ==
  ASSUME ImportInv, Begin PROVE events' \in 0 .. MaxEvents
  BY ImportsAssumption DEF Begin, ImportInv, DataTyped

LEMMA WritersKeep ==
  ASSUME ImportInv, WriteNote \/ AttachFile \/ CreateAttachment \/ DownloadBlob
                        \/ ApplyRemote \/ UndoDelete
  PROVE  ImportInv'
<1>1. UNCHANGED <<graph, past, backup, plan, dryRuns, restore, taken, receipt, workspace>>
  BY DEF WriteNote, AttachFile, CreateAttachment, DownloadBlob, ApplyRemote,
         UndoDelete, Writes, database
<1>2. events' \in 0 .. MaxEvents
  BY EventsIs
     DEF WriteNote, AttachFile, CreateAttachment, DownloadBlob, ApplyRemote, UndoDelete,
         ImportInv, DataTyped
<1>3. DataTyped /\ HoldersHaveFiles BY DEF ImportInv
<1>4. Moments' BY <1>1 DEF ImportInv, Moments, Moment
<1>5. CASE WriteNote
  <2>1. DataTyped'
    BY <1>1, <1>2, <1>3, <1>5 DEF WriteNote, DataTyped, Owners
  <2>2. HoldersHaveFiles' BY <1>1, <1>3, <1>5 DEF WriteNote, HoldersHaveFiles
  <2> QED BY <1>1, <1>4, <1>5, <2>1, <2>2, OthersWrite DEF WriteNote
<1>6. CASE AttachFile
  <2>1. DataTyped' BY <1>1, <1>2, <1>3, <1>6 DEF AttachFile, DataTyped, database
  <2>2. HoldersHaveFiles'
    BY <1>1, <1>3, <1>6 DEF AttachFile, HoldersHaveFiles, database
  <2> QED BY <1>1, <1>4, <1>6, <2>1, <2>2, OthersWrite DEF AttachFile
<1>7. CASE CreateAttachment
  <2>1. /\ attach \in Blobs /\ attach \in stored \union taken /\ attach' = None
        /\ rows' \subseteq rows \union {<<"local", attach>>}
        /\ UNCHANGED <<stored, present, fresh, undoable, fetch>>
    BY <1>3, <1>7 DEF CreateAttachment, DataTyped, HoldersHaveFiles
  <2>2. rows' \in Rows BY <1>3, <2>1 DEF DataTyped, Rows, Owners
  <2>3. DataTyped' BY <1>1, <1>2, <1>3, <2>1, <2>2 DEF DataTyped
  <2>4. HoldersHaveFiles' BY <1>1, <1>3, <2>1 DEF HoldersHaveFiles
  <2> QED BY <1>1, <1>4, <2>1, <2>3, <2>4, OthersWrite
<1>8. CASE DownloadBlob
  <2>1. DataTyped' BY <1>1, <1>2, <1>3, <1>8 DEF DownloadBlob, DataTyped, database
  <2>2. HoldersHaveFiles'
    BY <1>1, <1>3, <1>8 DEF DownloadBlob, HoldersHaveFiles, database
  <2> QED BY <1>1, <1>4, <1>8, <2>1, <2>2, OthersWrite DEF DownloadBlob
<1>9. CASE ApplyRemote
  <2>1. /\ fetch \in Blobs /\ fetch \in stored \union taken /\ fetch' = None
        /\ rows' = rows \union {<<"remote", fetch>>}
        /\ present' = present \union {"remote"} /\ fresh' = FALSE
        /\ UNCHANGED <<stored, undoable, attach>>
    BY <1>3, <1>9 DEF ApplyRemote, DataTyped, HoldersHaveFiles
  <2>2. rows' \in Rows /\ present' \subseteq Owners
    BY <1>3, <2>1 DEF DataTyped, Rows, Owners
  <2>3. DataTyped' BY <1>1, <1>2, <1>3, <2>1, <2>2 DEF DataTyped
  <2>4. HoldersHaveFiles' BY <1>1, <1>3, <2>1 DEF HoldersHaveFiles
  <2> QED BY <1>1, <1>4, <2>1, <2>3, <2>4, OthersWrite
<1>10. CASE UndoDelete
  <2>1. /\ undoable' = {} /\ rows' \subseteq rows \union undoable
        /\ UNCHANGED <<stored, present, fresh, attach, fetch>>
    BY <1>10 DEF UndoDelete
  <2>2. rows' \in Rows /\ undoable' \in Rows BY <1>3, <2>1 DEF DataTyped, Rows
  <2>3. DataTyped' BY <1>1, <1>2, <1>3, <2>1, <2>2 DEF DataTyped
  <2>4. HoldersHaveFiles' BY <1>1, <1>3, <2>1 DEF HoldersHaveFiles
  <2> QED BY <1>1, <1>4, <2>1, <2>3, <2>4, OthersWrite
<1> QED BY <1>5, <1>6, <1>7, <1>8, <1>9, <1>10

LEMMA DeleteAttachmentKeeps == ASSUME ImportInv, DeleteAttachment PROVE ImportInv'
<1>1. /\ backup' = Archive
      /\ UNCHANGED <<graph, past, stored, present, fresh, workspace, receipt, plan,
                     dryRuns, attach, fetch, restore, taken>>
  BY DEF DeleteAttachment
<1>2. PICK r \in rows : rows' = rows \ {r} /\ undoable' = {r} BY DEF DeleteAttachment
<1>3. events' \in 0 .. MaxEvents BY EventsIs DEF DeleteAttachment
<1>4. Archive \in Archives /\ Moment(Archive.receipt) BY ArchiveIs DEF ImportInv
<1>5. rows' \in Rows /\ undoable' \in Rows BY <1>2 DEF ImportInv, DataTyped, Rows
<1>6. DataTyped' BY <1>1, <1>3, <1>4, <1>5 DEF ImportInv, DataTyped
<1>7. HoldersHaveFiles' BY <1>1, <1>2 DEF ImportInv, HoldersHaveFiles
<1>8. Moments' BY <1>1, <1>4 DEF ImportInv, Moments, Moment
<1> QED BY <1>1, <1>6, <1>7, <1>8, OthersWrite

LEMMA QuitKeeps == ASSUME ImportInv, Quit PROVE ImportInv'
<1>1. /\ plan' = NoImport /\ restore' = NoRestore /\ attach' = None /\ fetch' = None
      /\ UNCHANGED <<graph, past, stored, database, backup, dryRuns, taken>>
  BY DEF Quit
<1>2. events' \in 0 .. MaxEvents BY EventsIs DEF Quit
<1>3. NoRestore \in Restores /\ NoRestore.stage = "none" BY DEF NoRestore, Restores
<1>4. DataTyped' /\ Moments' /\ HoldersHaveFiles'
  BY <1>1, <1>2, <1>3
     DEF ImportInv, DataTyped, Moments, Moment, HoldersHaveFiles, database
<1>5. PlanWell(plan') /\ PlanReads(plan', graph, past)
      /\ PlanFiles(plan', stored' \union taken')
  BY <1>1, NoImportIs
<1> QED BY <1>1, <1>4, <1>5, Assemble

LEMMA ImportNextKeeps == ASSUME ImportInv, [ImportNext]_importVars PROVE ImportInv'
<1>1. CASE UNCHANGED importVars
  <2>1. DataTyped' /\ Moments' /\ HoldersHaveFiles' /\ UNCHANGED <<graph, past, plan>>
        /\ UNCHANGED <<stored, taken>>
    BY <1>1 DEF ImportInv, DataTyped, Moments, Moment, HoldersHaveFiles, importVars,
                database, others
  <2> QED BY <2>1, OthersWrite
<1>2. CASE ImportNext
  BY <1>2, EditGraphKeeps, BeginPreparingKeeps, ScanFileKeeps, ReadDocumentKeeps,
     VerifyFileKeeps, ReadMediaKeeps, BeginCommitKeeps, DiscardSessionKeeps,
     BackUpFirstKeeps, InstallBlobKeeps, ApplyImportKeeps, CleanUpImportKeeps,
     StageArchiveKeeps, BackUpBeforeRestoreKeeps, ImportArchiveKeeps,
     CleanUpRestoreKeeps, WritersKeep, DeleteAttachmentKeeps, QuitKeeps
     DEF ImportNext
<1> QED BY <1>1, <1>2

\* The inductive invariant of what comes in from outside: scans, files, rows, and
\* who counts which file (logseq_import.rs, data.rs, attachments.rs).
THEOREM ImportHolds == ImportSpec => []ImportInv
<1> QED BY ImportInitHolds, ImportNextKeeps, PTL DEF ImportSpec

\* The directory, the device and everyone who works on it have values of their
\* kind.
THEOREM ImportTypes == ImportSpec => []ImportTypeOK
<1>1. ImportInv => ImportTypeOK
  BY DEF ImportInv, ImportTypeOK, Directory, DataTyped, PlanWell
<1> QED BY <1>1, ImportHolds, PTL

\* A finished import stands for the directory as it was at one moment, although
\* pages and media were read file by file while it was written to: the second
\* scan of prepare and the hashes checked at the commit refuse everything else
\* (logseq_import.rs).
THEOREM ImportedAtOneMoment == ImportSpec => []ImportIsOneMoment
<1>1. ImportInv => ImportIsOneMoment
  BY DEF ImportInv, ImportIsOneMoment, Moments, Moment
<1> QED BY <1>1, ImportHolds, PTL

\* The file of every attachment is in the store, except those a cleanup removed
\* while somebody had found them there without a row of his own yet, or could
\* take the deletion of the row back: whoever cleans up leaves the files that a
\* row names (logseq_import.rs, data.rs, attachments.rs).
THEOREM RowsAlwaysHaveFiles == ImportSpec => []RowsHaveFiles
<1>1. ImportInv => RowsHaveFiles
  BY DEF ImportInv, RowsHaveFiles, HoldersHaveFiles
<1> QED BY <1>1, ImportHolds, PTL

-----------------------------------------------------------------------------
(* The bytes of attachments and drawings *)

\* A pass that has an operation in its batch and goes on to push it without
\* uploading this blob again.
Past(p, o, h) ==
    /\ o \in ToSet(p.batch)
    /\ \/ p.at = "isolate"
       \/ o \notin ToSet(p.todo) /\ h \notin p.wanted

\* An operation that will not be accepted before its device has uploaded the
\* blob; and a blob that is owned or that such an operation brings.
Fresh(d, o, h) ==
    /\ o \in ToSet(host[d].queue) \ (host[d].held \union ToSet(accepted))
    /\ h \in BlobsOf[o]
    /\ \A u \in Passes : ~Past(pass[u], o, h)
Kept(h) == h \in owned \union crossed \/ \E d \in Hosts, o \in Uploads : Fresh(d, o, h)

PassStages == {"idle", "upload", "install", "release", "push", "isolate"}
PassRecords == [at : PassStages, batch : Seq(Uploads), todo : Seq(Uploads),
                wanted : SUBSET NamedBlobs, blob : SUBSET NamedBlobs,
                claimed : BOOLEAN, taken : SUBSET Uploads]
HostRecords == [bound : BOOLEAN, queue : Seq(Uploads), held : SUBSET Uploads,
                has : SUBSET NamedBlobs, cursor : Nat]

BlobTyped ==
    /\ accepted \in Seq(Uploads)
    /\ host \in [Hosts -> HostRecords]
    /\ pass \in [Passes -> PassRecords]

\* A device and its passes are about operations of its own.
OwnQueue(d, r) == \A o \in ToSet(r.queue) : HostOf[o] = d
OwnBatch(u, p) == \A o \in ToSet(p.batch) : HostOf[o] = u[1]

\* What a pass has at each stage.
PassWell(p) ==
    /\ p.at = "idle" => p.batch = <<>>
    /\ p.at \in {"idle", "upload", "push", "isolate"} => p.blob = {}
    /\ p.at = "push" => p.todo = <<>> /\ p.wanted = {}
    /\ p.at = "isolate" => ToSet(p.todo) \subseteq ToSet(p.batch)
TakenIsAccepted(p) == p.taken \subseteq ToSet(accepted)

\* What an accepted operation names is installed and kept, and so is what a pass
\* takes for uploaded.
AcceptedIsKept == \A o \in ToSet(accepted) : \A h \in BlobsOf[o] : h \in installed /\ Kept(h)
UploadedIsKept ==
    \A u \in Passes, o \in Uploads : \A h \in BlobsOf[o] :
        Past(pass[u], o, h) => Kept(h) /\ h \in installed \union pass[u].blob

BlobInv ==
    /\ BlobTyped
    /\ \A d \in Hosts : OwnQueue(d, host[d])
    /\ \A u \in Passes : OwnBatch(u, pass[u]) /\ PassWell(pass[u]) /\ TakenIsAccepted(pass[u])
    /\ AcceptedIsKept /\ UploadedIsKept

-----------------------------------------------------------------------------
(* Rows of operations *)

LEMMA ToSetIs ==
  ASSUME NEW T, NEW s \in Seq(T)
  PROVE  /\ ToSet(s) \in SUBSET T
         /\ \A i \in 1 .. Len(s) : s[i] \in ToSet(s)
         /\ \A e \in ToSet(s) : \E i \in 1 .. Len(s) : s[i] = e
  BY DEF ToSet

LEMMA ToSetOfTail ==
  ASSUME NEW T, NEW s \in Seq(T), s # <<>>
  PROVE  /\ Tail(s) \in Seq(T) /\ Head(s) \in ToSet(s) /\ Head(s) \in T
         /\ ToSet(s) = {Head(s)} \union ToSet(Tail(s))
<1>1. /\ Len(s) \in Nat \ {0} /\ Tail(s) \in Seq(T) /\ Len(Tail(s)) = Len(s) - 1
      /\ Head(s) = s[1] /\ \A i \in 1 .. Len(Tail(s)) : Tail(s)[i] = s[i + 1]
  BY EmptySeq
<1>2. ToSet(Tail(s)) \subseteq ToSet(s) BY <1>1 DEF ToSet
<1>3. ASSUME NEW e \in ToSet(s), e # Head(s) PROVE e \in ToSet(Tail(s))
  <2>1. PICK i \in 1 .. Len(s) : s[i] = e BY ToSetIs
  <2>2. i # 1 BY <1>1, <1>3, <2>1
  <2>3. i - 1 \in 1 .. Len(Tail(s)) /\ (i - 1) + 1 = i BY <1>1, <2>2
  <2>4. Tail(s)[i - 1] = e BY <1>1, <2>1, <2>3
  <2> QED BY <1>1, <2>3, <2>4, ToSetIs
<1>4. Head(s) \in ToSet(s) /\ Head(s) \in T BY <1>1 DEF ToSet
<1> QED BY <1>1, <1>2, <1>3, <1>4

LEMMA ToSetOfJoin ==
  ASSUME NEW T, NEW s \in Seq(T), NEW t \in Seq(T)
  PROVE  s \o t \in Seq(T) /\ ToSet(s \o t) = ToSet(s) \union ToSet(t)
<1>1. /\ s \o t \in Seq(T) /\ Len(s \o t) = Len(s) + Len(t)
      /\ Len(s) \in Nat /\ Len(t) \in Nat
      /\ \A i \in 1 .. Len(s) : (s \o t)[i] = s[i]
      /\ \A i \in 1 .. Len(t) : (s \o t)[Len(s) + i] = t[i]
  OBVIOUS
<1>2. ASSUME NEW e \in ToSet(s) PROVE e \in ToSet(s \o t)
  <2>1. PICK i \in 1 .. Len(s) : s[i] = e BY ToSetIs
  <2>2. i \in 1 .. Len(s \o t) BY <1>1, <2>1
  <2> QED BY <1>1, <2>1, <2>2, ToSetIs
<1>3. ASSUME NEW e \in ToSet(t) PROVE e \in ToSet(s \o t)
  <2>1. PICK i \in 1 .. Len(t) : t[i] = e BY ToSetIs
  <2>2. Len(s) + i \in 1 .. Len(s \o t) BY <1>1, <2>1
  <2> QED BY <1>1, <2>1, <2>2, ToSetIs
<1>4. ASSUME NEW e \in ToSet(s \o t) PROVE e \in ToSet(s) \union ToSet(t)
  <2>1. PICK i \in 1 .. Len(s \o t) : (s \o t)[i] = e BY <1>1, ToSetIs
  <2>2. CASE i <= Len(s) BY <1>1, <2>1, <2>2, ToSetIs
  <2>3. CASE i > Len(s)
    <3>1. i - Len(s) \in 1 .. Len(t) /\ Len(s) + (i - Len(s)) = i BY <1>1, <2>1, <2>3
    <3>2. t[i - Len(s)] = e BY <1>1, <2>1, <3>1
    <3> QED BY <3>1, <3>2, ToSetIs
  <2> QED BY <1>1, <2>2, <2>3
<1> QED BY <1>1, <1>2, <1>3, <1>4

LEMMA ToSetOfAppend ==
  ASSUME NEW T, NEW s \in Seq(T), NEW x \in T
  PROVE  Append(s, x) \in Seq(T) /\ ToSet(Append(s, x)) = ToSet(s) \union {x}
<1>1. /\ Append(s, x) \in Seq(T) /\ Len(Append(s, x)) = Len(s) + 1 /\ Len(s) \in Nat
      /\ \A i \in 1 .. Len(s) : Append(s, x)[i] = s[i]
      /\ Append(s, x)[Len(s) + 1] = x
  OBVIOUS
<1>2. \A e \in ToSet(Append(s, x)) : e \in ToSet(s) \union {x}
  <2> SUFFICES ASSUME NEW e \in ToSet(Append(s, x)), e # x PROVE e \in ToSet(s) OBVIOUS
  <2>1. PICK i \in 1 .. Len(Append(s, x)) : Append(s, x)[i] = e BY <1>1, ToSetIs
  <2>2. i \in 1 .. Len(s) BY <1>1, <2>1
  <2> QED BY <1>1, <2>1, <2>2, ToSetIs
<1>3. \A e \in ToSet(s) : e \in ToSet(Append(s, x))
  <2> SUFFICES ASSUME NEW e \in ToSet(s) PROVE e \in ToSet(Append(s, x)) OBVIOUS
  <2>1. PICK i \in 1 .. Len(s) : s[i] = e BY ToSetIs
  <2>2. i \in 1 .. Len(Append(s, x)) /\ Append(s, x)[i] = e BY <1>1, <2>1
  <2> QED BY <1>1, <2>2, ToSetIs
<1>4. x \in ToSet(Append(s, x))
  <2>1. PICK l \in Seq(T) : l = Append(s, x) BY <1>1
  <2>2. Len(s) + 1 \in 1 .. Len(l) /\ l[Len(s) + 1] = x BY <1>1, <2>1
  <2>3. l[Len(s) + 1] \in ToSet(l) BY <2>1, <2>2, ToSetIs
  <2> QED BY <2>1, <2>2, <2>3
<1> QED BY <1>1, <1>2, <1>3, <1>4

\* A row without some operations has exactly the others.
LEMMA WithoutIs ==
  ASSUME NEW T, NEW s \in Seq(T), NEW gone
  PROVE  Without(s, gone) \in Seq(T) /\ ToSet(Without(s, gone)) = ToSet(s) \ gone
<1> DEFINE n       == Len(s)
           X       == Seq(T)
           step(r, i) == IF s[i] \in gone THEN r ELSE Append(r, s[i])
           row(f)  == [i \in 0..n |-> IF i = 0 THEN <<>>
                                      ELSE IF s[i] \in gone THEN f[i-1] ELSE Append(f[i-1], s[i])]
           kept    == CHOOSE f : f = row(f)
           first   == <<>>
           G       == [i \in 1..n |-> [r \in X |-> step(r, i)]]
<1>1. n \in Nat /\ first \in X OBVIOUS
<1>2. ASSUME NEW r \in X, NEW i \in 1..n PROVE step(r, i) \in X
  <2>1. s[i] \in T OBVIOUS
  <2> QED BY <2>1
<1>3. \E f : f = row(f)
  <2>1. G \in [1..n -> [X -> X]]
    <3> HIDE DEF step, X
    <3> QED BY <1>2
  <2>2. PICK f \in [0..n -> X] : f[0] = first /\ \A i \in 1..n : f[i] = G[i][f[i-1]]
    <3> HIDE DEF first, G, n, X
    <3>1. \E f \in [0..n -> X] : Follows(f, n, first, G) BY <1>1, <2>1, RecursionExists
    <3> QED BY <3>1 DEF Follows
  <2>3. ASSUME NEW i \in 0..n PROVE f[i] = row(f)[i]
    <3>1. CASE i = 0 BY <2>2, <3>1
    <3>2. CASE i # 0
      <4>1. i \in 1..n /\ i - 1 \in 0..n BY <3>2, <1>1
      <4>2. f[i-1] \in X BY <2>2, <4>1
      <4>3. f[i] = step(f[i-1], i)
        <5> HIDE DEF step, X
        <5> QED BY <2>2, <4>1, <4>2
      <4> QED BY <3>2, <4>3
    <3> QED BY <3>1, <3>2
  <2>4. f = row(f)
    <3>1. f = [i \in 0..n |-> f[i]] BY <2>2
    <3> QED BY <2>3, <3>1
  <2> QED BY <2>4
<1>4. kept = row(kept) BY <1>3
<1> HIDE DEF kept
<1>5. kept[0] = <<>> BY <1>1, <1>4
<1>6. ASSUME NEW i \in 1..n PROVE kept[i] = step(kept[i-1], i)
  <2>1. i \in 0..n /\ i # 0 BY <1>1
  <2> QED BY <1>4, <2>1
<1> DEFINE Right == {i \in 0..n : /\ kept[i] \in Seq(T)
                                  /\ ToSet(kept[i]) = {s[j] : j \in 1..i} \ gone}
<1>7. 0 \in Right
  <2>1. <<>> \in Seq(T) /\ ToSet(<<>>) = {} BY DEF ToSet
  <2>2. {s[j] : j \in 1..0} = {} /\ 0 \in 0..n BY <1>1
  <2>3. kept[0] \in Seq(T) /\ ToSet(kept[0]) = {s[j] : j \in 1..0} \ gone
    BY <1>5, <2>1, <2>2
  <2> QED BY <2>2, <2>3
<1>8. ASSUME NEW i \in 1..n, i - 1 \in Right PROVE i \in Right
  <2>1. PICK r : r = kept[i-1] OBVIOUS
  <2>2. r \in Seq(T) /\ ToSet(r) = {s[j] : j \in 1..(i-1)} \ gone BY <1>8, <2>1
  <2>3. s[i] \in T /\ i \in 0..n BY <1>1
  <2>4. {s[j] : j \in 1..i} = {s[j] : j \in 1..(i-1)} \union {s[i]}
    <3>1. 1..i = 1..(i-1) \union {i} BY <1>1
    <3> QED BY <3>1
  <2>5. kept[i] = IF s[i] \in gone THEN r ELSE Append(r, s[i]) BY <1>6, <2>1
  <2>6. CASE s[i] \in gone BY <2>2, <2>3, <2>4, <2>5, <2>6
  <2>7. CASE s[i] \notin gone
    <3>1. Append(r, s[i]) \in Seq(T) /\ ToSet(Append(r, s[i])) = ToSet(r) \union {s[i]}
      BY <2>2, <2>3, ToSetOfAppend
    <3> QED BY <2>2, <2>3, <2>4, <2>5, <2>7, <3>1
  <2> QED BY <2>6, <2>7
<1>9. n \in Right
  <2> HIDE DEF Right
  <2>1. 0..n \subseteq Right BY <1>1, <1>7, <1>8, PlacesAreInductive
  <2> QED BY <1>1, <2>1
<1>10. Without(s, gone) = kept[n] BY DEF Without, kept
<1>11. ToSet(s) = {s[j] : j \in 1..n} BY DEF ToSet
<1> QED BY <1>9, <1>10, <1>11

-----------------------------------------------------------------------------
(* Any step but a release *)

\* What stays for a pass to upload, stays with the others who are fresh.
LEMMA KeptStays ==
  ASSUME owned \subseteq owned', crossed \subseteq crossed',
         \A d \in Hosts, o \in Uploads : \A h \in BlobsOf[o] : Fresh(d, o, h) =>
             o \in ToSet(host'[d].queue) \ (host'[d].held \union ToSet(accepted')),
         \A u \in Passes, o \in Uploads : \A h \in BlobsOf[o] :
             Past(pass'[u], o, h) => Past(pass[u], o, h) \/ h \in owned',
         NEW h, Kept(h)
  PROVE  Kept(h)'
<1>1. CASE h \in owned \union crossed BY <1>1 DEF Kept
<1>2. CASE \E d \in Hosts, o \in Uploads : Fresh(d, o, h)
  <2>1. PICK d \in Hosts : \E o \in Uploads : Fresh(d, o, h) BY <1>2
  <2>2. PICK o \in Uploads : Fresh(d, o, h) BY <2>1
  <2>3. h \in BlobsOf[o] /\ \A u \in Passes : ~Past(pass[u], o, h) BY <2>2 DEF Fresh
  <2>4. o \in ToSet(host'[d].queue) \ (host'[d].held \union ToSet(accepted'))
    BY <2>2, <2>3
  <2>5. CASE \A u \in Passes : ~Past(pass'[u], o, h)
    <3>1. \A u \in Passes : ~(Past(pass[u], o, h))' BY <2>5 DEF Past
    <3>2. Fresh(d, o, h)' BY <2>3, <2>4, <3>1 DEF Fresh
    <3> QED BY <3>2 DEF Kept
  <2>6. CASE \E u \in Passes : Past(pass'[u], o, h)
    <3>1. h \in owned' BY <2>3, <2>6
    <3> QED BY <3>1 DEF Kept
  <2> QED BY <2>5, <2>6
<1> QED BY <1>1, <1>2 DEF Kept

LEMMA StepKeeps ==
  ASSUME BlobInv, BlobTyped',
         \A d \in Hosts : OwnQueue(d, host'[d]),
         \A u \in Passes : /\ OwnBatch(u, pass'[u]) /\ PassWell(pass'[u])
                           /\ pass'[u].taken \subseteq ToSet(accepted'),
         owned \subseteq owned', crossed \subseteq crossed',
         installed \subseteq installed',
         \A d \in Hosts, o \in Uploads : \A h \in BlobsOf[o] : Fresh(d, o, h) =>
             o \in ToSet(host'[d].queue) \ (host'[d].held \union ToSet(accepted')),
         \A u \in Passes, o \in Uploads : \A h \in BlobsOf[o] :
             Past(pass'[u], o, h) => /\ Past(pass[u], o, h) \/ h \in owned'
                                     /\ h \in installed' \union pass'[u].blob,
         \A o \in ToSet(accepted') \ ToSet(accepted) :
             /\ o \in Uploads
             /\ \A h \in BlobsOf[o] :
                    h \in installed' /\ \E u \in Passes : Past(pass[u], o, h)
  PROVE  BlobInv'
<1>1. ASSUME NEW h, Kept(h) PROVE Kept(h)' BY <1>1, KeptStays
<1>2. AcceptedIsKept'
  <2> SUFFICES ASSUME NEW o \in ToSet(accepted'), NEW h \in BlobsOf[o]
               PROVE  h \in installed' /\ Kept(h)'
    BY DEF AcceptedIsKept
  <2>1. CASE o \in ToSet(accepted)
    BY <1>1, <2>1 DEF BlobInv, AcceptedIsKept
  <2>2. CASE o \notin ToSet(accepted)
    <3>1. Kept(h) BY <2>2 DEF BlobInv, UploadedIsKept
    <3> QED BY <1>1, <2>2, <3>1
  <2> QED BY <2>1, <2>2
<1>3. UploadedIsKept'
  <2> SUFFICES ASSUME NEW u \in Passes, NEW o \in Uploads, NEW h \in BlobsOf[o],
                      Past(pass'[u], o, h)
               PROVE  Kept(h)' /\ h \in installed' \union pass'[u].blob
    BY DEF UploadedIsKept, Past
  <2>1. CASE h \in owned' BY <2>1 DEF Kept
  <2>2. CASE Past(pass[u], o, h)
    <3>1. Kept(h) BY <2>2 DEF BlobInv, UploadedIsKept
    <3> QED BY <1>1, <3>1
  <2> QED BY <2>1, <2>2
<1>4. \A d \in Hosts : OwnQueue(d, host[d])' BY DEF OwnQueue
<1>5. \A u \in Passes : (OwnBatch(u, pass[u]) /\ PassWell(pass[u]) /\ TakenIsAccepted(pass[u]))'
  BY DEF OwnBatch, PassWell, TakenIsAccepted
<1> QED BY <1>2, <1>3, <1>4, <1>5 DEF BlobInv

\* A step of one pass that leaves replicas and the log alone.
LEMMA PassStep ==
  ASSUME BlobInv, NEW u \in Passes, NEW q \in PassRecords,
         pass' = [pass EXCEPT ![u] = q], host' = host, accepted' = accepted,
         owned \subseteq owned', crossed' = crossed, installed \subseteq installed',
         OwnBatch(u, q), PassWell(q), q.taken \subseteq ToSet(accepted),
         \A o \in Uploads : \A h \in BlobsOf[o] : Past(q, o, h) =>
             /\ Past(pass[u], o, h) \/ h \in owned'
             /\ h \in installed' \union q.blob
  PROVE  BlobInv'
<1>1. BlobTyped' BY DEF BlobInv, BlobTyped
<1>2. /\ pass'[u] = q /\ \A v \in Passes : v # u => pass'[v] = pass[v]
  BY DEF BlobInv, BlobTyped
<1>3. \A d \in Hosts : OwnQueue(d, host'[d]) BY DEF BlobInv
<1>4. ASSUME NEW v \in Passes
      PROVE  /\ OwnBatch(v, pass'[v]) /\ PassWell(pass'[v])
             /\ pass'[v].taken \subseteq ToSet(accepted')
  <2>1. CASE v = u BY <1>2, <2>1
  <2>2. CASE v # u BY <1>2, <2>2 DEF BlobInv, TakenIsAccepted
  <2> QED BY <2>1, <2>2
<1>5. \A d \in Hosts, o \in Uploads : \A h \in BlobsOf[o] : Fresh(d, o, h) =>
             o \in ToSet(host'[d].queue) \ (host'[d].held \union ToSet(accepted'))
  BY DEF Fresh
<1>6. ASSUME NEW v \in Passes, NEW o \in Uploads, NEW h \in BlobsOf[o],
             Past(pass'[v], o, h)
      PROVE  /\ Past(pass[v], o, h) \/ h \in owned'
             /\ h \in installed' \union pass'[v].blob
  <2>1. CASE v = u BY <1>2, <1>6, <2>1
  <2>2. CASE v # u
    <3>1. pass'[v] = pass[v] BY <1>2, <2>2
    <3>2. Past(pass[v], o, h) BY <1>6, <3>1
    <3>3. h \in installed \union pass[v].blob BY <3>2 DEF BlobInv, UploadedIsKept
    <3> QED BY <3>1, <3>2, <3>3
  <2> QED BY <2>1, <2>2
<1>7. ToSet(accepted') = ToSet(accepted) OBVIOUS
<1> HIDE DEF BlobInv
<1> QED BY <1>1, <1>3, <1>4, <1>5, <1>6, <1>7, StepKeeps

\* A step of one replica that keeps what is still to be accepted.
LEMMA HostStep ==
  ASSUME BlobInv, NEW d \in Hosts, NEW r \in HostRecords,
         host' = [host EXCEPT ![d] = r],
         UNCHANGED <<pass, accepted, owned, crossed, installed>>, OwnQueue(d, r),
         \A o \in ToSet(host[d].queue) \ (host[d].held \union ToSet(accepted)) :
             o \in ToSet(r.queue) \ r.held
  PROVE  BlobInv'
<1>1. BlobTyped' BY DEF BlobInv, BlobTyped
<1>2. /\ host'[d] = r /\ \A c \in Hosts : c # d => host'[c] = host[c]
  BY DEF BlobInv, BlobTyped
<1>3. ASSUME NEW c \in Hosts PROVE OwnQueue(c, host'[c])
  <2>1. CASE c = d BY <1>2, <2>1
  <2>2. CASE c # d BY <1>2, <2>2 DEF BlobInv
  <2> QED BY <2>1, <2>2
<1>4. \A v \in Passes : /\ OwnBatch(v, pass'[v]) /\ PassWell(pass'[v])
                        /\ pass'[v].taken \subseteq ToSet(accepted')
  BY DEF BlobInv, TakenIsAccepted
<1>5. ASSUME NEW c \in Hosts, NEW o \in Uploads, NEW h \in BlobsOf[o], Fresh(c, o, h)
      PROVE  o \in ToSet(host'[c].queue) \ (host'[c].held \union ToSet(accepted'))
  <2>1. o \in ToSet(host[c].queue) \ (host[c].held \union ToSet(accepted))
    BY <1>5 DEF Fresh
  <2>2. CASE c = d BY <1>2, <2>1, <2>2
  <2>3. CASE c # d BY <1>2, <2>1, <2>3
  <2> QED BY <2>2, <2>3
<1>6. ASSUME NEW v \in Passes, NEW o \in Uploads, NEW h \in BlobsOf[o],
             Past(pass'[v], o, h)
      PROVE  /\ Past(pass[v], o, h) \/ h \in owned'
             /\ h \in installed' \union pass'[v].blob
  <2>1. Past(pass[v], o, h) BY <1>6
  <2>2. h \in installed \union pass[v].blob BY <2>1 DEF BlobInv, UploadedIsKept
  <2> QED BY <2>1, <2>2
<1>7. ToSet(accepted') = ToSet(accepted) OBVIOUS
<1> QED BY <1>1, <1>3, <1>4, <1>5, <1>6, <1>7, StepKeeps

-----------------------------------------------------------------------------
(* Steps of a pass *)

LEMMA PassIs ==
  ASSUME BlobInv, NEW u \in Passes
  PROVE  /\ pass[u] \in PassRecords /\ OwnBatch(u, pass[u]) /\ PassWell(pass[u])
         /\ pass[u].taken \subseteq ToSet(accepted)
         /\ pass[u].batch \in Seq(Uploads) /\ pass[u].todo \in Seq(Uploads)
         /\ u[1] \in Hosts /\ host[u[1]] \in HostRecords
         /\ host[u[1]].queue \in Seq(Uploads) /\ OwnQueue(u[1], host[u[1]])
<1>1. pass[u] \in PassRecords BY DEF BlobInv, BlobTyped
<1>2. u[1] \in Hosts BY BlobsAssumption DEF Passes
<1>3. host[u[1]] \in HostRecords BY <1>2 DEF BlobInv, BlobTyped
<1>4. /\ OwnBatch(u, pass[u]) /\ PassWell(pass[u])
      /\ pass[u].taken \subseteq ToSet(accepted) /\ OwnQueue(u[1], host[u[1]])
  BY <1>2 DEF BlobInv, TakenIsAccepted
<1> QED BY <1>1, <1>2, <1>3, <1>4 DEF PassRecords, HostRecords

LEMMA IdleIs ==
  /\ IdlePass \in PassRecords /\ IdlePass.at = "idle" /\ IdlePass.batch = <<>>
  /\ IdlePass.todo = <<>> /\ IdlePass.wanted = {}
  /\ IdlePass.taken = {} /\ IdlePass.blob = {} /\ ToSet(<<>>) = {}
  BY DEF IdlePass, PassRecords, PassStages, ToSet

LEMMA IdleFits ==
  ASSUME NEW u
  PROVE  /\ OwnBatch(u, IdlePass) /\ PassWell(IdlePass)
         /\ \A o, h : ~Past(IdlePass, o, h)
  BY IdleIs DEF OwnBatch, PassWell, Past

\* A pass that stops.
LEMMA StopKeeps ==
  ASSUME BlobInv, NEW u \in Passes, StopPass(u), host' = host, accepted' = accepted,
         owned \subseteq owned', crossed' = crossed, installed \subseteq installed'
  PROVE  BlobInv'
<1>1. pass' = [pass EXCEPT ![u] = IdlePass] BY DEF StopPass, SetPass
<1> QED BY <1>1, IdleIs, IdleFits, PassStep

LEMMA PendingIs ==
  ASSUME BlobInv, NEW d \in Hosts
  PROVE  /\ Pending(d) \in Seq(Uploads)
         /\ ToSet(Pending(d)) = ToSet(host[d].queue) \ host[d].held
<1>1. host[d].queue \in Seq(Uploads) BY DEF BlobInv, BlobTyped, HostRecords
<1> QED BY <1>1, WithoutIs DEF Pending

LEMMA StartUploadKeeps ==
  ASSUME BlobInv, NEW u \in Passes, StartUpload(u) PROVE BlobInv'
<1> DEFINE d == u[1]
<1>1. PICK batch : batch = Pending(d) OBVIOUS
<1>2. PICK todo : todo = IF host[d].bound THEN batch ELSE SnapshotOrder(batch) OBVIOUS
<1> DEFINE q == [IdlePass EXCEPT !.at = "upload", !.batch = batch, !.todo = todo]
<1>3. /\ pass' = [pass EXCEPT ![u] = q]
      /\ UNCHANGED <<installed, owned, accepted, host, crossed>>
  BY <1>1, <1>2 DEF StartUpload, SetPass
<1>4. /\ batch \in Seq(Uploads) /\ ToSet(batch) \subseteq ToSet(host[d].queue)
  BY <1>1, PassIs, PendingIs
<1>5. todo \in Seq(Uploads) /\ ToSet(todo) = ToSet(batch)
  <2>1. PICK s, t : s = Without(batch, Uploads \ Drawings) /\ t = Without(batch, Drawings)
    OBVIOUS
  <2>2. /\ s \in Seq(Uploads) /\ ToSet(s) = ToSet(batch) \ (Uploads \ Drawings)
        /\ t \in Seq(Uploads) /\ ToSet(t) = ToSet(batch) \ Drawings
    BY <1>4, <2>1, WithoutIs
  <2>3. s \o t \in Seq(Uploads) /\ ToSet(s \o t) = ToSet(s) \union ToSet(t)
    BY <2>2, ToSetOfJoin
  <2>4. ToSet(batch) \subseteq Uploads BY <1>4, ToSetIs
  <2>5. ToSet(s) \union ToSet(t) = ToSet(batch) BY <2>2, <2>4
  <2>6. SnapshotOrder(batch) = s \o t BY <2>1 DEF SnapshotOrder
  <2> QED BY <1>2, <1>4, <2>3, <2>5, <2>6
<1>6. /\ q \in PassRecords /\ q.at = "upload" /\ q.batch = batch /\ q.todo = todo
      /\ q.taken = {} /\ q.blob = {} /\ q.wanted = {}
  BY <1>4, <1>5 DEF IdlePass, PassRecords, PassStages
<1> HIDE DEF q
<1>7. OwnBatch(u, q) /\ PassWell(q) /\ \A o, h : ~Past(q, o, h)
  BY <1>4, <1>5, <1>6, PassIs DEF OwnBatch, OwnQueue, PassWell, Past
<1> QED BY <1>3, <1>6, <1>7, PassStep

LEMMA NextUploadKeeps ==
  ASSUME BlobInv, NEW u \in Passes, NextUpload(u) PROVE BlobInv'
<1>1. PICK p : p = pass[u] OBVIOUS
<1>2. /\ p \in PassRecords /\ OwnBatch(u, p) /\ PassWell(p) /\ p.taken \subseteq ToSet(accepted)
      /\ p.todo \in Seq(Uploads)
  BY <1>1, PassIs
<1>3. /\ p.at = "upload" /\ p.wanted = {}
      /\ UNCHANGED <<installed, owned, accepted, host, crossed>>
  BY <1>1 DEF NextUpload
<1>4. ASSUME NEW o \in Uploads, NEW h \in BlobsOf[o], Past(p, o, h)
      PROVE  h \in installed
  BY <1>1, <1>2, <1>3, <1>4 DEF BlobInv, UploadedIsKept, PassWell
<1>5. CASE p.todo = <<>>
  <2> DEFINE q == [p EXCEPT !.at = "push"]
  <2>1. pass' = [pass EXCEPT ![u] = q] BY <1>1, <1>5 DEF NextUpload, SetPass
  <2>2. /\ q \in PassRecords /\ q.at = "push" /\ q.batch = p.batch /\ q.todo = p.todo
        /\ q.taken = p.taken /\ q.blob = p.blob /\ q.wanted = p.wanted
    BY <1>2 DEF PassRecords, PassStages
  <2> HIDE DEF q
  <2>3. OwnBatch(u, q) /\ PassWell(q) BY <1>2, <1>3, <1>5, <2>2 DEF OwnBatch, PassWell
  <2>4. \A o, h : Past(q, o, h) => Past(p, o, h) BY <2>2 DEF Past
  <2> QED BY <1>1, <1>2, <1>3, <1>4, <2>1, <2>2, <2>3, <2>4, PassStep
<1>6. CASE p.todo # <<>>
  <2>1. PICK o : o = Head(p.todo) OBVIOUS
  <2>2. PICK wanted : wanted = IF o \in Drawings THEN Missing(o) ELSE BlobsOf[o] OBVIOUS
  <2> DEFINE q == [p EXCEPT !.todo = Tail(@), !.wanted = wanted]
  <2>3. pass' = [pass EXCEPT ![u] = q]
    BY <1>1, <1>6, <2>1, <2>2 DEF NextUpload, SetPass
  <2>4. /\ Tail(p.todo) \in Seq(Uploads) /\ o \in Uploads
        /\ ToSet(p.todo) = {o} \union ToSet(Tail(p.todo))
    BY <1>2, <1>6, <2>1, ToSetOfTail
  <2>5. wanted \in SUBSET NamedBlobs BY <2>2, <2>4 DEF Missing, NamedBlobs
  <2>6. /\ q \in PassRecords /\ q.at = "upload" /\ q.batch = p.batch
        /\ q.todo = Tail(p.todo)
        /\ q.taken = p.taken /\ q.blob = p.blob /\ q.wanted = wanted
    BY <1>2, <1>3, <2>4, <2>5 DEF PassRecords
  <2> HIDE DEF q
  <2>7. OwnBatch(u, q) /\ PassWell(q) BY <1>2, <1>3, <2>6 DEF OwnBatch, PassWell
  <2>8. ASSUME NEW a \in Uploads, NEW h \in BlobsOf[a], Past(q, a, h)
        PROVE  /\ Past(p, a, h) \/ h \in owned
               /\ h \in installed
    <3>1. a \in ToSet(p.batch) /\ a \notin ToSet(Tail(p.todo)) /\ h \notin wanted
      BY <2>6, <2>8 DEF Past
    <3>2. CASE a = o
      <4>1. Fetchable(h) BY <2>2, <3>1, <3>2 DEF Missing
      <4> QED BY <4>1 DEF Fetchable
    <3>3. CASE a # o
      <4>1. Past(p, a, h) BY <1>3, <2>4, <3>1, <3>3 DEF Past
      <4> QED BY <1>4, <4>1
    <3> QED BY <3>2, <3>3
  <2> QED BY <1>1, <1>2, <1>3, <2>3, <2>6, <2>7, <2>8, PassStep
<1> QED BY <1>5, <1>6

LEMMA ClaimBlobKeeps ==
  ASSUME BlobInv, NEW u \in Passes, NEW h \in NamedBlobs, ClaimBlob(u, h) PROVE BlobInv'
<1>1. PICK p : p = pass[u] OBVIOUS
<1>2. /\ p \in PassRecords /\ OwnBatch(u, p) /\ PassWell(p) /\ p.taken \subseteq ToSet(accepted)
  BY <1>1, PassIs
<1>3. /\ p.at = "upload" /\ UNCHANGED <<installed, accepted, host, crossed>>
  BY <1>1 DEF ClaimBlob
<1>4. CASE h \in owned \/ Cardinality(owned) < quota
  <2>1. PICK c \in BOOLEAN : c = (h \notin owned) OBVIOUS
  <2> DEFINE q == [p EXCEPT !.at = "install", !.wanted = @ \ {h}, !.blob = {h},
                            !.claimed = c]
  <2>2. owned' = owned \union {h} /\ pass' = [pass EXCEPT ![u] = q]
    BY <1>1, <1>4, <2>1 DEF ClaimBlob, SetPass
  <2>3. /\ q \in PassRecords /\ q.at = "install" /\ q.batch = p.batch /\ q.todo = p.todo
        /\ q.taken = p.taken /\ q.blob = {h} /\ q.wanted = p.wanted \ {h}
    BY <1>2 DEF PassRecords, PassStages
  <2> HIDE DEF q
  <2>4. OwnBatch(u, q) /\ PassWell(q) BY <1>2, <2>3 DEF OwnBatch, PassWell
  <2>5. ASSUME NEW o \in Uploads, NEW g \in BlobsOf[o], Past(q, o, g)
        PROVE  /\ Past(p, o, g) \/ g \in owned'
               /\ g \in installed \union q.blob
    <3>1. CASE g = h BY <2>2, <2>3, <3>1
    <3>2. CASE g # h
      <4>1. Past(p, o, g) BY <2>3, <2>5, <3>2 DEF Past
      <4> QED BY <1>1, <1>2, <1>3, <4>1 DEF BlobInv, UploadedIsKept, PassWell
    <3> QED BY <3>1, <3>2
  <2> QED BY <1>1, <1>2, <1>3, <2>2, <2>3, <2>4, <2>5, PassStep
<1>5. CASE ~(h \in owned \/ Cardinality(owned) < quota)
  <2>1. owned' = owned /\ StopPass(u) BY <1>5 DEF ClaimBlob
  <2> QED BY <1>3, <2>1, StopKeeps
<1> QED BY <1>4, <1>5

LEMMA PublishFileKeeps ==
  ASSUME BlobInv, NEW u \in Passes, PublishFile(u) PROVE BlobInv'
<1>1. PICK p : p = pass[u] OBVIOUS
<1>2. /\ p \in PassRecords /\ OwnBatch(u, p) /\ PassWell(p) /\ p.taken \subseteq ToSet(accepted)
  BY <1>1, PassIs
<1> DEFINE q == [p EXCEPT !.at = "upload", !.blob = {}, !.claimed = FALSE]
<1>3. /\ p.at = "install" /\ installed' = installed \union p.blob
      /\ pass' = [pass EXCEPT ![u] = q] /\ UNCHANGED <<owned, accepted, host, crossed>>
  BY <1>1 DEF PublishFile, SetPass
<1>4. /\ q \in PassRecords /\ q.at = "upload" /\ q.batch = p.batch /\ q.todo = p.todo
      /\ q.taken = p.taken /\ q.blob = {} /\ q.wanted = p.wanted
  BY <1>2 DEF PassRecords, PassStages
<1> HIDE DEF q
<1>5. OwnBatch(u, q) /\ PassWell(q) BY <1>2, <1>4 DEF OwnBatch, PassWell
<1>6. ASSUME NEW o \in Uploads, NEW h \in BlobsOf[o], Past(q, o, h)
      PROVE  Past(p, o, h) /\ h \in installed'
  <2>1. Past(p, o, h) BY <1>3, <1>4, <1>6 DEF Past
  <2> QED BY <1>1, <1>3, <2>1 DEF BlobInv, UploadedIsKept
<1> QED BY <1>1, <1>2, <1>3, <1>4, <1>5, <1>6, PassStep

LEMMA InstallFailsKeeps ==
  ASSUME BlobInv, NEW u \in Passes, InstallFails(u) PROVE BlobInv'
<1>1. PICK p : p = pass[u] OBVIOUS
<1>2. /\ p \in PassRecords /\ OwnBatch(u, p) /\ PassWell(p) /\ p.taken \subseteq ToSet(accepted)
  BY <1>1, PassIs
<1>3. p.at = "install" /\ UNCHANGED <<installed, owned, accepted, host, crossed>>
  BY <1>1 DEF InstallFails
<1>4. CASE p.claimed
  <2> DEFINE q == [p EXCEPT !.at = "release"]
  <2>1. pass' = [pass EXCEPT ![u] = q] BY <1>1, <1>4 DEF InstallFails, SetPass
  <2>2. /\ q \in PassRecords /\ q.at = "release" /\ q.batch = p.batch /\ q.todo = p.todo
        /\ q.taken = p.taken /\ q.blob = p.blob /\ q.wanted = p.wanted
    BY <1>2 DEF PassRecords, PassStages
  <2> HIDE DEF q
  <2>3. OwnBatch(u, q) /\ PassWell(q) BY <1>2, <2>2 DEF OwnBatch, PassWell
  <2>4. ASSUME NEW o \in Uploads, NEW h \in BlobsOf[o], Past(q, o, h)
        PROVE  Past(p, o, h) /\ h \in installed \union q.blob
    <3>1. Past(p, o, h) BY <1>3, <2>2, <2>4 DEF Past
    <3> QED BY <1>1, <2>2, <3>1 DEF BlobInv, UploadedIsKept
  <2> QED BY <1>1, <1>2, <1>3, <2>1, <2>2, <2>3, <2>4, PassStep
<1>5. CASE ~p.claimed
  <2>1. StopPass(u) BY <1>1, <1>5 DEF InstallFails
  <2> QED BY <1>3, <2>1, StopKeeps
<1> QED BY <1>4, <1>5

LEMMA CutKeeps ==
  ASSUME BlobInv, NEW u \in Passes, Cut(u) PROVE BlobInv'
<1>1. /\ StopPass(u) /\ UNCHANGED <<owned, accepted, host, crossed>>
      /\ installed \subseteq installed'
  BY DEF Cut
<1> QED BY <1>1, StopKeeps

LEMMA IsolationBreaksKeeps ==
  ASSUME BlobInv, NEW u \in Passes, IsolationBreaks(u) PROVE BlobInv'
<1>1. PICK p : p = pass[u] OBVIOUS
<1>2. /\ p \in PassRecords /\ OwnBatch(u, p) /\ PassWell(p) /\ p.taken \subseteq ToSet(accepted)
  BY <1>1, PassIs
<1> DEFINE q == [p EXCEPT !.todo = <<>>]
<1>3. /\ p.at = "isolate" /\ pass' = [pass EXCEPT ![u] = q]
      /\ UNCHANGED <<installed, owned, accepted, host, crossed>>
  BY <1>1 DEF IsolationBreaks, SetPass
<1>4. /\ q \in PassRecords /\ q.at = "isolate" /\ q.batch = p.batch /\ q.todo = <<>>
      /\ q.taken = p.taken /\ q.blob = p.blob
  <2>1. <<>> \in Seq(Uploads) OBVIOUS
  <2> QED BY <1>2, <1>3, <2>1 DEF PassRecords
<1> HIDE DEF q
<1>5. OwnBatch(u, q) /\ PassWell(q) BY <1>2, <1>3, <1>4, IdleIs DEF OwnBatch, PassWell
<1>6. ASSUME NEW o \in Uploads, NEW h \in BlobsOf[o], Past(q, o, h)
      PROVE  Past(p, o, h) /\ h \in installed \union q.blob
  <2>1. Past(p, o, h) BY <1>3, <1>4, <1>6 DEF Past
  <2> QED BY <1>1, <1>4, <2>1 DEF BlobInv, UploadedIsKept
<1> QED BY <1>1, <1>2, <1>3, <1>4, <1>5, <1>6, PassStep

-----------------------------------------------------------------------------
(* Steps of a replica *)

LEMMA HostIs ==
  ASSUME BlobInv, NEW d \in Hosts
  PROVE  /\ host[d] \in HostRecords /\ OwnQueue(d, host[d])
         /\ host[d].queue \in Seq(Uploads) /\ host[d].held \in SUBSET Uploads
         /\ accepted \in Seq(Uploads)
  BY DEF BlobInv, BlobTyped, HostRecords

LEMMA AttachKeeps ==
  ASSUME BlobInv, NEW o \in Uploads, Attach(o) PROVE BlobInv'
<1>1. PICK d : d = HostOf[o] OBVIOUS
<1>2. d \in Hosts BY <1>1, BlobsAssumption
<1>3. PICK r : r = host[d] OBVIOUS
<1>4. /\ r \in HostRecords /\ OwnQueue(d, r) /\ r.queue \in Seq(Uploads)
  BY <1>2, <1>3, HostIs
<1>5. /\ Append(r.queue, o) \in Seq(Uploads)
      /\ ToSet(Append(r.queue, o)) = ToSet(r.queue) \union {o}
  BY <1>4, ToSetOfAppend
<1> DEFINE n == [r EXCEPT !.queue = Append(@, o), !.has = @ \union BlobsOf[o]]
<1>6. n \in HostRecords /\ n.queue = Append(r.queue, o) /\ n.held = r.held
  <2>1. BlobsOf[o] \in SUBSET NamedBlobs BY DEF NamedBlobs
  <2> QED BY <1>4, <1>5, <2>1 DEF HostRecords
<1>7. /\ host' = [host EXCEPT ![d] = n]
      /\ UNCHANGED <<pass, accepted, owned, crossed, installed>>
  <2>1. host' = [host EXCEPT ![d].queue = Append(@, o), ![d].has = @ \union BlobsOf[o]]
    BY <1>1 DEF Attach
  <2>2. host' = [host EXCEPT ![d] = n]
    BY <1>2, <1>3, <2>1, HostIs DEF BlobInv, BlobTyped, HostRecords
  <2> QED BY <2>2 DEF Attach
<1> HIDE DEF n
<1>8. OwnQueue(d, n) BY <1>1, <1>4, <1>5, <1>6 DEF OwnQueue
<1>9. \A a \in ToSet(host[d].queue) \ (host[d].held \union ToSet(accepted)) :
          a \in ToSet(n.queue) \ n.held
  BY <1>3, <1>5, <1>6
<1> QED BY <1>2, <1>6, <1>7, <1>8, <1>9, HostStep

LEMMA RetryHeldKeeps ==
  ASSUME BlobInv, NEW d \in Hosts, RetryHeld(d) PROVE BlobInv'
<1>1. PICK r : r = host[d] OBVIOUS
<1>2. r \in HostRecords /\ OwnQueue(d, r) BY <1>1, HostIs
<1> DEFINE n == [r EXCEPT !.held = {}]
<1>3. /\ host' = [host EXCEPT ![d] = n]
      /\ UNCHANGED <<pass, accepted, owned, crossed, installed>>
  BY <1>1 DEF RetryHeld
<1>4. n \in HostRecords /\ n.queue = r.queue /\ n.held = {} BY <1>2 DEF HostRecords
<1> HIDE DEF n
<1>5. OwnQueue(d, n) BY <1>2, <1>4 DEF OwnQueue
<1> QED BY <1>1, <1>3, <1>4, <1>5, HostStep

LEMMA JoinWorkspaceKeeps ==
  ASSUME BlobInv, NEW d \in Hosts, JoinWorkspace(d) PROVE BlobInv'
<1>1. PICK r : r = host[d] OBVIOUS
<1>2. r \in HostRecords /\ OwnQueue(d, r) /\ accepted \in Seq(Uploads) BY <1>1, HostIs
<1>3. PICK blobs : blobs = UNION {BlobsOf[o] : o \in ToSet(accepted)} OBVIOUS
<1> DEFINE n == [r EXCEPT !.bound = TRUE, !.cursor = Len(accepted), !.has = @ \union blobs]
<1>4. blobs \in SUBSET NamedBlobs /\ Len(accepted) \in Nat
  BY <1>2, <1>3, ToSetIs DEF NamedBlobs
<1>5. n \in HostRecords /\ n.queue = r.queue /\ n.held = r.held
  BY <1>2, <1>4 DEF HostRecords
<1>6. /\ host' = [host EXCEPT ![d] = n]
      /\ UNCHANGED <<pass, accepted, owned, crossed, installed>>
  <2>1. host' = [host EXCEPT ![d].bound = TRUE, ![d].cursor = Len(accepted),
                             ![d].has = @ \union blobs]
    BY <1>3 DEF JoinWorkspace
  <2>2. host' = [host EXCEPT ![d] = n]
    BY <1>1, <2>1, HostIs DEF BlobInv, BlobTyped, HostRecords
  <2> QED BY <2>2 DEF JoinWorkspace
<1> HIDE DEF n
<1>7. OwnQueue(d, n) BY <1>2, <1>5 DEF OwnQueue
<1> QED BY <1>1, <1>5, <1>6, <1>7, HostStep

\* A replica that takes operations out of its queue.
LEMMA WithoutOpsIs ==
  ASSUME BlobInv, NEW d \in Hosts, NEW ops
  PROVE  \E r \in HostRecords :
            /\ WithoutOps(d, ops) = [host EXCEPT ![d] = r]
            /\ OwnQueue(d, r) /\ r.bound = host[d].bound /\ r.cursor = host[d].cursor
            /\ r.has = host[d].has
            /\ ToSet(r.queue) = ToSet(host[d].queue) \ ops
            /\ r.held = host[d].held \ ops
<1>1. PICK s : s = host[d] OBVIOUS
<1>2. s \in HostRecords /\ OwnQueue(d, s) /\ s.queue \in Seq(Uploads) BY <1>1, HostIs
<1>3. PICK row : row = Without(s.queue, ops) OBVIOUS
<1>4. row \in Seq(Uploads) /\ ToSet(row) = ToSet(s.queue) \ ops BY <1>2, <1>3, WithoutIs
<1> DEFINE r == [s EXCEPT !.queue = row, !.held = @ \ ops]
<1>5. /\ r \in HostRecords /\ r.queue = row /\ r.held = s.held \ ops
      /\ r.bound = s.bound /\ r.cursor = s.cursor /\ r.has = s.has
  BY <1>2, <1>4 DEF HostRecords
<1>6. WithoutOps(d, ops) = [host EXCEPT ![d] = r]
  <2>1. WithoutOps(d, ops) = [host EXCEPT ![d].queue = Without(@, ops), ![d].held = @ \ ops]
    BY DEF WithoutOps
  <2> QED BY <1>1, <1>3, <2>1, HostIs DEF BlobInv, BlobTyped, HostRecords
<1> HIDE DEF r
<1>7. OwnQueue(d, r) BY <1>2, <1>4, <1>5 DEF OwnQueue
<1> QED BY <1>1, <1>4, <1>5, <1>6, <1>7

LEMMA PullUploadKeeps ==
  ASSUME BlobInv, NEW d \in Hosts, PullUpload(d) PROVE BlobInv'
<1>1. PICK o : o = accepted[host[d].cursor + 1] OBVIOUS
<1>2. PICK c : c = host[d].cursor OBVIOUS
<1>3. o \in ToSet(accepted) /\ o \in Uploads /\ c \in Nat
  <2>1. c \in Nat /\ c < Len(accepted) /\ accepted \in Seq(Uploads)
    BY <1>2, HostIs DEF PullUpload, HostRecords
  <2>2. c + 1 \in 1 .. Len(accepted) BY <2>1
  <2> QED BY <1>1, <1>2, <2>1, <2>2, ToSetIs
<1>4. PICK r \in HostRecords :
            /\ WithoutOps(d, {o}) = [host EXCEPT ![d] = r]
            /\ OwnQueue(d, r) /\ r.bound = host[d].bound /\ r.cursor = host[d].cursor
            /\ r.has = host[d].has
            /\ ToSet(r.queue) = ToSet(host[d].queue) \ {o}
            /\ r.held = host[d].held \ {o}
  BY WithoutOpsIs
<1> DEFINE n == [r EXCEPT !.cursor = c + 1, !.has = @ \union BlobsOf[o]]
<1>5. n \in HostRecords /\ n.queue = r.queue /\ n.held = r.held
  <2>1. BlobsOf[o] \in SUBSET NamedBlobs BY <1>3 DEF NamedBlobs
  <2>2. c + 1 \in Nat BY <1>3
  <2>3. r.has \union BlobsOf[o] \in SUBSET NamedBlobs BY <2>1 DEF HostRecords
  <2> QED BY <2>2, <2>3 DEF HostRecords
<1>6. /\ host' = [host EXCEPT ![d] = n]
      /\ UNCHANGED <<pass, accepted, owned, crossed, installed>>
  <2>1. PICK g : g = [host EXCEPT ![d] = r] OBVIOUS
  <2>2. host' = [g EXCEPT ![d].cursor = @ + 1, ![d].has = @ \union BlobsOf[o]]
    BY <1>1, <1>4, <2>1 DEF PullUpload
  <2>3. g \in [Hosts -> HostRecords] /\ g[d] = r BY <1>4, <2>1 DEF BlobInv, BlobTyped
  <2>4. host' = [g EXCEPT ![d] = n] BY <1>2, <1>4, <2>2, <2>3 DEF HostRecords
  <2>5. [g EXCEPT ![d] = n] = [host EXCEPT ![d] = n] BY <2>1
  <2> QED BY <2>4, <2>5 DEF PullUpload
<1> HIDE DEF n
<1>7. OwnQueue(d, n) BY <1>4, <1>5 DEF OwnQueue
<1>8. \A a \in ToSet(host[d].queue) \ (host[d].held \union ToSet(accepted)) :
          a \in ToSet(n.queue) \ n.held
  BY <1>3, <1>4, <1>5
<1> QED BY <1>5, <1>6, <1>7, <1>8, HostStep

-----------------------------------------------------------------------------
(* Pushing *)

LEMMA TakenIs ==
  ASSUME BlobInv, NEW ops \in Seq(Uploads)
  PROVE  /\ Taken(ops) \in Seq(Uploads)
         /\ ToSet(Taken(ops)) = ToSet(accepted) \union ToSet(ops)
<1>1. accepted \in Seq(Uploads) BY DEF BlobInv, BlobTyped
<1>2. PICK row : row = Without(ops, ToSet(accepted)) OBVIOUS
<1>3. row \in Seq(Uploads) /\ ToSet(row) = ToSet(ops) \ ToSet(accepted) BY <1>2, WithoutIs
<1>4. accepted \o row \in Seq(Uploads) /\ ToSet(accepted \o row) = ToSet(accepted) \union ToSet(row)
  BY <1>1, <1>3, ToSetOfJoin
<1> QED BY <1>2, <1>3, <1>4 DEF Taken

\* What a pass pushes it takes for uploaded.
LEMMA BatchIsPast ==
  ASSUME BlobInv, NEW u \in Passes, pass[u].at \in {"push", "isolate"},
         NEW o \in ToSet(pass[u].batch), NEW h
  PROVE  Past(pass[u], o, h)
<1>1. CASE pass[u].at = "isolate" BY <1>1 DEF Past
<1>2. CASE pass[u].at = "push"
  <2>1. pass[u].todo = <<>> /\ pass[u].wanted = {} BY <1>2, PassIs DEF PassWell
  <2>2. o \notin ToSet(pass[u].todo) BY <2>1, IdleIs
  <2> QED BY <2>1, <2>2 DEF Past
<1> QED BY <1>1, <1>2

\* A step of a pass at the server's log: what it adds to the log, holds or
\* acknowledges is of its batch.
LEMMA PushStep ==
  ASSUME BlobInv, NEW u \in Passes, pass[u].at \in {"push", "isolate"},
         NEW q \in PassRecords, NEW r \in HostRecords, NEW d, d = u[1],
         pass' = [pass EXCEPT ![u] = q], host' = [host EXCEPT ![d] = r],
         UNCHANGED <<owned, crossed, installed>>,
         accepted' \in Seq(Uploads), ToSet(accepted) \subseteq ToSet(accepted'),
         ToSet(accepted') \ ToSet(accepted) \subseteq ToSet(pass[u].batch),
         OwnQueue(d, r), OwnBatch(u, q), PassWell(q), q.taken \subseteq ToSet(accepted'),
         ToSet(q.batch) \subseteq ToSet(pass[u].batch), q.at \in {"idle", "isolate"},
         \A o \in (ToSet(host[d].queue) \ (host[d].held \union ToSet(accepted)))
                      \ ToSet(pass[u].batch) : o \in ToSet(r.queue) \ r.held
  PROVE  BlobInv'
<1>1. d \in Hosts BY PassIs
<1>2. BlobTyped' BY <1>1 DEF BlobInv, BlobTyped
<1>3. /\ host'[d] = r /\ \A c \in Hosts : c # d => host'[c] = host[c]
      /\ pass'[u] = q /\ \A v \in Passes : v # u => pass'[v] = pass[v]
  BY <1>1 DEF BlobInv, BlobTyped
<1>4. ASSUME NEW c \in Hosts PROVE OwnQueue(c, host'[c])
  <2>1. CASE c = d BY <1>3, <2>1
  <2>2. CASE c # d BY <1>3, <2>2 DEF BlobInv
  <2> QED BY <2>1, <2>2
<1>5. ASSUME NEW v \in Passes
      PROVE  /\ OwnBatch(v, pass'[v]) /\ PassWell(pass'[v])
             /\ pass'[v].taken \subseteq ToSet(accepted')
  <2>1. CASE v = u BY <1>3, <2>1
  <2>2. CASE v # u
    <3>1. pass'[v] = pass[v] BY <1>3, <2>2
    <3> QED BY <3>1, PassIs
  <2> QED BY <2>1, <2>2
<1>6. ASSUME NEW o \in ToSet(pass[u].batch), NEW h \in BlobsOf[o], o \in Uploads
      PROVE  Past(pass[u], o, h) /\ h \in installed /\ \A c : ~Fresh(c, o, h)
  <2>1. Past(pass[u], o, h) BY BatchIsPast
  <2>2. pass[u].blob = {} BY PassIs DEF PassWell
  <2>3. h \in installed BY <1>6, <2>1, <2>2 DEF BlobInv, UploadedIsKept
  <2> QED BY <2>1, <2>3 DEF Fresh
<1>7. ASSUME NEW c \in Hosts, NEW o \in Uploads, NEW h \in BlobsOf[o], Fresh(c, o, h)
      PROVE  o \in ToSet(host'[c].queue) \ (host'[c].held \union ToSet(accepted'))
  <2>1. o \in ToSet(host[c].queue) \ (host[c].held \union ToSet(accepted))
    BY <1>7 DEF Fresh
  <2>2. o \notin ToSet(pass[u].batch) BY <1>6, <1>7
  <2>3. o \notin ToSet(accepted') BY <2>1, <2>2
  <2>4. CASE c = d BY <1>3, <2>1, <2>2, <2>3, <2>4
  <2>5. CASE c # d BY <1>3, <2>1, <2>3, <2>5
  <2> QED BY <2>4, <2>5
<1>8. ASSUME NEW v \in Passes, NEW o \in Uploads, NEW h \in BlobsOf[o],
             Past(pass'[v], o, h)
      PROVE  /\ Past(pass[v], o, h) \/ h \in owned'
             /\ h \in installed' \union pass'[v].blob
  <2>1. CASE v = u
    <3>1. o \in ToSet(pass[u].batch) BY <1>3, <1>8, <2>1 DEF Past
    <3> QED BY <1>6, <2>1, <3>1
  <2>2. CASE v # u
    <3>1. Past(pass[v], o, h) /\ pass'[v] = pass[v] BY <1>3, <1>8, <2>2
    <3>2. h \in installed \union pass[v].blob BY <3>1 DEF BlobInv, UploadedIsKept
    <3> QED BY <3>1, <3>2
  <2> QED BY <2>1, <2>2
<1>9. ASSUME NEW o \in ToSet(accepted') \ ToSet(accepted)
      PROVE  /\ o \in Uploads
             /\ \A h \in BlobsOf[o] :
                    h \in installed' /\ \E v \in Passes : Past(pass[v], o, h)
  <2>1. o \in Uploads BY ToSetIs
  <2> QED BY <1>6, <2>1
<1> QED BY <1>2, <1>4, <1>5, <1>7, <1>8, <1>9, StepKeeps

\* The same with the replica as it was.
LEMMA HostAsItWas ==
  ASSUME BlobInv, NEW d \in Hosts PROVE host = [host EXCEPT ![d] = host[d]]
  BY DEF BlobInv, BlobTyped

LEMMA PushKeeps ==
  ASSUME BlobInv, NEW u \in Passes, Push(u) PROVE BlobInv'
<1>1. PICK d : d = u[1] OBVIOUS
<1>2. PICK p : p = pass[u] OBVIOUS
<1>3. /\ p.at = "push" /\ UNCHANGED <<owned, crossed, installed>> BY <1>2 DEF Push
<1>4. /\ p \in PassRecords /\ OwnBatch(u, p) /\ PassWell(p) /\ p.batch \in Seq(Uploads)
      /\ p.taken \subseteq ToSet(accepted) /\ d \in Hosts /\ accepted \in Seq(Uploads)
      /\ host[d] \in HostRecords /\ OwnQueue(d, host[d])
  BY <1>1, <1>2, PassIs, HostIs
<1>5. CASE \A o \in ToSet(p.batch) : Valid(o)
  <2>1. accepted' = Taken(p.batch) /\ host' = WithoutOps(d, ToSet(p.batch)) /\ StopPass(u)
    BY <1>1, <1>2, <1>5 DEF Push
  <2>2. PICK log : log = Taken(p.batch) OBVIOUS
  <2>3. log \in Seq(Uploads) /\ ToSet(log) = ToSet(accepted) \union ToSet(p.batch)
    BY <1>4, <2>2, TakenIs
  <2>4. PICK r \in HostRecords :
            /\ WithoutOps(d, ToSet(p.batch)) = [host EXCEPT ![d] = r]
            /\ OwnQueue(d, r) /\ r.bound = host[d].bound /\ r.cursor = host[d].cursor
            /\ r.has = host[d].has
            /\ ToSet(r.queue) = ToSet(host[d].queue) \ ToSet(p.batch)
            /\ r.held = host[d].held \ ToSet(p.batch)
    BY <1>4, WithoutOpsIs
  <2>5. pass' = [pass EXCEPT ![u] = IdlePass] /\ accepted' = log
    BY <2>1, <2>2 DEF StopPass, SetPass
  <2>6. \A o \in (ToSet(host[d].queue) \ (host[d].held \union ToSet(accepted)))
                      \ ToSet(p.batch) : o \in ToSet(r.queue) \ r.held
    BY <2>4
  <2> QED BY <1>1, <1>2, <1>3, <2>1, <2>3, <2>4, <2>5, <2>6, IdleIs, IdleFits, PushStep
<1>6. CASE ~\A o \in ToSet(p.batch) : Valid(o)
  <2>1. UNCHANGED <<accepted, host>> BY <1>2, <1>6 DEF Push
  <2>2. CASE u[2] = "exit"
    <3>1. StopPass(u) BY <1>2, <1>6, <2>2 DEF Push
    <3> QED BY <1>3, <2>1, <3>1, StopKeeps
  <2>3. CASE u[2] # "exit"
    <3> DEFINE q == [p EXCEPT !.at = "isolate", !.todo = p.batch]
    <3>1. pass' = [pass EXCEPT ![u] = q] BY <1>2, <1>6, <2>3 DEF Push, SetPass
    <3>2. /\ q \in PassRecords /\ q.at = "isolate" /\ q.batch = p.batch /\ q.todo = p.batch
          /\ q.taken = p.taken /\ q.blob = p.blob
      BY <1>4 DEF PassRecords, PassStages
    <3> HIDE DEF q
    <3>3. OwnBatch(u, q) /\ PassWell(q) BY <1>3, <1>4, <3>2 DEF OwnBatch, PassWell
    <3>4. host' = [host EXCEPT ![d] = host[d]] BY <1>4, <2>1, HostAsItWas
    <3> QED BY <1>1, <1>2, <1>3, <1>4, <2>1, <3>1, <3>2, <3>3, <3>4, PushStep
  <2> QED BY <2>2, <2>3
<1> QED BY <1>5, <1>6

LEMMA PushUnansweredKeeps ==
  ASSUME BlobInv, NEW u \in Passes, PushUnanswered(u) PROVE BlobInv'
<1>1. PICK d : d = u[1] OBVIOUS
<1>2. PICK p : p = pass[u] OBVIOUS
<1>3. /\ p.at = "push" /\ UNCHANGED <<owned, crossed, installed, host>>
      /\ accepted' = Taken(p.batch) /\ StopPass(u)
  BY <1>2 DEF PushUnanswered
<1>4. /\ p.batch \in Seq(Uploads) /\ d \in Hosts
      /\ host[d] \in HostRecords /\ OwnQueue(d, host[d])
  BY <1>1, <1>2, PassIs, HostIs
<1>5. PICK log : log = Taken(p.batch) OBVIOUS
<1>6. log \in Seq(Uploads) /\ ToSet(log) = ToSet(accepted) \union ToSet(p.batch)
  BY <1>4, <1>5, TakenIs
<1>7. pass' = [pass EXCEPT ![u] = IdlePass] /\ accepted' = log
  BY <1>3, <1>5 DEF StopPass, SetPass
<1>8. host' = [host EXCEPT ![d] = host[d]] BY <1>3, <1>4, HostAsItWas
<1> QED BY <1>1, <1>2, <1>3, <1>4, <1>6, <1>7, <1>8, IdleIs, IdleFits, PushStep

LEMMA PushAloneKeeps ==
  ASSUME BlobInv, NEW u \in Passes, PushAlone(u) PROVE BlobInv'
<1>1. PICK d : d = u[1] OBVIOUS
<1>2. PICK p : p = pass[u] OBVIOUS
<1>3. PICK o : o = Head(p.todo) OBVIOUS
<1>4. /\ p.at = "isolate" /\ p.todo # <<>> /\ UNCHANGED <<owned, crossed, installed>>
  BY <1>2 DEF PushAlone
<1>5. /\ p \in PassRecords /\ OwnBatch(u, p) /\ PassWell(p) /\ p.todo \in Seq(Uploads)
      /\ p.taken \subseteq ToSet(accepted) /\ d \in Hosts /\ accepted \in Seq(Uploads)
      /\ host[d] \in HostRecords /\ OwnQueue(d, host[d]) /\ host[d].held \in SUBSET Uploads
  BY <1>1, <1>2, PassIs, HostIs
<1>6. /\ o \in Uploads /\ Tail(p.todo) \in Seq(Uploads) /\ o \in ToSet(p.batch)
      /\ ToSet(Tail(p.todo)) \subseteq ToSet(p.batch)
  <2>1. /\ Tail(p.todo) \in Seq(Uploads) /\ o \in Uploads
        /\ ToSet(p.todo) = {o} \union ToSet(Tail(p.todo))
    BY <1>3, <1>4, <1>5, ToSetOfTail
  <2> QED BY <1>4, <1>5, <2>1 DEF PassWell
<1>7. CASE Valid(o)
  <2> DEFINE q == [p EXCEPT !.todo = Tail(@), !.taken = @ \union {o}]
  <2>1. /\ accepted' = Taken(<<o>>) /\ host' = host /\ pass' = [pass EXCEPT ![u] = q]
    BY <1>2, <1>3, <1>7 DEF PushAlone, SetPass
  <2>2. /\ q \in PassRecords /\ q.at = "isolate" /\ q.batch = p.batch
        /\ q.todo = Tail(p.todo) /\ q.taken = p.taken \union {o} /\ q.blob = p.blob
    BY <1>4, <1>5, <1>6 DEF PassRecords
  <2> HIDE DEF q
  <2>3. OwnBatch(u, q) /\ PassWell(q) BY <1>4, <1>5, <1>6, <2>2 DEF OwnBatch, PassWell
  <2>4. PICK log : log = Taken(<<o>>) OBVIOUS
  <2>5. log \in Seq(Uploads) /\ ToSet(log) = ToSet(accepted) \union {o}
    <3>1. <<o>> \in Seq(Uploads) /\ ToSet(<<o>>) = {o} BY <1>6 DEF ToSet
    <3> QED BY <2>4, <3>1, TakenIs
  <2>6. host' = [host EXCEPT ![d] = host[d]] BY <1>5, <2>1, HostAsItWas
  <2>7. accepted' = log BY <2>1, <2>4
  <2> QED BY <1>1, <1>2, <1>4, <1>5, <1>6, <2>1, <2>2, <2>3, <2>5, <2>6, <2>7, PushStep
<1>8. CASE ~Valid(o)
  <2> DEFINE q == [p EXCEPT !.todo = Tail(@)]
  <2>1. PICK s : s = host[d] OBVIOUS
  <2>2. PICK held : held = IF o \in ToSet(s.queue) THEN s.held \union {o} ELSE s.held
    OBVIOUS
  <2> DEFINE r == [s EXCEPT !.held = held]
  <2>3. /\ accepted' = accepted /\ pass' = [pass EXCEPT ![u] = q]
        /\ host' = [host EXCEPT ![d] = r]
    BY <1>1, <1>2, <1>3, <1>8, <2>1, <2>2 DEF PushAlone, SetPass
  <2>4. /\ q \in PassRecords /\ q.at = "isolate" /\ q.batch = p.batch
        /\ q.todo = Tail(p.todo) /\ q.taken = p.taken /\ q.blob = p.blob
    BY <1>4, <1>5, <1>6 DEF PassRecords
  <2>5. r \in HostRecords /\ r.queue = s.queue /\ r.held = held
    BY <1>5, <1>6, <2>1, <2>2 DEF HostRecords
  <2> HIDE DEF q, r
  <2>6. OwnBatch(u, q) /\ PassWell(q) BY <1>4, <1>5, <1>6, <2>4 DEF OwnBatch, PassWell
  <2>7. OwnQueue(d, r) BY <1>5, <2>1, <2>5 DEF OwnQueue
  <2>8. \A a \in (ToSet(host[d].queue) \ (host[d].held \union ToSet(accepted)))
                      \ ToSet(p.batch) : a \in ToSet(r.queue) \ r.held
    BY <1>6, <2>1, <2>2, <2>5
  <2> QED BY <1>1, <1>2, <1>4, <1>5, <2>3, <2>4, <2>5, <2>6, <2>7, <2>8, PushStep
<1> QED BY <1>7, <1>8

LEMMA IsolatedKeeps ==
  ASSUME BlobInv, NEW u \in Passes, Isolated(u) PROVE BlobInv'
<1>1. PICK d : d = u[1] OBVIOUS
<1>2. PICK p : p = pass[u] OBVIOUS
<1>3. /\ p.at = "isolate" /\ UNCHANGED <<owned, crossed, installed, accepted>>
      /\ host' = WithoutOps(d, p.taken) /\ pass' = [pass EXCEPT ![u] = IdlePass]
  BY <1>1, <1>2 DEF Isolated, StopPass, SetPass
<1>4. d \in Hosts /\ p.taken \subseteq ToSet(accepted) /\ accepted \in Seq(Uploads)
  BY <1>1, <1>2, PassIs, HostIs
<1>5. PICK r \in HostRecords :
          /\ WithoutOps(d, p.taken) = [host EXCEPT ![d] = r]
          /\ OwnQueue(d, r) /\ r.bound = host[d].bound /\ r.cursor = host[d].cursor
          /\ r.has = host[d].has
          /\ ToSet(r.queue) = ToSet(host[d].queue) \ p.taken
          /\ r.held = host[d].held \ p.taken
  BY <1>4, WithoutOpsIs
<1>6. \A o \in (ToSet(host[d].queue) \ (host[d].held \union ToSet(accepted)))
                    \ ToSet(p.batch) : o \in ToSet(r.queue) \ r.held
  BY <1>4, <1>5
<1> QED BY <1>1, <1>2, <1>3, <1>4, <1>5, <1>6, IdleIs, IdleFits, PushStep

LEMMA OfferWorkspaceKeeps ==
  ASSUME BlobInv, NEW u \in Passes, OfferWorkspace(u) PROVE BlobInv'
<1>1. PICK d : d = u[1] OBVIOUS
<1>2. PICK p : p = pass[u] OBVIOUS
<1>3. /\ p.at = "push" /\ StopPass(u) /\ UNCHANGED <<owned, crossed, installed>>
      /\ pass' = [pass EXCEPT ![u] = IdlePass]
  BY <1>2 DEF OfferWorkspace, StopPass, SetPass
<1>4. d \in Hosts /\ p.batch \in Seq(Uploads) BY <1>1, <1>2, PassIs
<1>5. CASE accepted = <<>> /\ \A o \in ToSet(p.batch) : Valid(o)
  <2>1. PICK r \in HostRecords :
            /\ WithoutOps(d, ToSet(p.batch)) = [host EXCEPT ![d] = r]
            /\ OwnQueue(d, r) /\ r.bound = host[d].bound /\ r.cursor = host[d].cursor
            /\ r.has = host[d].has
            /\ ToSet(r.queue) = ToSet(host[d].queue) \ ToSet(p.batch)
            /\ r.held = host[d].held \ ToSet(p.batch)
    BY <1>4, WithoutOpsIs
  <2> DEFINE n == [r EXCEPT !.bound = TRUE, !.cursor = Len(p.batch)]
  <2>2. n \in HostRecords /\ n.queue = r.queue /\ n.held = r.held
    <3>1. Len(p.batch) \in Nat BY <1>4
    <3> QED BY <3>1 DEF HostRecords
  <2>3. host' = [host EXCEPT ![d] = n]
    <3>1. PICK g : g = [host EXCEPT ![d] = r] OBVIOUS
    <3>2. host' = [g EXCEPT ![d].bound = TRUE, ![d].cursor = Len(p.batch)]
      BY <1>1, <1>2, <1>5, <2>1, <3>1 DEF OfferWorkspace
    <3>3. g \in [Hosts -> HostRecords] /\ g[d] = r
      BY <1>4, <2>1, <3>1 DEF BlobInv, BlobTyped
    <3>4. host' = [g EXCEPT ![d] = n] BY <1>4, <2>1, <3>2, <3>3 DEF HostRecords
    <3>5. [g EXCEPT ![d] = n] = [host EXCEPT ![d] = n] BY <3>1
    <3> QED BY <3>4, <3>5
  <2> HIDE DEF n
  <2>4. OwnQueue(d, n) BY <2>1, <2>2 DEF OwnQueue
  <2>5. accepted' = p.batch /\ ToSet(accepted) = {} BY <1>2, <1>5, IdleIs DEF OfferWorkspace
  <2>6. \A o \in (ToSet(host[d].queue) \ (host[d].held \union ToSet(accepted)))
                      \ ToSet(p.batch) : o \in ToSet(n.queue) \ n.held
    BY <2>1, <2>2
  <2> QED BY <1>1, <1>2, <1>3, <1>4, <2>2, <2>3, <2>4, <2>5, <2>6, IdleIs, IdleFits, PushStep
<1>6. CASE ~(accepted = <<>> /\ \A o \in ToSet(p.batch) : Valid(o))
  <2>1. UNCHANGED <<accepted, host>> BY <1>2, <1>6 DEF OfferWorkspace
  <2> QED BY <1>3, <2>1, StopKeeps
<1> QED BY <1>5, <1>6

-----------------------------------------------------------------------------
(* Taking a row back *)

\* A row is given up only for an operation that brings the blob again, or the
\* blob is one of the excepted.
LEMMA ReleaseBlobKeeps ==
  ASSUME BlobInv, NEW u \in Passes, ReleaseBlob(u) PROVE BlobInv'
<1>1. PICK d : d = u[1] OBVIOUS
<1>2. PICK p : p = pass[u] OBVIOUS
<1>3. /\ UNCHANGED <<installed, accepted, host>> /\ owned' = owned \ p.blob
      /\ crossed' = IF Alone(u) /\ p.blob \subseteq Unsent(d) THEN crossed
                    ELSE crossed \union p.blob
      /\ pass' = [pass EXCEPT ![u] = IdlePass]
  BY <1>1, <1>2 DEF ReleaseBlob, StopPass, SetPass
<1>4. /\ d \in Hosts /\ host[d].queue \in Seq(Uploads) /\ OwnQueue(d, host[d])
  BY <1>1, PassIs
<1>5. BlobTyped' BY <1>3, IdleIs DEF BlobInv, BlobTyped
<1>6. /\ pass'[u] = IdlePass /\ \A v \in Passes : v # u => pass'[v] = pass[v]
  BY <1>3 DEF BlobInv, BlobTyped
<1>7. \A v \in Passes : \A o, h : Past(pass'[v], o, h) => v # u /\ Past(pass[v], o, h)
  BY <1>6, IdleFits
<1>8. ASSUME NEW h, Kept(h) PROVE Kept(h)'
  <2>1. CASE \E c \in Hosts, o \in Uploads : Fresh(c, o, h)
    <3>1. PICK c \in Hosts : \E o \in Uploads : Fresh(c, o, h) BY <2>1
    <3>2. PICK o \in Uploads : Fresh(c, o, h) BY <3>1
    <3>3. \A v \in Passes : ~(Past(pass[v], o, h))' BY <1>7, <3>2 DEF Fresh, Past
    <3>4. Fresh(c, o, h)' BY <1>3, <3>2, <3>3 DEF Fresh
    <3> QED BY <3>4 DEF Kept
  <2>2. CASE h \in crossed \/ h \in owned \ p.blob BY <1>3, <2>2 DEF Kept
  <2>3. CASE h \in p.blob /\ ~(Alone(u) /\ p.blob \subseteq Unsent(d))
    BY <1>3, <2>3 DEF Kept
  <2>4. CASE h \in p.blob /\ Alone(u) /\ p.blob \subseteq Unsent(d)
    <3>1. PICK o \in ToSet(Pending(d)) \ ToSet(accepted) : h \in BlobsOf[o]
      BY <2>4 DEF Unsent
    <3>2. o \in ToSet(host[d].queue) \ (host[d].held \union ToSet(accepted)) /\ o \in Uploads
      BY <1>4, <3>1, PendingIs, ToSetIs
    <3>3. HostOf[o] = d BY <1>4, <3>2 DEF OwnQueue
    <3>4. ASSUME NEW v \in Passes PROVE ~Past(pass'[v], o, h)
      <4>1. CASE v = u BY <1>7, <4>1
      <4>2. CASE v # u /\ v[1] = d
        <5>1. pass[v].at = "idle" BY <1>1, <2>4, <4>2 DEF Alone, Resting
        <5>2. ToSet(pass[v].batch) = {} BY <5>1, PassIs, IdleIs DEF PassWell
        <5> QED BY <1>7, <5>2 DEF Past
      <4>3. CASE v[1] # d
        <5>1. o \notin ToSet(pass[v].batch) BY <3>3, <4>3, PassIs DEF OwnBatch
        <5> QED BY <1>7, <5>1 DEF Past
      <4> QED BY <4>1, <4>2, <4>3
    <3>5. \A v \in Passes : ~(Past(pass[v], o, h))' BY <3>4 DEF Past
    <3>6. Fresh(d, o, h)' BY <1>3, <3>1, <3>2, <3>5 DEF Fresh
    <3> QED BY <1>4, <3>2, <3>6 DEF Kept
  <2> QED BY <1>8, <2>1, <2>2, <2>3, <2>4 DEF Kept
<1>9. AcceptedIsKept' BY <1>3, <1>8 DEF BlobInv, AcceptedIsKept
<1>10. UploadedIsKept'
  <2> SUFFICES ASSUME NEW v \in Passes, NEW o \in Uploads, NEW h \in BlobsOf[o],
                      Past(pass'[v], o, h)
               PROVE  Kept(h)' /\ h \in installed' \union pass'[v].blob
    BY DEF UploadedIsKept, Past
  <2>1. v # u /\ Past(pass[v], o, h) BY <1>7
  <2>2. Kept(h) /\ h \in installed \union pass[v].blob
    BY <2>1 DEF BlobInv, UploadedIsKept
  <2> QED BY <1>3, <1>6, <1>8, <2>1, <2>2
<1>11. \A c \in Hosts : OwnQueue(c, host[c])' BY <1>3 DEF BlobInv, OwnQueue
<1>12. ASSUME NEW v \in Passes
       PROVE  OwnBatch(v, pass'[v]) /\ PassWell(pass'[v]) /\ pass'[v].taken \subseteq ToSet(accepted)
  <2>1. CASE v = u BY <1>6, <2>1, IdleIs, IdleFits
  <2>2. CASE v # u
    <3>1. pass'[v] = pass[v] BY <1>6, <2>2
    <3> QED BY <3>1, PassIs
  <2> QED BY <2>1, <2>2
<1>13. \A v \in Passes : (OwnBatch(v, pass[v]) /\ PassWell(pass[v]) /\ TakenIsAccepted(pass[v]))'
  BY <1>3, <1>12 DEF OwnBatch, PassWell, TakenIsAccepted
<1> QED BY <1>5, <1>9, <1>10, <1>11, <1>13 DEF BlobInv

-----------------------------------------------------------------------------

LEMMA BlobInitKeeps == BlobInit => BlobInv
<1> SUFFICES ASSUME BlobInit PROVE BlobInv OBVIOUS
<1>1. /\ accepted = <<>> /\ host = [d \in Hosts |-> NewHost]
      /\ pass = [u \in Passes |-> IdlePass]
  BY DEF BlobInit
<1>2. NewHost \in HostRecords /\ NewHost.queue = <<>> BY DEF NewHost, HostRecords
<1>3. <<>> \in Seq(Uploads) /\ ToSet(<<>>) = {} BY IdleIs
<1>4. BlobTyped BY <1>1, <1>2, <1>3, IdleIs DEF BlobTyped
<1>5. \A d \in Hosts : OwnQueue(d, host[d]) BY <1>1, <1>2, <1>3 DEF OwnQueue
<1>6. \A u \in Passes : OwnBatch(u, pass[u]) /\ PassWell(pass[u]) /\ TakenIsAccepted(pass[u])
  BY <1>1, IdleIs, IdleFits DEF TakenIsAccepted
<1>7. AcceptedIsKept BY <1>1, <1>3 DEF AcceptedIsKept
<1>8. UploadedIsKept BY <1>1, IdleFits DEF UploadedIsKept
<1> QED BY <1>4, <1>5, <1>6, <1>7, <1>8 DEF BlobInv

LEMMA BlobStandsStill ==
  ASSUME BlobInv, UNCHANGED blobVars PROVE BlobInv'
<1> USE DEF blobVars
<1>1. /\ \A d, o, h : Fresh(d, o, h)' <=> Fresh(d, o, h) BY DEF Fresh, Past
<1>2. \A h : Kept(h)' <=> Kept(h) BY <1>1 DEF Kept
<1>3. AcceptedIsKept' /\ UploadedIsKept'
  BY <1>2 DEF BlobInv, AcceptedIsKept, UploadedIsKept, Past
<1>4. BlobTyped' /\ \A d \in Hosts : OwnQueue(d, host[d])' BY DEF BlobInv, BlobTyped, OwnQueue
<1>5. \A u \in Passes : (OwnBatch(u, pass[u]) /\ PassWell(pass[u]) /\ TakenIsAccepted(pass[u]))'
  BY DEF BlobInv, OwnBatch, PassWell, TakenIsAccepted
<1> QED BY <1>3, <1>4, <1>5 DEF BlobInv

LEMMA BlobNextKeeps == BlobInv /\ [BlobNext]_blobVars => BlobInv'
<1> SUFFICES ASSUME BlobInv, [BlobNext]_blobVars PROVE BlobInv' OBVIOUS
<1>1. CASE UNCHANGED blobVars BY <1>1, BlobStandsStill
<1>2. CASE BlobNext
  <2>1. CASE \E o \in Uploads : Attach(o) BY <2>1, AttachKeeps
  <2>2. CASE \E d \in Hosts : RetryHeld(d) \/ JoinWorkspace(d) \/ PullUpload(d)
    BY <2>2, RetryHeldKeeps, JoinWorkspaceKeeps, PullUploadKeeps
  <2>3. ASSUME NEW u \in Passes,
               StartUpload(u) \/ NextUpload(u) \/ PublishFile(u) \/ InstallFails(u) \/ Cut(u)
        PROVE  BlobInv'
    BY <2>3, StartUploadKeeps, NextUploadKeeps, PublishFileKeeps, InstallFailsKeeps, CutKeeps
  <2>4. ASSUME NEW u \in Passes, \E h \in NamedBlobs : ClaimBlob(u, h) PROVE BlobInv'
    BY <2>4, ClaimBlobKeeps
  <2>5. ASSUME NEW u \in Passes,
               ReleaseBlob(u) \/ Push(u) \/ PushUnanswered(u) \/ PushAlone(u)
        PROVE  BlobInv'
    BY <2>5, ReleaseBlobKeeps, PushKeeps, PushUnansweredKeeps, PushAloneKeeps
  <2>6. ASSUME NEW u \in Passes, IsolationBreaks(u) \/ Isolated(u) \/ OfferWorkspace(u)
        PROVE  BlobInv'
    BY <2>6, IsolationBreaksKeeps, IsolatedKeeps, OfferWorkspaceKeeps
  <2> QED BY <1>2, <2>1, <2>2, <2>3, <2>4, <2>5, <2>6 DEF BlobNext
<1> QED BY <1>1, <1>2

\* The bytes of every accepted operation are in the server's store, and they are
\* owned by the user or brought again by an operation that no pass of its device
\* has gone past; what a pass takes for uploaded is so as well (put_blob,
\* validate_operation_blobs, upload_operation_blobs, isolate_rejected_batch).
THEOREM BlobsAreKept == BlobSpec => []BlobInv
<1>1. BlobInit => BlobInv BY BlobInitKeeps
<1>2. BlobInv /\ [BlobNext]_blobVars => BlobInv' BY BlobNextKeeps
<1> QED BY <1>1, <1>2, PTL DEF BlobSpec

LEMMA KeptIsFetchable == BlobInv => FetchableOrOwed
<1> SUFFICES ASSUME BlobInv, NEW i \in DOMAIN accepted,
                    NEW h \in BlobsOf[accepted[i]] \ crossed, ~Fetchable(h)
             PROVE  \E d \in Hosts : h \in Owed(d)
  BY DEF FetchableOrOwed
<1>1. accepted \in Seq(Uploads) BY DEF BlobInv, BlobTyped
<1>2. accepted[i] \in ToSet(accepted) BY <1>1, ToSetIs
<1>3. h \in installed /\ Kept(h) BY <1>2 DEF BlobInv, AcceptedIsKept
<1>4. PICK d \in Hosts : \E o \in Uploads : Fresh(d, o, h) BY <1>3 DEF Kept, Fetchable
<1>5. PICK o \in Uploads : Fresh(d, o, h) BY <1>4
<1>6. o \in ToSet(Pending(d)) /\ h \in BlobsOf[o] BY <1>5, PendingIs DEF Fresh
<1> QED BY <1>4, <1>6 DEF Owed

\* What an accepted operation names can be downloaded or will be uploaded again,
\* whatever devices, uploads, quotas and failures there are.
THEOREM AcceptedBlobsAreFetchable == BlobSpec => []FetchableOrOwed
<1>1. BlobInv => FetchableOrOwed BY KeptIsFetchable
<1> QED BY <1>1, BlobsAreKept, PTL

-----------------------------------------------------------------------------
(* The files of the store *)

Entering == {"directories", "sync_created", "sync_parent"}
Written == {"look", "publish", "verify", "verify_other", "sync_installed", "sync_present"}
CallSteps == AtRest \cup Entering \cup Written \cup {"staged", "opened", "sync_removed"}

FileTypes ==
    /\ made \in 0 .. Depth /\ lasting \subseteq 1 .. made
    /\ target \in onDisk /\ onDisk \subseteq StoredFiles \cup {NoFile}
    /\ content \in [StoredFiles -> {"empty", "whole", "other", "damaged"}]
    /\ flushed \subseteq StoredFiles /\ Earlier \in flushed
    /\ doing \in [Calls -> CallSteps]
    /\ entered \in [Installers -> 0 .. Depth]
    /\ handle \in [Openers \cup Removers -> StoredFiles \cup {NoFile}]
    /\ relied \subseteq Installers /\ unlinked \subseteq Installers

\* An installer has behind it directories that are there, and on disk if it
\* made or found them so; names need the shard.
Stands(c) ==
    /\ doing[c] = "idle" => entered[c] = 0
    /\ doing[c] \in Entering => entered[c] <= made
    /\ doing[c] \in {"sync_created", "sync_parent"} => entered[c] < made
    /\ doing[c] \in Written \cup {"staged"} => entered[c] = Depth /\ made = Depth
    /\ doing[c] # "failed" /\ c \notin relied => \A k \in 1 .. entered[c] : k \in lasting
DirectoriesStand == made < Depth => onDisk = {NoFile}

\* A file is written before it has a name and never again, and it has one only
\* when its bytes are on disk.
Final(n) == IsWhole(n) /\ (n \in Installers => doing[n] \notin Entering \cup {"idle"})
WrittenFirst(c) ==
    /\ doing[c] = "staged" => IsWhole(c)
    /\ doing[c] \in Written => IsWhole(c) /\ c \in flushed
NamedIsFinal == \A n \in Installers \cap onDisk : Final(n) /\ n \in flushed
OpenIsFinal(c) == doing[c] = "opened" => handle[c] \in StoredFiles /\ Final(handle[c])

\* Who counts on the content sees it, and who has reported it has it on disk.
Sees(c) ==
    doing[c] \in {"sync_installed", "sync_present"} /\ c \notin unlinked => IsWhole(target)
Keeps(c) ==
    doing[c] \in Reported /\ c \notin relied \cup unlinked =>
        made = Depth /\ (\A k \in 1 .. Depth : k \in lasting) /\ onDisk = {target} /\ IsWhole(target)

FileInv ==
    /\ FileTypes /\ DirectoriesStand /\ NamedIsFinal
    /\ \A c \in Installers : Stands(c) /\ WrittenFirst(c) /\ Sees(c) /\ Keeps(c)
    /\ \A c \in Openers \cup Removers : OpenIsFinal(c)

\* A store that is new, or as an earlier process left it, is consistent.
LEMMA FileInvInit == FileInit => FileInv
<1>. SUFFICES ASSUME FileInit PROVE FileInv  OBVIOUS
<1>a. /\ Installers \subseteq Calls /\ Openers \subseteq Calls /\ Removers \subseteq Calls
      /\ Installers \subseteq StoredFiles /\ Earlier \in StoredFiles /\ NoFile \notin StoredFiles
      /\ \A n \in StoredFiles : n \in Installers \/ n = Earlier
      /\ \A d \in Openers \cup Removers : d \notin Installers
  BY BlobFilesAssumption DEF Calls, StoredFiles
<1>0. /\ \/ made \in 0 .. Depth /\ target = NoFile
         \/ made = Depth /\ target = Earlier
      /\ lasting = 1 .. made /\ onDisk = {target} /\ flushed = {Earlier}
      /\ doing = [c \in Calls |-> "idle"] /\ entered = [c \in Installers |-> 0]
      /\ handle = [c \in Openers \cup Removers |-> NoFile] /\ relied = {} /\ unlinked = {}
  BY DEF FileInit
<1>1. PICK b \in {"whole", "damaged"} : content = [n \in StoredFiles |-> IF n = target THEN b ELSE "empty"]
  BY DEF FileInit
<1>. USE DEF AtRest, Reported, Entering, Written, Depth, IsWhole, CallSteps
<1>2. FileTypes  BY <1>a, <1>0, <1>1 DEF FileTypes
<1>3. DirectoriesStand /\ NamedIsFinal
  BY <1>a, <1>0, BlobFilesAssumption DEF DirectoriesStand, NamedIsFinal, Calls
<1>4. ASSUME NEW c \in Installers PROVE Stands(c) /\ WrittenFirst(c) /\ Sees(c) /\ Keeps(c)
  BY <1>a, <1>0 DEF Stands, WrittenFirst, Sees, Keeps
<1>5. ASSUME NEW c \in Openers \cup Removers PROVE OpenIsFinal(c)  BY <1>a, <1>0 DEF OpenIsFinal
<1>. QED  BY <1>2, <1>3, <1>4, <1>5 DEF FileInv

\* And every system call of install_reader, open_verified, remove_verified and
\* discard_unverified leaves it so, as do their ends and a power failure.
LEMMA FileInvStep == ASSUME FileInv, [FileNext]_fileVars PROVE FileInv'
<1>a. /\ Installers \subseteq Calls /\ Openers \subseteq Calls /\ Removers \subseteq Calls
      /\ Installers \subseteq StoredFiles /\ Earlier \in StoredFiles /\ NoFile \notin StoredFiles
      /\ \A n \in StoredFiles : n \in Installers \/ n = Earlier
      /\ \A d \in Openers \cup Removers : d \notin Installers
  BY BlobFilesAssumption DEF Calls, StoredFiles
<1>. USE DEF AtRest, Reported, Entering, Written, Depth, IsWhole, CallSteps
<1>1. ASSUME NEW c \in Installers, BeginInstall(c) PROVE FileInv'
    <2>0. /\ doing[c] = "idle"
          /\ made' = made /\ lasting' = lasting /\ target' = target /\ onDisk' = onDisk
          /\ content' = content /\ flushed' = flushed
          /\ doing' = [doing EXCEPT ![c] = "directories"]
          /\ entered' = entered /\ handle' = handle /\ relied' = relied
          /\ unlinked' = unlinked
      BY <1>1 DEF BeginInstall, Goes, disk, ghosts
    <2>1. FileTypes'  BY <1>a, <2>0 DEF FileInv, FileTypes
    <2>2. DirectoriesStand'  BY <1>a, <2>0 DEF FileInv, DirectoriesStand
    <2>3. NamedIsFinal'  BY <1>a, <2>0 DEF FileInv, NamedIsFinal, Final
    <2>4. ASSUME NEW d \in Installers PROVE Stands(d)'
      BY <1>a, <2>0 DEF FileInv, FileTypes, Stands
    <2>5. ASSUME NEW d \in Installers PROVE WrittenFirst(d)'
      BY <1>a, <2>0 DEF FileInv, FileTypes, WrittenFirst
    <2>6. ASSUME NEW d \in Installers PROVE Sees(d)'
      BY <1>a, <2>0 DEF FileInv, FileTypes, Sees
    <2>7. ASSUME NEW d \in Installers PROVE Keeps(d)'
      BY <1>a, <2>0 DEF FileInv, FileTypes, Keeps
    <2>8. ASSUME NEW d \in Openers \cup Removers PROVE OpenIsFinal(d)'
      BY <1>a, <2>0 DEF FileInv, FileTypes, OpenIsFinal, Final
    <2>. QED  BY <2>1, <2>2, <2>3, <2>4, <2>5, <2>6, <2>7, <2>8 DEF FileInv
<1>2. ASSUME NEW c \in Installers, FindDirectory(c) PROVE FileInv'
    <2>0. /\ doing[c] = "directories" /\ entered[c] < made
          /\ made' = made /\ lasting' = lasting /\ target' = target /\ onDisk' = onDisk
          /\ content' = content /\ flushed' = flushed /\ doing' = doing
          /\ entered' = [entered EXCEPT ![c] = entered[c] + 1]
          /\ handle' = handle
          /\ relied' = IF entered[c] + 1 \in lasting THEN relied ELSE relied \cup {c}
          /\ unlinked' = unlinked
      BY <1>2 DEF FindDirectory, Goes, disk, ghosts
    <2>1. FileTypes'  BY <1>a, <2>0 DEF FileInv, FileTypes
    <2>2. DirectoriesStand'  BY <1>a, <2>0 DEF FileInv, DirectoriesStand
    <2>3. NamedIsFinal'  BY <1>a, <2>0 DEF FileInv, NamedIsFinal, Final
    <2>4. ASSUME NEW d \in Installers PROVE Stands(d)'
      BY <1>a, <2>0 DEF FileInv, FileTypes, Stands
    <2>5. ASSUME NEW d \in Installers PROVE WrittenFirst(d)'
      BY <1>a, <2>0 DEF FileInv, FileTypes, WrittenFirst
    <2>6. ASSUME NEW d \in Installers PROVE Sees(d)'
      BY <1>a, <2>0 DEF FileInv, FileTypes, Sees
    <2>7. ASSUME NEW d \in Installers PROVE Keeps(d)'
      BY <1>a, <2>0 DEF FileInv, FileTypes, Keeps
    <2>8. ASSUME NEW d \in Openers \cup Removers PROVE OpenIsFinal(d)'
      BY <1>a, <2>0 DEF FileInv, FileTypes, OpenIsFinal, Final
    <2>. QED  BY <2>1, <2>2, <2>3, <2>4, <2>5, <2>6, <2>7, <2>8 DEF FileInv
<1>3. ASSUME NEW c \in Installers, CreateDirectory(c) PROVE FileInv'
    <2>0. /\ doing[c] = "directories" /\ entered[c] = made /\ made < Depth
          /\ made' = made + 1
          /\ lasting' = lasting /\ target' = target /\ onDisk' = onDisk
          /\ content' = content /\ flushed' = flushed
          /\ doing' = [doing EXCEPT ![c] = "sync_created"]
          /\ entered' = entered /\ handle' = handle /\ relied' = relied
          /\ unlinked' = unlinked
      BY <1>3 DEF CreateDirectory, Goes, disk, ghosts
    <2>1. FileTypes'  BY <1>a, <2>0 DEF FileInv, FileTypes
    <2>2. DirectoriesStand'  BY <1>a, <2>0 DEF FileInv, DirectoriesStand
    <2>3. NamedIsFinal'  BY <1>a, <2>0 DEF FileInv, NamedIsFinal, Final
    <2>4. ASSUME NEW d \in Installers PROVE Stands(d)'
      BY <1>a, <2>0 DEF FileInv, FileTypes, Stands
    <2>5. ASSUME NEW d \in Installers PROVE WrittenFirst(d)'
      BY <1>a, <2>0 DEF FileInv, FileTypes, WrittenFirst
    <2>6. ASSUME NEW d \in Installers PROVE Sees(d)'
      BY <1>a, <2>0 DEF FileInv, FileTypes, Sees
    <2>7. ASSUME NEW d \in Installers PROVE Keeps(d)'
      BY <1>a, <2>0 DEF FileInv, FileTypes, Keeps
    <2>8. ASSUME NEW d \in Openers \cup Removers PROVE OpenIsFinal(d)'
      BY <1>a, <2>0 DEF FileInv, FileTypes, OpenIsFinal, Final
    <2>. QED  BY <2>1, <2>2, <2>3, <2>4, <2>5, <2>6, <2>7, <2>8 DEF FileInv
<1>4. ASSUME NEW c \in Installers, SyncCreated(c) PROVE FileInv'
    <2>0. /\ doing[c] = "sync_created"
          /\ made' = made
          /\ lasting' = lasting \cup ({(entered[c] + 1) + 1} \cap 1 .. made)
          /\ target' = target
          /\ onDisk' = IF entered[c] + 1 = Shard THEN {target} ELSE onDisk
          /\ content' = content /\ flushed' = flushed
          /\ doing' = [doing EXCEPT ![c] = "sync_parent"]
          /\ entered' = entered /\ handle' = handle /\ relied' = relied
          /\ unlinked' = unlinked
      BY <1>4 DEF SyncCreated, Goes, disk, ghosts, SyncDirectory, Shard
    <2>1. FileTypes'  BY <1>a, <2>0 DEF FileInv, FileTypes
    <2>2. DirectoriesStand'  BY <1>a, <2>0 DEF FileInv, FileTypes, DirectoriesStand
    <2>3. NamedIsFinal'  BY <1>a, <2>0 DEF FileInv, FileTypes, NamedIsFinal, Final
    <2>4. ASSUME NEW d \in Installers PROVE Stands(d)'
      BY <1>a, <2>0 DEF FileInv, FileTypes, Stands
    <2>5. ASSUME NEW d \in Installers PROVE WrittenFirst(d)'
      BY <1>a, <2>0 DEF FileInv, FileTypes, WrittenFirst
    <2>6. ASSUME NEW d \in Installers PROVE Sees(d)'
      BY <1>a, <2>0 DEF FileInv, FileTypes, Sees
    <2>7. ASSUME NEW d \in Installers PROVE Keeps(d)'
      BY <1>a, <2>0 DEF FileInv, FileTypes, Keeps
    <2>8. ASSUME NEW d \in Openers \cup Removers PROVE OpenIsFinal(d)'
      BY <1>a, <2>0 DEF FileInv, FileTypes, OpenIsFinal, Final
    <2>. QED  BY <2>1, <2>2, <2>3, <2>4, <2>5, <2>6, <2>7, <2>8 DEF FileInv
<1>5. ASSUME NEW c \in Installers, SyncParent(c) PROVE FileInv'
    <2>0. /\ doing[c] = "sync_parent"
          /\ made' = made
          /\ lasting' = lasting \cup ({entered[c] + 1} \cap 1 .. made)
          /\ target' = target
          /\ onDisk' = IF entered[c] = Shard THEN {target} ELSE onDisk
          /\ content' = content /\ flushed' = flushed
          /\ doing' = [doing EXCEPT ![c] = "directories"]
          /\ entered' = [entered EXCEPT ![c] = entered[c] + 1]
          /\ handle' = handle /\ relied' = relied /\ unlinked' = unlinked
      BY <1>5 DEF SyncParent, Goes, disk, ghosts, SyncDirectory, Shard
    <2>1. FileTypes'
      <3>1. entered[c] + 1 \in 0 .. Depth  BY <2>0 DEF FileInv, FileTypes, Stands
      <3>. QED  BY <1>a, <2>0, <3>1 DEF FileInv, FileTypes, Stands
    <2>2. DirectoriesStand'  BY <1>a, <2>0 DEF FileInv, FileTypes, DirectoriesStand
    <2>3. NamedIsFinal'  BY <1>a, <2>0 DEF FileInv, FileTypes, NamedIsFinal, Final
    <2>4. ASSUME NEW d \in Installers PROVE Stands(d)'
      BY <1>a, <2>0 DEF FileInv, FileTypes, Stands
    <2>5. ASSUME NEW d \in Installers PROVE WrittenFirst(d)'
      BY <1>a, <2>0 DEF FileInv, FileTypes, WrittenFirst
    <2>6. ASSUME NEW d \in Installers PROVE Sees(d)'
      BY <1>a, <2>0 DEF FileInv, FileTypes, Sees
    <2>7. ASSUME NEW d \in Installers PROVE Keeps(d)'
      BY <1>a, <2>0 DEF FileInv, FileTypes, Keeps
    <2>8. ASSUME NEW d \in Openers \cup Removers PROVE OpenIsFinal(d)'
      BY <1>a, <2>0 DEF FileInv, FileTypes, OpenIsFinal, Final
    <2>. QED  BY <2>1, <2>2, <2>3, <2>4, <2>5, <2>6, <2>7, <2>8 DEF FileInv
<1>6. ASSUME NEW c \in Installers, SyncStaged(c) PROVE FileInv'
    <2>0. /\ doing[c] = "staged"
          /\ made' = made /\ lasting' = lasting /\ target' = target /\ onDisk' = onDisk
          /\ content' = content
          /\ flushed' = flushed \cup {c}
          /\ doing' = [doing EXCEPT ![c] = "look"]
          /\ entered' = entered /\ handle' = handle /\ relied' = relied
          /\ unlinked' = unlinked
      BY <1>6 DEF SyncStaged, Goes, disk, ghosts
    <2>1. FileTypes'  BY <1>a, <2>0 DEF FileInv, FileTypes
    <2>2. DirectoriesStand'  BY <1>a, <2>0 DEF FileInv, DirectoriesStand
    <2>3. NamedIsFinal'  BY <1>a, <2>0 DEF FileInv, NamedIsFinal, Final
    <2>4. ASSUME NEW d \in Installers PROVE Stands(d)'
      BY <1>a, <2>0 DEF FileInv, FileTypes, Stands
    <2>5. ASSUME NEW d \in Installers PROVE WrittenFirst(d)'
      BY <1>a, <2>0 DEF FileInv, FileTypes, WrittenFirst
    <2>6. ASSUME NEW d \in Installers PROVE Sees(d)'
      BY <1>a, <2>0 DEF FileInv, FileTypes, Sees
    <2>7. ASSUME NEW d \in Installers PROVE Keeps(d)'
      BY <1>a, <2>0 DEF FileInv, FileTypes, Keeps
    <2>8. ASSUME NEW d \in Openers \cup Removers PROVE OpenIsFinal(d)'
      BY <1>a, <2>0 DEF FileInv, FileTypes, OpenIsFinal, Final
    <2>. QED  BY <2>1, <2>2, <2>3, <2>4, <2>5, <2>6, <2>7, <2>8 DEF FileInv
<1>7. ASSUME NEW c \in Installers, LookForTarget(c) PROVE FileInv'
    <2>0. /\ doing[c] = "look"
          /\ made' = made /\ lasting' = lasting /\ target' = target /\ onDisk' = onDisk
          /\ content' = content /\ flushed' = flushed
          /\ doing' = [doing EXCEPT ![c] = IF target = NoFile THEN "publish" ELSE "verify"]
          /\ entered' = entered /\ handle' = handle /\ relied' = relied
          /\ unlinked' = unlinked
      BY <1>7 DEF LookForTarget, Goes, disk, ghosts
    <2>1. FileTypes'  BY <1>a, <2>0 DEF FileInv, FileTypes
    <2>2. DirectoriesStand'  BY <1>a, <2>0 DEF FileInv, DirectoriesStand
    <2>3. NamedIsFinal'  BY <1>a, <2>0 DEF FileInv, NamedIsFinal, Final
    <2>4. ASSUME NEW d \in Installers PROVE Stands(d)'
      BY <1>a, <2>0 DEF FileInv, FileTypes, Stands
    <2>5. ASSUME NEW d \in Installers PROVE WrittenFirst(d)'
      BY <1>a, <2>0 DEF FileInv, FileTypes, WrittenFirst
    <2>6. ASSUME NEW d \in Installers PROVE Sees(d)'
      BY <1>a, <2>0 DEF FileInv, FileTypes, Sees
    <2>7. ASSUME NEW d \in Installers PROVE Keeps(d)'
      BY <1>a, <2>0 DEF FileInv, FileTypes, Keeps
    <2>8. ASSUME NEW d \in Openers \cup Removers PROVE OpenIsFinal(d)'
      BY <1>a, <2>0 DEF FileInv, FileTypes, OpenIsFinal, Final
    <2>. QED  BY <2>1, <2>2, <2>3, <2>4, <2>5, <2>6, <2>7, <2>8 DEF FileInv
<1>8. ASSUME NEW c \in Installers, VerifyFound(c) PROVE FileInv'
    <2>0. /\ doing[c] = "verify"
          /\ made' = made /\ lasting' = lasting /\ target' = target /\ onDisk' = onDisk
          /\ content' = content /\ flushed' = flushed
          /\ doing' = [doing EXCEPT ![c] = IF IsWhole(target) THEN "present" ELSE "failed"]
          /\ entered' = entered /\ handle' = handle
          /\ relied' = IF IsWhole(target) /\ onDisk # {target} THEN relied \cup {c} ELSE relied
          /\ unlinked' = unlinked
      BY <1>8 DEF VerifyFound, Goes, disk, ghosts
    <2>1. FileTypes'  BY <1>a, <2>0 DEF FileInv, FileTypes
    <2>2. DirectoriesStand'  BY <1>a, <2>0 DEF FileInv, DirectoriesStand
    <2>3. NamedIsFinal'  BY <1>a, <2>0 DEF FileInv, NamedIsFinal, Final
    <2>4. ASSUME NEW d \in Installers PROVE Stands(d)'
      BY <1>a, <2>0 DEF FileInv, FileTypes, Stands
    <2>5. ASSUME NEW d \in Installers PROVE WrittenFirst(d)'
      BY <1>a, <2>0 DEF FileInv, FileTypes, WrittenFirst
    <2>6. ASSUME NEW d \in Installers PROVE Sees(d)'
      BY <1>a, <2>0 DEF FileInv, FileTypes, Sees
    <2>7. ASSUME NEW d \in Installers PROVE Keeps(d)'
      BY <1>a, <2>0 DEF FileInv, FileTypes, Stands, Keeps
    <2>8. ASSUME NEW d \in Openers \cup Removers PROVE OpenIsFinal(d)'
      BY <1>a, <2>0 DEF FileInv, FileTypes, OpenIsFinal, Final
    <2>. QED  BY <2>1, <2>2, <2>3, <2>4, <2>5, <2>6, <2>7, <2>8 DEF FileInv
<1>9. ASSUME NEW c \in Installers, VerifyOther(c) PROVE FileInv'
    <2>0. /\ doing[c] = "verify_other"
          /\ made' = made /\ lasting' = lasting /\ target' = target /\ onDisk' = onDisk
          /\ content' = content /\ flushed' = flushed
          /\ doing' = [doing EXCEPT ![c] = IF IsWhole(target) THEN "sync_present" ELSE "failed"]
          /\ entered' = entered /\ handle' = handle /\ relied' = relied
          /\ unlinked' = unlinked
      BY <1>9 DEF VerifyOther, Goes, disk, ghosts
    <2>1. FileTypes'  BY <1>a, <2>0 DEF FileInv, FileTypes
    <2>2. DirectoriesStand'  BY <1>a, <2>0 DEF FileInv, DirectoriesStand
    <2>3. NamedIsFinal'  BY <1>a, <2>0 DEF FileInv, NamedIsFinal, Final
    <2>4. ASSUME NEW d \in Installers PROVE Stands(d)'
      BY <1>a, <2>0 DEF FileInv, FileTypes, Stands
    <2>5. ASSUME NEW d \in Installers PROVE WrittenFirst(d)'
      BY <1>a, <2>0 DEF FileInv, FileTypes, WrittenFirst
    <2>6. ASSUME NEW d \in Installers PROVE Sees(d)'
      BY <1>a, <2>0 DEF FileInv, FileTypes, Sees
    <2>7. ASSUME NEW d \in Installers PROVE Keeps(d)'
      BY <1>a, <2>0 DEF FileInv, FileTypes, Keeps
    <2>8. ASSUME NEW d \in Openers \cup Removers PROVE OpenIsFinal(d)'
      BY <1>a, <2>0 DEF FileInv, FileTypes, OpenIsFinal, Final
    <2>. QED  BY <2>1, <2>2, <2>3, <2>4, <2>5, <2>6, <2>7, <2>8 DEF FileInv
<1>10. ASSUME NEW c \in Installers, SyncEntry(c) PROVE FileInv'
    <2>0. /\ doing[c] \in {"sync_installed", "sync_present"}
          /\ made' = made
          /\ lasting' = lasting \cup ({Depth + 1} \cap 1 .. made)
          /\ target' = target
          /\ onDisk' = {target}
          /\ content' = content /\ flushed' = flushed
          /\ doing' = [doing EXCEPT ![c] = IF doing[c] = "sync_installed" THEN "installed" ELSE "present"]
          /\ entered' = entered /\ handle' = handle /\ relied' = relied
          /\ unlinked' = unlinked
      BY <1>10 DEF SyncEntry, Goes, disk, ghosts, SyncDirectory, Shard
    <2>1. FileTypes'  BY <1>a, <2>0 DEF FileInv, FileTypes
    <2>2. DirectoriesStand'  BY <1>a, <2>0 DEF FileInv, FileTypes, DirectoriesStand
    <2>3. NamedIsFinal'  BY <1>a, <2>0 DEF FileInv, FileTypes, NamedIsFinal, Final
    <2>4. ASSUME NEW d \in Installers PROVE Stands(d)'
      BY <1>a, <2>0 DEF FileInv, FileTypes, Stands
    <2>5. ASSUME NEW d \in Installers PROVE WrittenFirst(d)'
      BY <1>a, <2>0 DEF FileInv, FileTypes, WrittenFirst
    <2>6. ASSUME NEW d \in Installers PROVE Sees(d)'
      BY <1>a, <2>0 DEF FileInv, FileTypes, Sees
    <2>7. ASSUME NEW d \in Installers PROVE Keeps(d)'
      BY <1>a, <2>0 DEF FileInv, FileTypes, Stands, Keeps, Sees
    <2>8. ASSUME NEW d \in Openers \cup Removers PROVE OpenIsFinal(d)'
      BY <1>a, <2>0 DEF FileInv, FileTypes, OpenIsFinal, Final
    <2>. QED  BY <2>1, <2>2, <2>3, <2>4, <2>5, <2>6, <2>7, <2>8 DEF FileInv
<1>11. ASSUME NEW c \in Openers, ReadVerified(c) PROVE FileInv'
    <2>0. /\ doing[c] = "opened"
          /\ made' = made /\ lasting' = lasting /\ target' = target /\ onDisk' = onDisk
          /\ content' = content /\ flushed' = flushed
          /\ doing' = [doing EXCEPT ![c] = "done"]
          /\ entered' = entered /\ handle' = handle /\ relied' = relied
          /\ unlinked' = unlinked
      BY <1>11 DEF ReadVerified, Goes, disk, ghosts
    <2>1. FileTypes'  BY <1>a, <2>0 DEF FileInv, FileTypes
    <2>2. DirectoriesStand'  BY <1>a, <2>0 DEF FileInv, DirectoriesStand
    <2>3. NamedIsFinal'  BY <1>a, <2>0 DEF FileInv, NamedIsFinal, Final
    <2>4. ASSUME NEW d \in Installers PROVE Stands(d)'
      BY <1>a, <2>0 DEF FileInv, FileTypes, Stands
    <2>5. ASSUME NEW d \in Installers PROVE WrittenFirst(d)'
      BY <1>a, <2>0 DEF FileInv, FileTypes, WrittenFirst
    <2>6. ASSUME NEW d \in Installers PROVE Sees(d)'
      BY <1>a, <2>0 DEF FileInv, FileTypes, Sees
    <2>7. ASSUME NEW d \in Installers PROVE Keeps(d)'
      BY <1>a, <2>0 DEF FileInv, FileTypes, Keeps
    <2>8. ASSUME NEW d \in Openers \cup Removers PROVE OpenIsFinal(d)'
      BY <1>a, <2>0 DEF FileInv, FileTypes, OpenIsFinal, Final
    <2>. QED  BY <2>1, <2>2, <2>3, <2>4, <2>5, <2>6, <2>7, <2>8 DEF FileInv
<1>12. ASSUME NEW c \in Removers, SyncRemoved(c) PROVE FileInv'
    <2>0. /\ doing[c] = "sync_removed"
          /\ made' = made
          /\ lasting' = lasting \cup ({Depth + 1} \cap 1 .. made)
          /\ target' = target
          /\ onDisk' = {target}
          /\ content' = content /\ flushed' = flushed
          /\ doing' = [doing EXCEPT ![c] = "done"]
          /\ entered' = entered /\ handle' = handle /\ relied' = relied
          /\ unlinked' = unlinked
      BY <1>12 DEF SyncRemoved, Goes, disk, ghosts, SyncDirectory, Shard
    <2>1. FileTypes'  BY <1>a, <2>0 DEF FileInv, FileTypes
    <2>2. DirectoriesStand'  BY <1>a, <2>0 DEF FileInv, FileTypes, DirectoriesStand
    <2>3. NamedIsFinal'  BY <1>a, <2>0 DEF FileInv, FileTypes, NamedIsFinal, Final
    <2>4. ASSUME NEW d \in Installers PROVE Stands(d)'
      BY <1>a, <2>0 DEF FileInv, FileTypes, Stands
    <2>5. ASSUME NEW d \in Installers PROVE WrittenFirst(d)'
      BY <1>a, <2>0 DEF FileInv, FileTypes, WrittenFirst
    <2>6. ASSUME NEW d \in Installers PROVE Sees(d)'
      BY <1>a, <2>0 DEF FileInv, FileTypes, Sees
    <2>7. ASSUME NEW d \in Installers PROVE Keeps(d)'
      BY <1>a, <2>0 DEF FileInv, FileTypes, Keeps
    <2>8. ASSUME NEW d \in Openers \cup Removers PROVE OpenIsFinal(d)'
      BY <1>a, <2>0 DEF FileInv, FileTypes, OpenIsFinal, Final
    <2>. QED  BY <2>1, <2>2, <2>3, <2>4, <2>5, <2>6, <2>7, <2>8 DEF FileInv
<1>13. ASSUME NEW c \in Calls, Stop(c) PROVE FileInv'
    <2>0. /\ doing[c] \notin AtRest \ {"idle"}
          /\ made' = made /\ lasting' = lasting /\ target' = target /\ onDisk' = onDisk
          /\ content' = content /\ flushed' = flushed
          /\ doing' = [doing EXCEPT ![c] = "failed"]
          /\ entered' = entered /\ handle' = handle /\ relied' = relied
          /\ unlinked' = unlinked
      BY <1>13 DEF Stop, Goes, disk, ghosts
    <2>1. FileTypes'  BY <1>a, <2>0 DEF FileInv, FileTypes
    <2>2. DirectoriesStand'  BY <1>a, <2>0 DEF FileInv, DirectoriesStand
    <2>3. NamedIsFinal'  BY <1>a, <2>0 DEF FileInv, NamedIsFinal, Final
    <2>4. ASSUME NEW d \in Installers PROVE Stands(d)'
      BY <1>a, <2>0 DEF FileInv, FileTypes, Stands
    <2>5. ASSUME NEW d \in Installers PROVE WrittenFirst(d)'
      BY <1>a, <2>0 DEF FileInv, FileTypes, WrittenFirst
    <2>6. ASSUME NEW d \in Installers PROVE Sees(d)'
      BY <1>a, <2>0 DEF FileInv, FileTypes, Sees
    <2>7. ASSUME NEW d \in Installers PROVE Keeps(d)'
      BY <1>a, <2>0 DEF FileInv, FileTypes, Keeps
    <2>8. ASSUME NEW d \in Openers \cup Removers PROVE OpenIsFinal(d)'
      BY <1>a, <2>0 DEF FileInv, FileTypes, OpenIsFinal, Final
    <2>. QED  BY <2>1, <2>2, <2>3, <2>4, <2>5, <2>6, <2>7, <2>8 DEF FileInv
<1>14. ASSUME NEW c \in Installers, Stage(c) PROVE FileInv'
    <2>b. PICK b \in {"whole", "other"} :
            /\ content' = [content EXCEPT ![c] = b]
            /\ doing' = [doing EXCEPT ![c] = IF b = "whole" THEN "staged" ELSE "failed"]
      BY <1>14 DEF Stage, Goes
    <2>0. /\ doing[c] = "directories" /\ entered[c] = Depth
          /\ made' = made /\ lasting' = lasting /\ target' = target /\ onDisk' = onDisk
          /\ content' = [content EXCEPT ![c] = b]
          /\ flushed' = flushed
          /\ doing' = [doing EXCEPT ![c] = IF b = "whole" THEN "staged" ELSE "failed"]
          /\ entered' = entered /\ handle' = handle /\ relied' = relied
          /\ unlinked' = unlinked
      BY <1>14, <2>b DEF Stage, ghosts
    <2>c. c \notin onDisk /\ c # target  BY <1>a, <2>0 DEF FileInv, FileTypes, NamedIsFinal, Final
    <2>1. FileTypes'  BY <1>a, <2>0, <2>c DEF FileInv, FileTypes
    <2>2. DirectoriesStand'  BY <1>a, <2>0, <2>c DEF FileInv, DirectoriesStand
    <2>3. NamedIsFinal'  BY <1>a, <2>0, <2>c DEF FileInv, NamedIsFinal, Final
    <2>4. ASSUME NEW d \in Installers PROVE Stands(d)'
      BY <1>a, <2>0, <2>c DEF FileInv, FileTypes, Stands
    <2>5. ASSUME NEW d \in Installers PROVE WrittenFirst(d)'
      BY <1>a, <2>0, <2>c DEF FileInv, FileTypes, WrittenFirst
    <2>6. ASSUME NEW d \in Installers PROVE Sees(d)'
      BY <1>a, <2>0, <2>c DEF FileInv, FileTypes, Sees
    <2>7. ASSUME NEW d \in Installers PROVE Keeps(d)'
      BY <1>a, <2>0, <2>c DEF FileInv, FileTypes, Keeps
    <2>8. ASSUME NEW d \in Openers \cup Removers PROVE OpenIsFinal(d)'
      BY <1>a, <2>0, <2>c DEF FileInv, FileTypes, OpenIsFinal, Final
    <2>. QED  BY <2>1, <2>2, <2>3, <2>4, <2>5, <2>6, <2>7, <2>8 DEF FileInv
<1>15. ASSUME NEW c \in Installers, Publish(c) PROVE FileInv'
  <2>1. CASE target = NoFile
    <3>0. /\ doing[c] = "publish"
          /\ made' = made /\ lasting' = lasting
          /\ target' = c
          /\ onDisk' = onDisk \cup {c}
          /\ content' = content /\ flushed' = flushed
          /\ doing' = [doing EXCEPT ![c] = "sync_installed"]
          /\ entered' = entered /\ handle' = handle /\ relied' = relied
          /\ unlinked' = unlinked
      BY <1>15, <2>1 DEF Publish, Goes, ghosts
    <3>1. FileTypes'  BY <1>a, <2>1, <3>0 DEF FileInv, FileTypes
    <3>2. DirectoriesStand'  BY <1>a, <2>1, <3>0 DEF FileInv, DirectoriesStand, Stands
    <3>3. NamedIsFinal'  BY <1>a, <2>1, <3>0 DEF FileInv, FileTypes, NamedIsFinal, Final, WrittenFirst
    <3>4. ASSUME NEW d \in Installers PROVE Stands(d)'
      BY <1>a, <2>1, <3>0 DEF FileInv, FileTypes, Stands
    <3>5. ASSUME NEW d \in Installers PROVE WrittenFirst(d)'
      BY <1>a, <2>1, <3>0 DEF FileInv, FileTypes, WrittenFirst
    <3>6. ASSUME NEW d \in Installers PROVE Sees(d)'
      BY <1>a, <2>1, <3>0 DEF FileInv, FileTypes, Sees, WrittenFirst
    <3>7. ASSUME NEW d \in Installers PROVE Keeps(d)'
      BY <1>a, <2>1, <3>0 DEF FileInv, FileTypes, Keeps
    <3>8. ASSUME NEW d \in Openers \cup Removers PROVE OpenIsFinal(d)'
      BY <1>a, <2>1, <3>0 DEF FileInv, FileTypes, OpenIsFinal, Final
    <3>. QED  BY <3>1, <3>2, <3>3, <3>4, <3>5, <3>6, <3>7, <3>8 DEF FileInv
  <2>2. CASE target # NoFile
    <3>0. /\ doing[c] = "publish"
          /\ made' = made /\ lasting' = lasting /\ target' = target /\ onDisk' = onDisk
          /\ content' = content /\ flushed' = flushed
          /\ doing' = [doing EXCEPT ![c] = "verify_other"]
          /\ entered' = entered /\ handle' = handle /\ relied' = relied
          /\ unlinked' = unlinked
      BY <1>15, <2>2 DEF Publish, Goes, ghosts
    <3>1. FileTypes'  BY <1>a, <3>0 DEF FileInv, FileTypes
    <3>2. DirectoriesStand'  BY <1>a, <3>0 DEF FileInv, DirectoriesStand
    <3>3. NamedIsFinal'  BY <1>a, <3>0 DEF FileInv, NamedIsFinal, Final
    <3>4. ASSUME NEW d \in Installers PROVE Stands(d)'
      BY <1>a, <3>0 DEF FileInv, FileTypes, Stands
    <3>5. ASSUME NEW d \in Installers PROVE WrittenFirst(d)'
      BY <1>a, <3>0 DEF FileInv, FileTypes, WrittenFirst
    <3>6. ASSUME NEW d \in Installers PROVE Sees(d)'
      BY <1>a, <3>0 DEF FileInv, FileTypes, Sees
    <3>7. ASSUME NEW d \in Installers PROVE Keeps(d)'
      BY <1>a, <3>0 DEF FileInv, FileTypes, Keeps
    <3>8. ASSUME NEW d \in Openers \cup Removers PROVE OpenIsFinal(d)'
      BY <1>a, <3>0 DEF FileInv, FileTypes, OpenIsFinal, Final
    <3>. QED  BY <3>1, <3>2, <3>3, <3>4, <3>5, <3>6, <3>7, <3>8 DEF FileInv
  <2>. QED  BY <2>1, <2>2
<1>16. ASSUME NEW c \in Openers \cup Removers, OpenVerified(c) PROVE FileInv'
    <2>0. /\ doing[c] = "idle"
          /\ made' = made /\ lasting' = lasting /\ target' = target /\ onDisk' = onDisk
          /\ content' = content /\ flushed' = flushed
          /\ doing' = [doing EXCEPT ![c] = IF IsWhole(target) THEN "opened"
                                           ELSE IF target = NoFile THEN "done" ELSE "failed"]
          /\ entered' = entered
          /\ handle' = [handle EXCEPT ![c] = IF IsWhole(target) THEN target ELSE handle[c]]
          /\ relied' = relied /\ unlinked' = unlinked
      BY <1>16, <1>a DEF OpenVerified, Goes, disk, ghosts, FileInv, FileTypes
    <2>1. FileTypes'  BY <1>a, <2>0 DEF FileInv, FileTypes
    <2>2. DirectoriesStand'  BY <1>a, <2>0 DEF FileInv, DirectoriesStand
    <2>3. NamedIsFinal'  BY <1>a, <2>0 DEF FileInv, NamedIsFinal, Final
    <2>4. ASSUME NEW d \in Installers PROVE Stands(d)'
      BY <1>a, <2>0 DEF FileInv, FileTypes, Stands
    <2>5. ASSUME NEW d \in Installers PROVE WrittenFirst(d)'
      BY <1>a, <2>0 DEF FileInv, FileTypes, WrittenFirst
    <2>6. ASSUME NEW d \in Installers PROVE Sees(d)'
      BY <1>a, <2>0 DEF FileInv, FileTypes, Sees
    <2>7. ASSUME NEW d \in Installers PROVE Keeps(d)'
      BY <1>a, <2>0 DEF FileInv, FileTypes, Keeps
    <2>8. ASSUME NEW d \in Openers \cup Removers PROVE OpenIsFinal(d)'
      BY <1>a, <2>0 DEF FileInv, FileTypes, OpenIsFinal, NamedIsFinal, Final
    <2>. QED  BY <2>1, <2>2, <2>3, <2>4, <2>5, <2>6, <2>7, <2>8 DEF FileInv
<1>17. ASSUME NEW c \in Removers, Unlink(c) PROVE FileInv'
  <2>a. doing[c] \in {"opened", "idle"}  BY <1>17 DEF Unlink
  <2>1. CASE target = NoFile
    <3>0. /\ c \notin Installers
          /\ made' = made /\ lasting' = lasting /\ target' = target /\ onDisk' = onDisk
          /\ content' = content /\ flushed' = flushed
          /\ doing' = [doing EXCEPT ![c] = "done"]
          /\ entered' = entered /\ handle' = handle /\ relied' = relied
          /\ unlinked' = unlinked
      BY <1>17, <1>a, <2>1 DEF Unlink, Goes, ghosts
    <3>1. FileTypes'  BY <1>a, <3>0 DEF FileInv, FileTypes
    <3>2. DirectoriesStand'  BY <1>a, <3>0 DEF FileInv, DirectoriesStand
    <3>3. NamedIsFinal'  BY <1>a, <3>0 DEF FileInv, NamedIsFinal, Final
    <3>4. ASSUME NEW d \in Installers PROVE Stands(d)'
      BY <1>a, <3>0 DEF FileInv, FileTypes, Stands
    <3>5. ASSUME NEW d \in Installers PROVE WrittenFirst(d)'
      BY <1>a, <3>0 DEF FileInv, FileTypes, WrittenFirst
    <3>6. ASSUME NEW d \in Installers PROVE Sees(d)'
      BY <1>a, <3>0 DEF FileInv, FileTypes, Sees
    <3>7. ASSUME NEW d \in Installers PROVE Keeps(d)'
      BY <1>a, <3>0 DEF FileInv, FileTypes, Keeps
    <3>8. ASSUME NEW d \in Openers \cup Removers PROVE OpenIsFinal(d)'
      BY <1>a, <3>0 DEF FileInv, FileTypes, OpenIsFinal, Final
    <3>. QED  BY <3>1, <3>2, <3>3, <3>4, <3>5, <3>6, <3>7, <3>8 DEF FileInv
  <2>2. CASE target # NoFile
    <3>0. /\ c \notin Installers
          /\ made' = made /\ lasting' = lasting
          /\ target' = NoFile
          /\ onDisk' = onDisk \cup {NoFile}
          /\ content' = content /\ flushed' = flushed
          /\ doing' = [doing EXCEPT ![c] = "sync_removed"]
          /\ entered' = entered /\ handle' = handle /\ relied' = relied
          /\ unlinked' = unlinked \cup Counting
      BY <1>17, <1>a, <2>2 DEF Unlink, TakeAway, Goes
    <3>1. FileTypes'  BY <1>a, <3>0 DEF Counting, FileInv, FileTypes
    <3>2. DirectoriesStand'  BY <1>a, <3>0 DEF FileInv, DirectoriesStand
    <3>3. NamedIsFinal'  BY <1>a, <3>0 DEF FileInv, NamedIsFinal, Final
    <3>4. ASSUME NEW d \in Installers PROVE Stands(d)'
      BY <1>a, <3>0 DEF FileInv, FileTypes, Stands
    <3>5. ASSUME NEW d \in Installers PROVE WrittenFirst(d)'
      BY <1>a, <3>0 DEF FileInv, FileTypes, WrittenFirst
    <3>6. ASSUME NEW d \in Installers PROVE Sees(d)'
      BY <1>a, <3>0 DEF Counting, FileInv, FileTypes, Sees
    <3>7. ASSUME NEW d \in Installers PROVE Keeps(d)'
      BY <1>a, <3>0 DEF Counting, FileInv, FileTypes, Keeps
    <3>8. ASSUME NEW d \in Openers \cup Removers PROVE OpenIsFinal(d)'
      BY <1>a, <3>0 DEF FileInv, FileTypes, OpenIsFinal, Final
    <3>. QED  BY <3>1, <3>2, <3>3, <3>4, <3>5, <3>6, <3>7, <3>8 DEF FileInv
  <2>. QED  BY <2>1, <2>2
<1>18. ASSUME PowerFailure PROVE FileInv'
    <2>b. PICK lost \in SUBSET (StoredFiles \ flushed) :
            content' = [n \in StoredFiles |-> IF n \in lost THEN "damaged" ELSE content[n]]
      BY <1>18 DEF PowerFailure
    <2>0. /\ made' \in 0 .. made /\ \A k \in 1 .. made : 1 .. k \subseteq lasting => k <= made'
          /\ lasting' = 1 .. made'
          /\ IF made' = Depth THEN target' \in onDisk ELSE target' = NoFile
          /\ onDisk' = {target'} /\ flushed' = StoredFiles
          /\ doing' = [d \in Calls |-> IF doing[d] \in AtRest THEN doing[d] ELSE "failed"]
          /\ entered' = entered /\ handle' = handle /\ relied' = relied /\ unlinked' = unlinked
      BY <1>18 DEF PowerFailure, ghosts, FileInv, FileTypes
    <2>c. ASSUME NEW d \in Calls
          PROVE doing'[d] = IF doing[d] \in AtRest THEN doing[d] ELSE "failed"
      BY <2>0
    <2>d. ASSUME NEW n \in flushed PROVE content'[n] = content[n]
      BY <2>b DEF FileInv, FileTypes
    <2>1. FileTypes'
      <3>1. content' \in [StoredFiles -> {"empty", "whole", "other", "damaged"}]  BY <2>b DEF FileInv, FileTypes
      <3>2. made' \in 0 .. Depth /\ target' \in StoredFiles \cup {NoFile}  BY <2>0 DEF FileInv, FileTypes
      <3>3. doing' \in [Calls -> CallSteps]  BY <2>0 DEF FileInv, FileTypes
      <3>. QED  BY <1>a, <2>0, <3>1, <3>2, <3>3 DEF FileInv, FileTypes
    <2>2. DirectoriesStand'  BY <2>0 DEF DirectoriesStand
    <2>3. NamedIsFinal'
      <3>1. SUFFICES ASSUME NEW n \in Installers, n = target' PROVE Final(n)' /\ n \in flushed'
        BY <2>0 DEF NamedIsFinal
      <3>2. n \in onDisk  BY <1>a, <2>0, <3>1
      <3>3. Final(n) /\ n \in flushed  BY <3>2 DEF FileInv, NamedIsFinal
      <3>4. content'[n] = content[n]  BY <2>d, <3>3
      <3>. QED  BY <1>a, <2>0, <2>c, <3>3, <3>4 DEF Final
    <2>4. ASSUME NEW d \in Installers PROVE Stands(d)'
      <3>1. Stands(d) /\ entered[d] \in 0 .. Depth /\ made \in 0 .. Depth /\ lasting \subseteq 1 .. made
        BY DEF FileInv, FileTypes
      <3>2. doing'[d] \in AtRest /\ (doing'[d] = "failed" \/ doing'[d] = doing[d])  BY <1>a, <2>c
      <3>3. ASSUME doing'[d] # "failed", d \notin relied, NEW k \in 1 .. entered[d] PROVE k \in lasting'
        <4>1. 1 .. k \subseteq lasting /\ k \in 1 .. made  BY <3>1, <3>2, <3>3 DEF Stands
        <4>. QED  BY <2>0, <4>1
      <3>. QED  BY <2>0, <3>1, <3>2, <3>3 DEF Stands
    <2>5. ASSUME NEW d \in Installers PROVE WrittenFirst(d)'  BY <1>a, <2>c DEF WrittenFirst
    <2>6. ASSUME NEW d \in Installers PROVE Sees(d)'  BY <1>a, <2>c DEF Sees
    <2>7. ASSUME NEW d \in Installers PROVE Keeps(d)'
      <3>1. SUFFICES ASSUME doing'[d] \in Reported, d \notin relied \cup unlinked
                     PROVE /\ made' = Depth /\ (\A k \in 1 .. Depth : k \in lasting')
                           /\ onDisk' = {target'} /\ IsWhole(target)'
        BY <2>0 DEF Keeps
      <3>2. made = Depth /\ (\A k \in 1 .. Depth : k \in lasting) /\ onDisk = {target} /\ IsWhole(target)
        BY <1>a, <2>c, <3>1 DEF FileInv, Keeps
      <3>3. made' = Depth  BY <2>0, <3>2
      <3>4. target' = target /\ target \in flushed  BY <1>a, <2>0, <3>2, <3>3 DEF FileInv, FileTypes, NamedIsFinal
      <3>5. content'[target] = content[target]  BY <2>d, <3>4
      <3>. QED  BY <2>0, <3>2, <3>3, <3>4, <3>5
    <2>8. ASSUME NEW d \in Openers \cup Removers PROVE OpenIsFinal(d)'  BY <1>a, <2>c DEF OpenIsFinal
    <2>. QED  BY <2>1, <2>2, <2>3, <2>4, <2>5, <2>6, <2>7, <2>8 DEF FileInv
<1>19. CASE UNCHANGED fileVars
  BY <1>19 DEF fileVars, FileInv, FileTypes, DirectoriesStand, NamedIsFinal, Final, Stands,
               WrittenFirst, Sees, Keeps, OpenIsFinal
<1>. QED  BY <1>1, <1>2, <1>3, <1>4, <1>5, <1>6, <1>7, <1>8, <1>9,
             <1>10, <1>11, <1>12, <1>13, <1>14, <1>15, <1>16, <1>17, <1>18,
             <1>19 DEF FileNext

\* The store of crates/notes-blob is consistent after any history of calls:
\* names only for files that are whole and on disk, directories before names.
THEOREM FilesHold == FileSpec => []FileInv
<1>. QED  BY FileInvInit, FileInvStep, PTL DEF FileSpec

\* What install_reader has reported to be in the store is there, whole, until it
\* is removed, whatever is killed and whenever the power fails; but for calls
\* that relied on what another had not yet synced.
THEOREM ReportsSurvive == FileSpec => []ReportedStays
<1>1. FileInv => ReportedStays  BY DEF FileInv, ReportedStays, Keeps
<1>. QED  BY <1>1, FilesHold, PTL

\* No name ever shows part of a file, so that no install gives up on one
\* (verify_existing), and what open_verified has hashed is what is read.
THEOREM NamesStayWhole == FileSpec => []NamesAreWhole
<1>1. FileInv => NamesAreWhole
  BY DEF FileInv, FileTypes, NamesAreWhole, NamedIsFinal, OpenIsFinal, Final
<1>. QED  BY <1>1, FilesHold, PTL
=============================================================================
