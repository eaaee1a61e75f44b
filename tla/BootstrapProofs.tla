--------------------------- MODULE BootstrapProofs ---------------------------
(***************************************************************************)
(* How a replica and a server first agree, for any number of devices,      *)
(* edits and changes of address, whatever attempts overlap and wherever    *)
(* each of them ends: workspaces are adopted, never merged (OneWorkspace), *)
(* a bound device follows the server (BaselineHolds), and choosing as      *)
(* itself a device drops nothing (EditsSurviveFirstChoice).                *)
(*                                                                         *)
(* None of these is inductive: what an attempt carries from one step to    *)
(* the next ends up in a replica.  BootInv: a snapshot it holds is of one  *)
(* workspace however the server has changed since, and the rows it         *)
(* captured are of the identity its device has until it has imported       *)
(* something.  BaselineInv: a snapshot of the server's workspace follows   *)
(* it from its cursor on, what was captured is still shown and what came   *)
(* since is queued, so that the binding at the end follows it too.         *)
(***************************************************************************)
EXTENDS Bootstrap, SequenceTheorems, TLAPS

\* All of these edits were made in this workspace.
OfSpace(edits, space) == \A e \in edits : made[e] = space

\* What a replica has, and what an attempt of it carries.
Coherent(r, a) ==
    /\ OfSpace(r.shown, r.space)
    /\ OfSpace(r.queued, r.space)
    /\ OfSpace(a.remote.shown, a.remote.space)
    /\ a.stage \in {"choose", "bootstrap"} => OfSpace(a.local, r.space)
ServerCoherent == OfSpace(srv.base, srv.space) /\ OfSpace(Logged, srv.space)

Typed ==
    /\ dev \in [Machines -> Replicas]
    /\ srv \in Servers
    /\ attempt \in [Machines -> Attempts]
    /\ made \in [Edits -> Spaces \union {NoSpace}]

BootInv ==
    /\ Typed
    /\ \A d \in Machines : Coherent(dev[d], attempt[d])
    /\ ServerCoherent

-----------------------------------------------------------------------------

LEMMA NoAttemptType == NoAttempt \in Attempts
  BY DEF NoAttempt, Attempts, AttemptStages, Snapshots, Spaces

LEMMA InitIsCoherent == BootInit => BootInv
<1> SUFFICES ASSUME BootInit PROVE BootInv OBVIOUS
<1>1. Typed BY NoAttemptType DEF BootInit, Typed, Replicas, Servers, Spaces
<1>2. \A d \in Machines : Coherent(dev[d], attempt[d])
  BY DEF BootInit, Coherent, OfSpace, NoAttempt
<1>3. ServerCoherent BY DEF BootInit, ServerCoherent, OfSpace, Logged
<1> QED BY <1>1, <1>2, <1>3 DEF BootInv

\* The operations of the log are edits.
LEMMA LoggedType == ASSUME Typed PROVE Logged \subseteq Edits
  BY DEF Typed, Servers, Logged

\* A step of device d that makes no edit and leaves the server coherent.
LEMMA StepKeeps ==
  ASSUME BootInv, NEW d \in Machines,
         NEW r \in Replicas, dev' = [dev EXCEPT ![d] = r],
         NEW a \in Attempts, attempt' = [attempt EXCEPT ![d] = a],
         Coherent(r, a), made' = made, srv' \in Servers, ServerCoherent'
  PROVE  BootInv'
<1>1. Typed' BY DEF BootInv, Typed
<1>2. ASSUME NEW c \in Machines PROVE Coherent(dev'[c], attempt'[c])
  <2>1. CASE c = d BY <2>1 DEF BootInv, Typed
  <2>2. CASE c # d BY <2>2 DEF BootInv, Typed
  <2> QED BY <2>1, <2>2
<1>3. ASSUME NEW c \in Machines PROVE Coherent(dev[c], attempt[c])'
  BY <1>2 DEF Coherent, OfSpace
<1> QED BY <1>1, <1>3 DEF BootInv

\* The same when the server does not change.
LEMMA LocalStepKeeps ==
  ASSUME BootInv, NEW d \in Machines,
         NEW r \in Replicas, dev' = [dev EXCEPT ![d] = r],
         NEW a \in Attempts, attempt' = [attempt EXCEPT ![d] = a],
         Coherent(r, a), UNCHANGED <<made, srv>>
  PROVE  BootInv'
<1>1. srv' \in Servers /\ ServerCoherent'
  BY DEF BootInv, Typed, ServerCoherent, OfSpace, Logged
<1> QED BY <1>1, StepKeeps

-----------------------------------------------------------------------------
(* The records the steps make *)

LEMMA EditedIs ==
  ASSUME NEW r \in Replicas, NEW e \in Edits
  PROVE  /\ Edited(r, e) \in Replicas
         /\ Edited(r, e).shown = r.shown \union {e}
         /\ Edited(r, e).queued \subseteq r.queued \union {e}
         /\ Edited(r, e).space = r.space
  BY DEF Edited, Replicas

LEMMA ImportedIs ==
  ASSUME NEW r \in Replicas, NEW snapshot \in Snapshots
  PROVE  /\ Imported(r, snapshot) \in Replicas
         /\ Imported(r, snapshot).shown = snapshot.shown
         /\ Imported(r, snapshot).queued = {}
         /\ Imported(r, snapshot).space = snapshot.space
  BY DEF Imported, Replicas, Snapshots

LEMMA MovedOn ==
  ASSUME NEW a \in Attempts, NEW s \in AttemptStages
  PROVE  /\ [a EXCEPT !.stage = s] \in Attempts
         /\ [a EXCEPT !.stage = s].stage = s
         /\ [a EXCEPT !.stage = s].remote = a.remote
         /\ [a EXCEPT !.stage = s].local = a.local
  BY DEF Attempts

\* An attempt that ends carries nothing.
LEMMA AttemptEnds == ASSUME NEW r, NEW a, Coherent(r, a) PROVE Coherent(r, NoAttempt)
  BY DEF Coherent, NoAttempt, OfSpace

\* An attempt that goes on to a step that does not need the captured rows.
LEMMA AttemptGoesOn ==
  ASSUME NEW d \in Machines, BootInv, NEW s \in AttemptStages,
         s \notin {"choose", "bootstrap"} \/ attempt[d].stage \in {"choose", "bootstrap"},
         Goto(d, s), UNCHANGED <<dev, made, srv>>
  PROVE  BootInv'
<1> DEFINE a == [attempt[d] EXCEPT !.stage = s]
<1>1. attempt[d] \in Attempts /\ dev[d] \in Replicas BY DEF BootInv, Typed
<1>2. /\ a \in Attempts /\ a.stage = s
      /\ a.remote = attempt[d].remote /\ a.local = attempt[d].local
  BY <1>1, MovedOn
<1>3. attempt' = [attempt EXCEPT ![d] = a] BY DEF Goto
<1>4. dev' = [dev EXCEPT ![d] = dev[d]] BY DEF BootInv, Typed
<1> HIDE DEF a
<1>5. Coherent(dev[d], a) BY <1>2 DEF BootInv, Coherent
<1> QED BY <1>1, <1>2, <1>3, <1>4, <1>5, LocalStepKeeps

LEMMA ConfiguredIs ==
  ASSUME NEW r \in Replicas
  PROVE  LET n == [r EXCEPT !.configured = TRUE, !.bound = NoSpace]
         IN  n \in Replicas /\ n.shown = r.shown /\ n.queued = r.queued
                /\ n.space = r.space
  BY DEF Replicas

LEMMA BoundIs ==
  ASSUME NEW r \in Replicas, NEW k \in Nat
  PROVE  LET n == [r EXCEPT !.bound = r.space, !.cursor = k]
         IN  n \in Replicas /\ n.shown = r.shown /\ n.queued = r.queued
                /\ n.space = r.space
  BY DEF Replicas

LEMMA SentIs ==
  ASSUME NEW r \in Replicas, NEW e
  PROVE  LET n == [r EXCEPT !.queued = @ \ {e}]
         IN  n \in Replicas /\ n.shown = r.shown
                /\ n.queued = r.queued \ {e} /\ n.space = r.space
  BY DEF Replicas

Pulled(r, news, k) ==
    [r EXCEPT !.shown = @ \union news, !.queued = @ \ news, !.cursor = k]

LEMMA PulledIs ==
  ASSUME NEW r \in Replicas
  PROVE  \A news \in SUBSET Edits, k \in Nat :
            /\ Pulled(r, news, k) \in Replicas
            /\ Pulled(r, news, k).shown = r.shown \union news
            /\ Pulled(r, news, k).queued = r.queued \ news
            /\ Pulled(r, news, k).space = r.space
<1> TAKE news \in SUBSET Edits, k \in Nat
<1> QED BY DEF Replicas, Pulled

LEMMA FetchedIs ==
  ASSUME NEW snapshot \in Snapshots
  PROVE  LET n == [NoAttempt EXCEPT !.stage = "capture", !.remote = snapshot]
         IN  n \in Attempts /\ n.stage = "capture" /\ n.remote = snapshot
  BY NoAttemptType DEF Attempts, AttemptStages

LEMMA CapturedIs ==
  ASSUME NEW a \in Attempts, NEW r \in Replicas
  PROVE  LET n == [a EXCEPT !.stage = "choose", !.local = r.shown,
                            !.pending = r.queued]
         IN  n \in Attempts /\ n.local = r.shown /\ n.remote = a.remote
  BY DEF Attempts, AttemptStages, Replicas

LEMMA LoggedIs ==
  ASSUME NEW s \in Servers, NEW l \in Seq(Edits)
  PROVE  LET n == [s EXCEPT !.log = l]
         IN  n \in Servers /\ n.log = l /\ n.base = s.base /\ n.space = s.space
  BY DEF Servers

-----------------------------------------------------------------------------
(* MakeEdit *)

\* An edit not made yet is in no workspace's set.
LEMMA OfSpaceStays ==
  ASSUME Typed, NEW e \in Edits, made[e] = NoSpace, NEW w \in Spaces,
         made' = [made EXCEPT ![e] = w],
         NEW S \in SUBSET Edits, NEW v \in Spaces, OfSpace(S, v)
  PROVE  \A f \in S : made'[f] = v
<1>1. NoSpace # v BY BootstrapAssumption DEF Spaces
<1>2. e \notin S BY <1>1 DEF OfSpace
<1> QED BY <1>2 DEF OfSpace, Typed

LEMMA MakeEditKeeps ==
  ASSUME BootInv, NEW e \in Edits, MakeEdit(e)
  PROVE  BootInv'
<1> DEFINE d == EditorOf[e]
<1> DEFINE r == Edited(dev[d], e)
<1>1. d \in Machines BY BootstrapAssumption
<1>2. dev[d] \in Replicas /\ dev[d].space \in Spaces
  BY <1>1 DEF BootInv, Typed, Replicas
<1>3. /\ r \in Replicas /\ r.shown = dev[d].shown \union {e}
      /\ r.queued \subseteq dev[d].queued \union {e}
      /\ r.space = dev[d].space
  BY <1>2, EditedIs
<1>4. /\ made[e] = NoSpace /\ made' = [made EXCEPT ![e] = dev[d].space]
      /\ dev' = [dev EXCEPT ![d] = r]
      /\ srv' = srv /\ attempt' = attempt
  BY DEF MakeEdit, Set
<1>5. made'[e] = dev[d].space BY <1>4 DEF BootInv, Typed
<1>6. ASSUME NEW S \in SUBSET Edits, NEW v \in Spaces, OfSpace(S, v)
      PROVE  OfSpace(S, v)'
  BY <1>2, <1>4, <1>6, OfSpaceStays DEF BootInv, OfSpace
<1> HIDE DEF r, d
<1>7. Typed'
  <2>1. made' \in [Edits -> Spaces \union {NoSpace}]
    BY <1>2, <1>4 DEF BootInv, Typed
  <2> QED BY <1>1, <1>3, <1>4, <2>1 DEF BootInv, Typed
<1>8. ASSUME NEW c \in Machines PROVE Coherent(dev[c], attempt[c])'
  <2> DEFINE old == dev[c]
  <2> DEFINE a == attempt[c]
  <2>1. old \in Replicas /\ a \in Attempts BY DEF BootInv, Typed
  <2>2. Coherent(old, a) BY DEF BootInv
  <2>3. /\ old.shown \in SUBSET Edits /\ old.queued \in SUBSET Edits
        /\ old.space \in Spaces
    BY <2>1 DEF Replicas
  <2>4. /\ a.remote \in Snapshots /\ a.local \in SUBSET Edits
    BY <2>1 DEF Attempts
  <2>5. a.remote.shown \in SUBSET Edits /\ a.remote.space \in Spaces
    BY <2>4 DEF Snapshots
  <2> HIDE DEF old, a
  <2>6. /\ \A f \in old.shown : made'[f] = old.space
        /\ \A f \in old.queued : made'[f] = old.space
    BY <1>6, <2>2, <2>3 DEF Coherent, OfSpace
  <2>7. \A f \in a.remote.shown : made'[f] = a.remote.space
    BY <1>6, <2>2, <2>5 DEF Coherent, OfSpace
  <2>8. a.stage \in {"choose", "bootstrap"} => \A f \in a.local : made'[f] = old.space
    BY <1>6, <2>2, <2>3, <2>4 DEF Coherent, OfSpace
  <2>9. attempt'[c] = a BY <1>4 DEF a
  <2>10. /\ dev'[c].space = old.space
         /\ \A f \in dev'[c].shown : made'[f] = old.space
         /\ \A f \in dev'[c].queued : made'[f] = old.space
    <3>1. CASE c = d
      <4>1. dev'[c] = r BY <1>1, <1>4, <3>1 DEF BootInv, Typed
      <4> QED BY <1>3, <1>5, <2>6, <3>1, <4>1 DEF old
    <3>2. CASE c # d
      <4>1. dev'[c] = old BY <1>4, <3>2 DEF BootInv, Typed, old
      <4> QED BY <2>6, <4>1
    <3> QED BY <3>1, <3>2
  <2> QED BY <2>7, <2>8, <2>9, <2>10 DEF Coherent, OfSpace
<1>9. ServerCoherent'
  <2>1. srv.base \in SUBSET Edits /\ srv.space \in Spaces /\ Logged \in SUBSET Edits
    BY LoggedType DEF BootInv, Typed, Servers
  <2>2. OfSpace(srv.base, srv.space) /\ OfSpace(Logged, srv.space)
    BY DEF BootInv, ServerCoherent
  <2>3. /\ \A f \in srv.base : made'[f] = srv.space
        /\ \A f \in Logged : made'[f] = srv.space
    BY <1>6, <2>1, <2>2 DEF OfSpace
  <2> QED BY <1>4, <2>3 DEF ServerCoherent, OfSpace, Logged
<1> QED BY <1>7, <1>8, <1>9 DEF BootInv

-----------------------------------------------------------------------------
(* The steps of an attempt *)

\* Facts every step of device d starts from.
LEMMA Here ==
  ASSUME BootInv, NEW d \in Machines
  PROVE  /\ dev[d] \in Replicas /\ attempt[d] \in Attempts
         /\ Coherent(dev[d], attempt[d])
         /\ dev[d].shown \in SUBSET Edits /\ dev[d].queued \in SUBSET Edits
         /\ dev[d].space \in Spaces
         /\ attempt[d].remote \in Snapshots /\ attempt[d].local \in SUBSET Edits
         /\ dev = [dev EXCEPT ![d] = dev[d]]
         /\ srv \in Servers
<1>1. dev[d] \in Replicas /\ attempt[d] \in Attempts /\ srv \in Servers
  BY DEF BootInv, Typed
<1>2. dev = [dev EXCEPT ![d] = dev[d]] BY DEF BootInv, Typed
<1>3. Coherent(dev[d], attempt[d]) BY DEF BootInv
<1>4. /\ dev[d].shown \in SUBSET Edits /\ dev[d].queued \in SUBSET Edits
      /\ dev[d].space \in Spaces
  BY <1>1 DEF Replicas
<1>5. attempt[d].remote \in Snapshots /\ attempt[d].local \in SUBSET Edits
  BY <1>1 DEF Attempts
<1> QED BY <1>1, <1>2, <1>3, <1>4, <1>5

\* A step that ends the attempt and leaves what the replica holds.
LEMMA RestartKeeps ==
  ASSUME BootInv, NEW d \in Machines, NEW r \in Replicas,
         dev' = [dev EXCEPT ![d] = r],
         r.shown = dev[d].shown, r.queued = dev[d].queued, r.space = dev[d].space,
         attempt' = [attempt EXCEPT ![d] = NoAttempt], UNCHANGED <<made, srv>>
  PROVE  BootInv'
<1>1. Coherent(r, NoAttempt) BY Here, AttemptEnds DEF Coherent
<1> QED BY <1>1, NoAttemptType, LocalStepKeeps

LEMMA ConfigureKeeps ==
  ASSUME BootInv, NEW d \in Machines, Configure(d) PROVE BootInv'
<1> DEFINE r == [dev[d] EXCEPT !.configured = TRUE, !.bound = NoSpace]
<1>1. dev[d] \in Replicas BY Here
<1>2. /\ r \in Replicas /\ r.shown = dev[d].shown /\ r.queued = dev[d].queued
      /\ r.space = dev[d].space
  BY <1>1, ConfiguredIs
<1>3. /\ dev' = [dev EXCEPT ![d] = r]
      /\ attempt' = [attempt EXCEPT ![d] = NoAttempt] /\ UNCHANGED <<made, srv>>
  BY DEF Configure, Set
<1> HIDE DEF r
<1> QED BY <1>2, <1>3, RestartKeeps

LEMMA BindKeeps ==
  ASSUME BootInv, NEW d \in Machines, Bind(d) PROVE BootInv'
<1> DEFINE k == attempt[d].remote.seq
<1> DEFINE r == [dev[d] EXCEPT !.bound = dev[d].space, !.cursor = k]
<1>1. dev[d] \in Replicas /\ attempt[d].remote \in Snapshots BY Here
<1>2. k \in Nat BY <1>1 DEF Snapshots
<1>3. /\ dev' = [dev EXCEPT ![d] = r]
      /\ attempt' = [attempt EXCEPT ![d] = NoAttempt] /\ UNCHANGED <<made, srv>>
  BY DEF Bind, Set
<1> HIDE DEF k
<1>4. /\ r \in Replicas /\ r.shown = dev[d].shown /\ r.queued = dev[d].queued
      /\ r.space = dev[d].space
  BY <1>1, <1>2, BoundIs
<1> HIDE DEF r
<1> QED BY <1>3, <1>4, RestartKeeps

LEMMA EndAttemptKeeps ==
  ASSUME BootInv, NEW d \in Machines, EndAttempt(d) PROVE BootInv'
<1>1. dev' = [dev EXCEPT ![d] = dev[d]] BY Here DEF EndAttempt
<1>2. /\ attempt' = [attempt EXCEPT ![d] = NoAttempt] /\ UNCHANGED <<made, srv>>
  BY DEF EndAttempt
<1>3. dev[d] \in Replicas BY Here
<1> QED BY <1>1, <1>2, <1>3, RestartKeeps

LEMMA GotoKeeps ==
  ASSUME BootInv, NEW d \in Machines,
         CheckBinding(d) \/ Choose(d) \/ CheckIdentity(d)
  PROVE  BootInv'
<1>1. CASE CheckBinding(d)
  <2>1. Goto(d, "conflict") /\ UNCHANGED <<dev, made, srv>> BY <1>1 DEF CheckBinding
  <2> QED BY <2>1, AttemptGoesOn DEF AttemptStages
<1>2. CASE CheckIdentity(d)
  <2>1. PICK s \in {"bind", "conflict"} : Goto(d, s)
    <3>1. CASE dev[d].space = srv.space BY <1>2, <3>1 DEF CheckIdentity
    <3>2. CASE dev[d].space # srv.space BY <1>2, <3>2 DEF CheckIdentity
    <3> QED BY <3>1, <3>2
  <2>2. UNCHANGED <<dev, made, srv>> BY <1>2 DEF CheckIdentity
  <2> QED BY <2>1, <2>2, AttemptGoesOn DEF AttemptStages
<1>3. CASE Choose(d)
  <2> DEFINE a == attempt[d]
  <2> DEFINE same == /\ dev[d].space = a.remote.space
                     /\ a.local = a.remote.shown \/ OutboxExplains(a)
  <2> DEFINE s == CASE a.remote.shown = {} /\ a.local # {} -> "bootstrap"
                    [] a.local = {}                        -> "import"
                    [] a.remote.shown # {} /\ a.local # {} ->
                           IF same THEN "check" ELSE "conflict"
  <2>1. a.stage = "choose" /\ Goto(d, s) /\ UNCHANGED <<dev, made, srv>>
    BY <1>3 DEF Choose
  <2>2. s \in AttemptStages
    <3> HIDE DEF same, a
    <3> QED BY DEF AttemptStages
  <2> HIDE DEF s
  <2> QED BY <2>1, <2>2, AttemptGoesOn
<1> QED BY <1>1, <1>2, <1>3

LEMMA FetchSnapshotKeeps ==
  ASSUME BootInv, NEW d \in Machines, FetchSnapshot(d) PROVE BootInv'
<1> DEFINE a == [NoAttempt EXCEPT !.stage = "capture", !.remote = ServerSnapshot]
<1>1. /\ ServerSnapshot \in Snapshots
      /\ OfSpace(ServerSnapshot.shown, ServerSnapshot.space)
  <2>1. ServerShows \in SUBSET Edits /\ srv.space \in Spaces /\ Len(srv.log) \in Nat
    BY LoggedType DEF BootInv, Typed, Servers, ServerShows
  <2>2. OfSpace(ServerShows, srv.space)
    BY DEF BootInv, ServerCoherent, ServerShows, OfSpace
  <2> QED BY <2>1, <2>2 DEF ServerSnapshot, Snapshots
<1>2. /\ attempt' = [attempt EXCEPT ![d] = a] /\ UNCHANGED <<dev, made, srv>>
  BY DEF FetchSnapshot
<1>3. a \in Attempts /\ a.stage = "capture" /\ a.remote = ServerSnapshot
  BY <1>1, FetchedIs
<1> HIDE DEF a
<1>4. Coherent(dev[d], a) BY <1>1, <1>3, Here DEF Coherent
<1>5. dev' = [dev EXCEPT ![d] = dev[d]] /\ dev[d] \in Replicas BY <1>2, Here
<1> QED BY <1>2, <1>3, <1>4, <1>5, LocalStepKeeps

LEMMA CaptureKeeps ==
  ASSUME BootInv, NEW d \in Machines, Capture(d) PROVE BootInv'
<1> DEFINE r == dev[d]
<1> DEFINE a == [attempt[d] EXCEPT !.stage = "choose", !.local = r.shown,
                                   !.pending = r.queued]
<1>1. attempt[d] \in Attempts /\ r \in Replicas BY Here
<1>2. /\ attempt' = [attempt EXCEPT ![d].stage = "choose", ![d].local = r.shown,
                                    ![d].pending = r.queued]
      /\ UNCHANGED <<dev, made, srv>>
  BY DEF Capture
<1>3. attempt' = [attempt EXCEPT ![d] = a]
  BY <1>2 DEF BootInv, Typed
<1>4. OfSpace(r.shown, r.space) BY Here DEF Coherent
<1>5. Coherent(r, attempt[d]) /\ dev' = [dev EXCEPT ![d] = r] BY <1>2, Here
<1> HIDE DEF r
<1>6. a \in Attempts /\ a.local = r.shown /\ a.remote = attempt[d].remote
  BY <1>1, CapturedIs
<1> HIDE DEF a
<1>7. Coherent(r, a) BY <1>4, <1>5, <1>6 DEF Coherent
<1> QED BY <1>1, <1>2, <1>3, <1>5, <1>6, <1>7, LocalStepKeeps

LEMMA BootstrapServerKeeps ==
  ASSUME BootInv, NEW d \in Machines, BootstrapServer(d) PROVE BootInv'
<1>1. CASE ~ServerIsEmpty
  <2>1. Goto(d, "idle") /\ UNCHANGED <<dev, made, srv>> BY <1>1 DEF BootstrapServer
  <2> QED BY <2>1, AttemptGoesOn DEF AttemptStages
<1>2. CASE ServerIsEmpty
  <2> DEFINE a == [attempt[d] EXCEPT !.stage = "check"]
  <2>1. /\ attempt[d].stage = "bootstrap" /\ UNCHANGED <<dev, made>>
        /\ srv' = [space |-> dev[d].space, base |-> attempt[d].local, log |-> <<>>]
        /\ attempt' = [attempt EXCEPT ![d] = a]
    BY <1>2 DEF BootstrapServer, Goto
  <2>2. srv' \in Servers BY <2>1, Here DEF Servers
  <2>3. OfSpace(attempt[d].local, dev[d].space) BY <2>1, Here DEF Coherent
  <2>4. ServerCoherent' BY <2>1, <2>3 DEF ServerCoherent, OfSpace, Logged
  <2>5. a \in Attempts /\ a.stage = "check" /\ a.remote = attempt[d].remote
    BY Here, MovedOn DEF AttemptStages
  <2> HIDE DEF a
  <2>6. Coherent(dev[d], a) BY <2>5, Here DEF Coherent
  <2>7. dev' = [dev EXCEPT ![d] = dev[d]] /\ dev[d] \in Replicas /\ made' = made
    BY <2>1, Here
  <2> QED BY <2>1, <2>2, <2>4, <2>5, <2>6, <2>7, StepKeeps
<1> QED BY <1>1, <1>2

LEMMA ImportSnapshotKeeps ==
  ASSUME BootInv, NEW d \in Machines, ImportSnapshot(d) PROVE BootInv'
<1> DEFINE snapshot == attempt[d].remote
<1>1. CASE dev[d].space # snapshot.space /\ dev[d].shown # {}
  <2>1. Goto(d, "idle") /\ UNCHANGED <<dev, made, srv>> BY <1>1 DEF ImportSnapshot
  <2> QED BY <2>1, AttemptGoesOn DEF AttemptStages
<1>2. CASE ~(dev[d].space # snapshot.space /\ dev[d].shown # {})
  <2> DEFINE a == [attempt[d] EXCEPT !.stage = "check"]
  <2> DEFINE r == Imported(dev[d], snapshot)
  <2>1. /\ dev' = [dev EXCEPT ![d] = r] /\ UNCHANGED <<made, srv>>
        /\ attempt' = [attempt EXCEPT ![d] = a]
    BY <1>2 DEF ImportSnapshot, Goto, Set
  <2>2. /\ r \in Replicas /\ r.shown = snapshot.shown /\ r.queued = {}
        /\ r.space = snapshot.space
    BY Here, ImportedIs
  <2>3. a \in Attempts /\ a.stage = "check" /\ a.remote = snapshot
    BY Here, MovedOn DEF AttemptStages
  <2>4. OfSpace(snapshot.shown, snapshot.space) BY Here DEF Coherent
  <2> HIDE DEF a, r, snapshot
  <2>5. Coherent(r, a) BY <2>2, <2>3, <2>4 DEF Coherent, OfSpace
  <2> QED BY <2>1, <2>2, <2>3, <2>5, LocalStepKeeps
<1> QED BY <1>1, <1>2

-----------------------------------------------------------------------------
(* Bound devices *)

LEMMA PushEditKeeps ==
  ASSUME BootInv, NEW d \in Machines, PushEdit(d) PROVE BootInv'
<1>1. PICK e \in dev[d].queued :
        /\ srv' = IF e \in Logged THEN srv ELSE [srv EXCEPT !.log = Append(@, e)]
        /\ Set(d, [dev[d] EXCEPT !.queued = @ \ {e}])
  BY DEF PushEdit
<1>2. dev[d].space = srv.space /\ attempt' = attempt /\ made' = made
  BY DEF PushEdit, Joined
<1> DEFINE r == [dev[d] EXCEPT !.queued = @ \ {e}]
<1> DEFINE a == attempt[d]
<1>3. e \in Edits /\ made[e] = srv.space BY <1>2, Here DEF Coherent, OfSpace
<1>4. /\ r \in Replicas /\ r.shown = dev[d].shown
      /\ r.queued = dev[d].queued \ {e} /\ r.space = dev[d].space
  BY Here, SentIs
<1>5. dev' = [dev EXCEPT ![d] = r] BY <1>1 DEF Set
<1>6. srv' \in Servers /\ ServerCoherent'
  <2>1. CASE e \in Logged
    BY <1>1, <1>2, <2>1 DEF BootInv, Typed, ServerCoherent, OfSpace, Logged
  <2>2. CASE e \notin Logged
    <3> DEFINE l == Append(srv.log, e)
    <3> DEFINE s == [srv EXCEPT !.log = l]
    <3>1. srv' = s BY <1>1, <2>2
    <3>3. srv.log \in Seq(Edits) BY Here DEF Servers
    <3>4. l \in Seq(Edits) BY <1>3, <3>3
    <3> HIDE DEF l
    <3>2. s \in Servers /\ s.log = l /\ s.base = srv.base /\ s.space = srv.space
      BY <3>4, Here, LoggedIs
    <3> HIDE DEF s
    <3>5. /\ \A i \in DOMAIN srv'.log : i \in DOMAIN srv.log \/ srv'.log[i] = e
          /\ \A i \in DOMAIN srv.log : srv'.log[i] = srv.log[i]
      BY <3>1, <3>2, <3>3 DEF l
    <3>6. Logged' \subseteq Logged \union {e} BY <3>5 DEF Logged
    <3>7. OfSpace(srv.base, srv.space) /\ OfSpace(Logged, srv.space)
      BY DEF BootInv, ServerCoherent
    <3>8. \A f \in Logged' : made'[f] = srv'.space
      BY <1>2, <1>3, <3>1, <3>2, <3>6, <3>7 DEF OfSpace
    <3>9. \A f \in srv'.base : made'[f] = srv'.space
      BY <1>2, <3>1, <3>2, <3>7 DEF OfSpace
    <3>10. ServerCoherent' BY <3>8, <3>9 DEF ServerCoherent, OfSpace
    <3> QED BY <3>1, <3>2, <3>10
  <2> QED BY <2>1, <2>2
<1>7. attempt' = [attempt EXCEPT ![d] = a] BY <1>2 DEF BootInv, Typed
<1> HIDE DEF r
<1>8. Coherent(r, a) BY <1>4, Here DEF Coherent, OfSpace
<1>9. a \in Attempts BY Here
<1> QED BY <1>2, <1>4, <1>5, <1>6, <1>7, <1>8, <1>9, StepKeeps

LEMMA PullEditsKeeps ==
  ASSUME BootInv, NEW d \in Machines, PullEdits(d) PROVE BootInv'
<1> DEFINE news == {srv.log[i] : i \in (dev[d].cursor + 1) .. Len(srv.log)}
<1> DEFINE k == Len(srv.log)
<1> DEFINE r == Pulled(dev[d], news, k)
<1> DEFINE a == attempt[d]
<1>1. /\ dev[d].space = srv.space /\ attempt' = attempt /\ UNCHANGED <<made, srv>>
      /\ dev' = [dev EXCEPT ![d] = r]
  BY DEF PullEdits, Joined, Set, Pulled
<1>2. srv.log \in Seq(Edits) /\ dev[d].cursor \in Nat
  BY Here DEF Servers, Replicas
<1>3. k \in Nat /\ news \subseteq Logged BY <1>2 DEF Logged
<1>4. news \in SUBSET Edits BY <1>3, LoggedType DEF BootInv
<1>5. OfSpace(news, dev[d].space)
  BY <1>1, <1>3 DEF BootInv, ServerCoherent, OfSpace
<1> HIDE DEF news, k
<1>6. /\ r \in Replicas /\ r.shown = dev[d].shown \union news
      /\ r.queued = dev[d].queued \ news /\ r.space = dev[d].space
  <2>1. dev[d] \in Replicas BY Here
  <2>2. \A new \in SUBSET Edits, c \in Nat :
            /\ Pulled(dev[d], new, c) \in Replicas
            /\ Pulled(dev[d], new, c).shown = dev[d].shown \union new
            /\ Pulled(dev[d], new, c).queued = dev[d].queued \ new
            /\ Pulled(dev[d], new, c).space = dev[d].space
    BY <2>1, PulledIs
  <2>3. k \in Nat BY <1>3
  <2> QED BY <1>4, <2>2, <2>3
<1> HIDE DEF r
<1>7. Coherent(r, a) BY <1>5, <1>6, Here DEF Coherent, OfSpace
<1>8. attempt' = [attempt EXCEPT ![d] = a] /\ a \in Attempts
  BY <1>1 DEF BootInv, Typed
<1> QED BY <1>1, <1>6, <1>7, <1>8, LocalStepKeeps

-----------------------------------------------------------------------------

LEMMA NextKeeps == ASSUME BootInv, [BootNext]_bootVars PROVE BootInv'
<1>1. CASE UNCHANGED bootVars
  BY <1>1 DEF BootInv, Typed, Coherent, OfSpace, ServerCoherent, Logged, bootVars
<1>2. ASSUME NEW e \in Edits, MakeEdit(e) PROVE BootInv' BY <1>2, MakeEditKeeps
<1>3. ASSUME NEW d \in Machines, BootStep(d) PROVE BootInv'
  BY <1>3, ConfigureKeeps, GotoKeeps, FetchSnapshotKeeps, CaptureKeeps,
     BootstrapServerKeeps, ImportSnapshotKeeps, BindKeeps, EndAttemptKeeps,
     PushEditKeeps, PullEditsKeeps
     DEF BootStep
<1> QED BY <1>1, <1>2, <1>3 DEF BootNext

\* Whatever a replica shows and queues is of its identity, and whatever an
\* attempt carries is of the identity it will be stored under: the snapshot it
\* downloaded, however old, and the rows it captured (initialize_replica).
THEOREM WorkspacesAreCoherent == BootSpec => []BootInv
<1>1. BootInit => BootInv BY InitIsCoherent
<1>2. BootInv /\ [BootNext]_bootVars => BootInv' BY NextKeeps
<1> QED BY <1>1, <1>2, PTL DEF BootSpec

\* No replica and no log ever holds an edit of another workspace, for any
\* number of devices and edits, and wherever attempts end (import_sync_snapshot,
\* bootstrap_replica).
THEOREM OneWorkspaceHolds == BootSpec => []OneWorkspace
<1>1. BootInv => OneWorkspace
  BY DEF BootInv, OneWorkspace, Coherent, ServerCoherent, ServerShows, OfSpace
<1> QED BY <1>1, WorkspacesAreCoherent, PTL

----------------------------------------------------------------------------
(* What a replica shows, against the server *)

After(n) == {srv.log[i] : i \in (n + 1) .. Len(srv.log)}
Queues == UNION {dev[c].queued : c \in Machines}

\* Rows that reached the cursor n: the operations up to it, and the baseline,
\* of which the log or an outbox may still bring a part.
Follows(rows, n) ==
    /\ n <= Len(srv.log)
    /\ Upto(n) \subseteq rows
    /\ srv.base \subseteq rows \union After(n) \union Queues

\* Where a replica's identity and the one of its snapshot come from.
Placed(c, r, a) ==
    /\ r.space \in {c, Server, srv.space}
    /\ a.remote.space \in {Server, srv.space}
    /\ ~r.configured => r.space = c /\ r.bound = NoSpace /\ a.stage = "idle"
    /\ r.bound # NoSpace => a.stage \in {"idle", "conflict"}

\* An outbox holds edits of its device, which the device shows; those that are
\* in the baseline too are never given up for a snapshot.
Owns(c, r, a) ==
    /\ \A e \in r.queued : EditorOf[e] = c
    /\ r.queued \subseteq r.shown
    /\ \A e \in r.queued \intersect srv.base :
          /\ a.stage # "import"
          /\ a.stage \in {"choose", "bootstrap"} => e \in a.local

\* What was captured is still shown, and what came since is queued.
Captures(r, a) ==
    /\ a.remote.shown = {} => a.remote.seq = 0
    /\ a.stage \in {"choose", "bootstrap"} =>
          /\ a.local \subseteq r.shown
          /\ r.shown \subseteq a.local \union r.queued
          /\ a.pending \subseteq r.queued
    /\ a.stage = "bootstrap" => a.local # {} /\ a.remote.shown = {}

\* A snapshot of the server's workspace, however old; and a replica of it, bound
\* or about to be bound.
Fetched(a) ==
    a.stage \notin {"idle", "conflict"} /\ a.remote.space = srv.space =>
        /\ Follows(a.remote.shown, a.remote.seq)
        /\ a.remote.shown \subseteq ServerShows
Agrees(r, n) ==
    r.space = srv.space =>
        /\ Follows(r.shown, n)
        /\ r.shown \subseteq ServerShows \union r.queued
Current(r, a) ==
    /\ Fetched(a)
    /\ a.stage \in {"check", "bind"} => Agrees(r, a.remote.seq)
    /\ r.bound # NoSpace => Agrees(r, r.cursor)
    /\ ServerIsEmpty /\ r.space = srv.space => r.shown \subseteq r.queued

\* A device that chooses as itself; the server holds its workspace only with
\* rows it shows, so that it has something and imports nothing.
Itself(c, r, a) ==
    /\ a.stage \in {"capture", "choose", "bootstrap", "import"} /\ c \notin again =>
          r.space = c
    /\ srv.space = c =>
          /\ r.space = c
          /\ srv.base \subseteq r.shown
          /\ a.stage = "choose" => a.local # {}
          /\ a.stage # "import"

Fits(c, r, a) ==
    Placed(c, r, a) /\ Owns(c, r, a) /\ Captures(r, a) /\ Current(r, a) /\ Itself(c, r, a)

\* The server has a workspace of a device only with that device's rows.
Adopted == srv.space # Server => srv.base # {}


BaselineInv == Adopted /\ \A c \in Machines : Fits(c, dev[c], attempt[c])

-----------------------------------------------------------------------------
(* Steps that leave the server's workspace in place *)

\* The log only grows, and an edit of the baseline leaves the outboxes only for
\* the log.
Calm ==
    /\ srv'.space = srv.space /\ srv'.base = srv.base
    /\ Len(srv.log) <= Len(srv'.log)
    /\ \A i \in 1 .. Len(srv.log) : srv'.log[i] = srv.log[i]
    /\ \A e \in Queues \intersect srv.base : e \in Queues' \union Logged'
    /\ again \subseteq again'

LEMMA FollowsStays ==
  ASSUME srv \in Servers, srv' \in Servers, Calm,
         NEW rows, NEW n \in Nat, Follows(rows, n)
  PROVE  Follows(rows, n)'
<1>1. /\ srv.log \in Seq(Edits) /\ srv'.log \in Seq(Edits)
      /\ Len(srv.log) \in Nat /\ Len(srv'.log) \in Nat
  BY DEF Servers
<1>2. n <= Len(srv.log) /\ n <= Len(srv'.log) BY <1>1 DEF Follows, Calm
<1>3. Upto(n)' = Upto(n) BY <1>1, <1>2 DEF Upto, Calm
<1>4. After(n) \subseteq After(n)' BY <1>1, <1>2 DEF After, Calm
<1>5. Logged' \subseteq Upto(n)' \union After(n)'
  BY <1>1, <1>2 DEF Logged, Upto, After
<1>6. ASSUME NEW e \in srv.base PROVE e \in rows \union After(n)' \union Queues'
  <2>1. CASE e \in rows \union After(n) BY <2>1, <1>4
  <2>2. CASE e \in Queues
    <3>1. e \in Queues' \union Logged' BY <2>2 DEF Calm
    <3> QED BY <3>1, <1>3, <1>5 DEF Follows
  <2> QED BY <2>1, <2>2 DEF Follows
<1>7. srv'.base = srv.base BY DEF Calm
<1>8. Upto(n)' \subseteq rows BY <1>3 DEF Follows
<1> QED BY <1>2, <1>6, <1>7, <1>8 DEF Follows

LEMMA ServerShowsStay ==
  ASSUME srv \in Servers, srv' \in Servers, Calm
  PROVE  ServerShows \subseteq ServerShows' /\ (ServerIsEmpty' => ServerIsEmpty)
<1>1. /\ srv.log \in Seq(Edits) /\ srv'.log \in Seq(Edits)
      /\ Len(srv.log) \in Nat /\ Len(srv'.log) \in Nat
  BY DEF Servers
<1>2. Logged \subseteq Logged' BY <1>1 DEF Logged, Calm
<1>3. ServerShows \subseteq ServerShows' BY <1>2 DEF ServerShows, Calm
<1>4. ASSUME ServerIsEmpty' PROVE ServerIsEmpty
  <2>1. srv'.log = <<>> BY <1>4 DEF ServerIsEmpty
  <2>2. Len(srv'.log) = 0 BY <2>1, <1>1
  <2>3. Len(srv.log) = 0 BY <2>2, <1>1 DEF Calm
  <2> QED BY <2>3, <1>1, <1>4 DEF ServerIsEmpty, Calm
<1> QED BY <1>3, <1>4

\* What holds of a replica and its attempt goes on holding of them.
LEMMA FitsStays ==
  ASSUME srv \in Servers, srv' \in Servers, Calm, NEW c \in Machines,
         NEW r \in Replicas, NEW a \in Attempts, Fits(c, r, a)
  PROVE  Fits(c, r, a)'
<1>1. /\ srv'.space = srv.space /\ srv'.base = srv.base /\ again \subseteq again'
      /\ ServerShows \subseteq ServerShows' /\ (ServerIsEmpty' => ServerIsEmpty)
  BY ServerShowsStay DEF Calm
<1>2. r.cursor \in Nat /\ a.remote \in Snapshots BY DEF Replicas, Attempts
<1>3. a.remote.seq \in Nat BY <1>2 DEF Snapshots
<1>4. ASSUME NEW n \in Nat, Agrees(r, n) PROVE Agrees(r, n)'
  <2>1. SUFFICES ASSUME r.space = srv.space
                 PROVE  Follows(r.shown, n)' /\ r.shown \subseteq ServerShows' \union r.queued
    BY <1>1 DEF Agrees
  <2>2. Follows(r.shown, n) /\ r.shown \subseteq ServerShows \union r.queued
    BY <1>4, <2>1 DEF Agrees
  <2>3. Follows(r.shown, n)' BY <2>2, FollowsStays
  <2> QED BY <2>2, <2>3, <1>1
<1>5. Fetched(a)'
  <2>1. SUFFICES ASSUME a.stage \notin {"idle", "conflict"}, a.remote.space = srv.space
                 PROVE  /\ Follows(a.remote.shown, a.remote.seq)'
                        /\ a.remote.shown \subseteq ServerShows'
    BY <1>1 DEF Fetched
  <2>2. /\ Follows(a.remote.shown, a.remote.seq)
        /\ a.remote.shown \subseteq ServerShows
    BY <2>1 DEF Fits, Current, Fetched
  <2>3. Follows(a.remote.shown, a.remote.seq)' BY <1>3, <2>2, FollowsStays
  <2> QED BY <2>2, <2>3, <1>1
<1>6. Current(r, a)' BY <1>1, <1>2, <1>3, <1>4, <1>5 DEF Fits, Current
<1>7. Placed(c, r, a)' BY <1>1 DEF Fits, Placed
<1>8. Owns(c, r, a)' BY <1>1 DEF Fits, Owns
<1>9. Captures(r, a)' BY DEF Fits, Captures
<1>10. Itself(c, r, a)' BY <1>1 DEF Fits, Itself
<1> QED BY <1>6, <1>7, <1>8, <1>9, <1>10 DEF Fits

LEMMA OutboxesAre ==
  ASSUME BootInv, NEW d \in Machines, NEW r \in Replicas,
         dev' = [dev EXCEPT ![d] = r]
  PROVE  /\ r.queued \subseteq Queues'
         /\ \A e \in Queues : e \in dev[d].queued \/ e \in Queues'
<1>1. /\ dev'[d] = r /\ \A c \in Machines \ {d} : dev'[c] = dev[c]
  BY DEF BootInv, Typed
<1> QED BY <1>1 DEF Queues

LEMMA StepIsCalm ==
  ASSUME BootInv, NEW d \in Machines, NEW r \in Replicas,
         dev' = [dev EXCEPT ![d] = r],
         srv' = srv, again \subseteq again',
         \A e \in dev[d].queued \intersect srv.base : e \in r.queued \union Logged
  PROVE  Calm
<1>1. \A e \in Queues \intersect srv.base : e \in Queues' \union Logged'
  <2>1. Logged' = Logged BY DEF Logged
  <2> QED BY <2>1, OutboxesAre
<1>2. Len(srv.log) \in Nat BY DEF BootInv, Typed, Servers
<1> QED BY <1>1, <1>2 DEF Calm

\* A calm step of device d.
LEMMA OthersFit ==
  ASSUME BootInv, BootInv', BaselineInv, Calm, NEW d \in Machines,
         NEW r \in Replicas, dev' = [dev EXCEPT ![d] = r],
         NEW a \in Attempts, attempt' = [attempt EXCEPT ![d] = a],
         Fits(d, r, a)'
  PROVE  BaselineInv'
<1>1. srv \in Servers /\ srv' \in Servers BY DEF BootInv, Typed
<1>2. Adopted' BY DEF BaselineInv, Adopted, Calm
<1>3. ASSUME NEW c \in Machines PROVE Fits(c, dev[c], attempt[c])'
  <2>1. CASE c = d
    <3>1. dev'[c] = r /\ attempt'[c] = a BY <2>1 DEF BootInv, Typed
    <3> QED BY <3>1, <2>1 DEF Fits, Placed, Owns, Captures, Current, Fetched,
            Agrees, Follows, Itself
  <2>2. CASE c # d
    <3>1. dev'[c] = dev[c] /\ attempt'[c] = attempt[c] BY <2>2 DEF BootInv, Typed
    <3>2. dev[c] \in Replicas /\ attempt[c] \in Attempts BY DEF BootInv, Typed
    <3>3. Fits(c, dev[c], attempt[c]) BY DEF BaselineInv
    <3>4. PICK q, b : q = dev[c] /\ b = attempt[c] OBVIOUS
    <3>5. Fits(c, q, b)' BY <1>1, <3>2, <3>3, <3>4, FitsStays
    <3> QED BY <3>1, <3>4, <3>5 DEF Fits, Placed, Owns, Captures, Current, Fetched,
            Agrees, Follows, Itself
  <2> QED BY <2>1, <2>2
<1> QED BY <1>2, <1>3 DEF BaselineInv

\* The same when the device's part follows from the state before.
LEMMA DeviceFits ==
  ASSUME BootInv, BootInv', BaselineInv, Calm, NEW d \in Machines,
         NEW r \in Replicas, dev' = [dev EXCEPT ![d] = r],
         NEW a \in Attempts, attempt' = [attempt EXCEPT ![d] = a],
         Fits(d, r, a)
  PROVE  BaselineInv'
<1>1. srv \in Servers /\ srv' \in Servers BY DEF BootInv, Typed
<1>2. Fits(d, r, a)' BY <1>1, FitsStays
<1> QED BY <1>2, OthersFit

-----------------------------------------------------------------------------
(* Steps of one device that leave the server alone *)

LEMMA FollowsMore ==
  ASSUME NEW rows, NEW more, NEW n, Follows(rows, n), rows \subseteq more
  PROVE  Follows(more, n)
  BY DEF Follows

\* A replica without an attempt.
LEMMA RestingFits ==
  ASSUME NEW c, NEW q, NEW b, Fits(c, q, b), NEW r,
         r.shown = q.shown, r.queued = q.queued, r.space = q.space,
         \/ r.configured
         \/ r.configured = q.configured /\ r.bound = q.bound,
         r.bound # NoSpace => Agrees(r, r.cursor)
  PROVE  Fits(c, r, NoAttempt)
<1>1. /\ NoAttempt.stage = "idle" /\ NoAttempt.remote.space = Server
      /\ NoAttempt.remote.shown = {} /\ NoAttempt.remote.seq = 0
  BY DEF NoAttempt
<1>2. Placed(c, r, NoAttempt) BY <1>1 DEF Fits, Placed
<1>3. Owns(c, r, NoAttempt) BY <1>1 DEF Fits, Owns
<1>4. Captures(r, NoAttempt) BY <1>1 DEF Captures
<1>5. Current(r, NoAttempt) BY <1>1 DEF Fits, Current, Fetched
<1>6. Itself(c, r, NoAttempt) BY <1>1 DEF Fits, Itself
<1> QED BY <1>2, <1>3, <1>4, <1>5, <1>6 DEF Fits

LEMMA RestFits ==
  ASSUME BootInv, BootInv', BaselineInv, NEW d \in Machines, NEW r \in Replicas,
         dev' = [dev EXCEPT ![d] = r], attempt' = [attempt EXCEPT ![d] = NoAttempt],
         srv' = srv, again' = again,
         r.shown = dev[d].shown, r.queued = dev[d].queued, r.space = dev[d].space,
         \/ r.configured
         \/ r.configured = dev[d].configured /\ r.bound = dev[d].bound,
         r.bound # NoSpace => Agrees(r, r.cursor)
  PROVE  BaselineInv'
<1>1. Fits(d, dev[d], attempt[d]) BY DEF BaselineInv
<1>2. PICK q, b : q = dev[d] /\ b = attempt[d] OBVIOUS
<1>3. Fits(d, r, NoAttempt) BY <1>1, <1>2, RestingFits
<1>4. Calm BY StepIsCalm
<1> QED BY <1>3, <1>4, NoAttemptType, DeviceFits

LEMMA ConfigureFits ==
  ASSUME BootInv, BootInv', BaselineInv, NEW d \in Machines, Configure(d)
  PROVE  BaselineInv'
<1> DEFINE r == [dev[d] EXCEPT !.configured = TRUE, !.bound = NoSpace]
<1>1. dev[d] \in Replicas BY Here
<1>2. /\ r \in Replicas /\ r.shown = dev[d].shown /\ r.queued = dev[d].queued
      /\ r.space = dev[d].space
  BY <1>1, ConfiguredIs
<1>3. r.configured = TRUE /\ r.bound = NoSpace BY <1>1 DEF Replicas
<1>4. /\ dev' = [dev EXCEPT ![d] = r]
      /\ attempt' = [attempt EXCEPT ![d] = NoAttempt] /\ srv' = srv /\ again' = again
  BY DEF Configure, Set
<1> HIDE DEF r
<1> QED BY <1>2, <1>3, <1>4, RestFits

LEMMA EndAttemptFits ==
  ASSUME BootInv, BootInv', BaselineInv, NEW d \in Machines, EndAttempt(d)
  PROVE  BaselineInv'
<1>1. /\ dev' = [dev EXCEPT ![d] = dev[d]] /\ dev[d] \in Replicas
      /\ attempt' = [attempt EXCEPT ![d] = NoAttempt] /\ srv' = srv /\ again' = again
  BY Here DEF EndAttempt
<1>2. dev[d].bound # NoSpace => Agrees(dev[d], dev[d].cursor)
  BY DEF BaselineInv, Fits, Current
<1> QED BY <1>1, <1>2, RestFits

LEMMA BindFits ==
  ASSUME BootInv, BootInv', BaselineInv, NEW d \in Machines, Bind(d)
  PROVE  BaselineInv'
<1> DEFINE k == attempt[d].remote.seq
<1> DEFINE r == [dev[d] EXCEPT !.bound = dev[d].space, !.cursor = k]
<1>1. dev[d] \in Replicas /\ attempt[d].remote \in Snapshots BY Here
<1>2. k \in Nat BY <1>1 DEF Snapshots
<1>3. /\ dev' = [dev EXCEPT ![d] = r]
      /\ attempt' = [attempt EXCEPT ![d] = NoAttempt] /\ srv' = srv /\ again' = again
  BY DEF Bind, Set
<1>4. attempt[d].stage = "bind" BY DEF Bind
<1>5. Fits(d, dev[d], attempt[d]) BY DEF BaselineInv
<1>6. dev[d].configured /\ Agrees(dev[d], k)
  BY <1>1, <1>4, <1>5 DEF Fits, Placed, Current, Replicas
<1> HIDE DEF k
<1>7. /\ r \in Replicas /\ r.shown = dev[d].shown /\ r.queued = dev[d].queued
      /\ r.space = dev[d].space
  BY <1>1, <1>2, BoundIs
<1>8. r.configured = dev[d].configured /\ r.cursor = k BY <1>1 DEF Replicas
<1> HIDE DEF r
<1>9. Agrees(r, r.cursor) BY <1>6, <1>7, <1>8 DEF Agrees
<1> QED BY <1>3, <1>6, <1>7, <1>8, <1>9, RestFits

-----------------------------------------------------------------------------
(* Steps of an attempt *)

\* An attempt that goes to stage s.
LEMMA StageFits ==
  ASSUME BootInv, BootInv', BaselineInv, NEW d \in Machines, NEW s \in AttemptStages,
         Goto(d, s), UNCHANGED <<dev, srv, again>>,
         \A a \in Attempts :
            /\ a.stage = s /\ a.remote = attempt[d].remote
            /\ a.local = attempt[d].local /\ a.pending = attempt[d].pending
            => Fits(d, dev[d], a)
  PROVE  BaselineInv'
<1> DEFINE a == [attempt[d] EXCEPT !.stage = s]
<1>1. attempt[d] \in Attempts /\ dev[d] \in Replicas BY Here
<1>2. /\ a \in Attempts /\ a.stage = s
      /\ a.remote = attempt[d].remote /\ a.local = attempt[d].local
  BY <1>1, MovedOn
<1>3. a.pending = attempt[d].pending BY <1>1 DEF Attempts
<1>4. attempt' = [attempt EXCEPT ![d] = a] BY DEF Goto
<1> HIDE DEF a
<1>5. Fits(d, dev[d], a) BY <1>2, <1>3
<1>6. dev' = [dev EXCEPT ![d] = dev[d]] BY Here
<1>7. Calm BY <1>1, <1>6, StepIsCalm
<1> QED BY <1>1, <1>2, <1>4, <1>5, <1>6, <1>7, DeviceFits

\* An attempt that stops.
LEMMA StopFits ==
  ASSUME NEW d, NEW r, NEW b, Fits(d, r, b), NEW a, a.stage \in {"idle", "conflict"},
         a.stage = "idle" \/ r.configured, a.remote = b.remote
  PROVE  Fits(d, r, a)
<1>1. Placed(d, r, a) BY DEF Fits, Placed
<1>2. Owns(d, r, a) BY DEF Fits, Owns
<1>3. Captures(r, a) BY DEF Fits, Captures
<1>4. Current(r, a) BY DEF Fits, Current, Fetched
<1>5. Itself(d, r, a) BY DEF Fits, Itself
<1> QED BY <1>1, <1>2, <1>3, <1>4, <1>5 DEF Fits

LEMMA StopStepFits ==
  ASSUME BootInv, BootInv', BaselineInv, NEW d \in Machines,
         NEW s \in {"idle", "conflict"}, Goto(d, s), UNCHANGED <<dev, srv, again>>,
         dev[d].configured \/ attempt[d].stage # "idle"
  PROVE  BaselineInv'
<1>1. Fits(d, dev[d], attempt[d]) BY DEF BaselineInv
<1>2. PICK r, b : r = dev[d] /\ b = attempt[d] OBVIOUS
<1>3. Fits(d, r, b) BY <1>1, <1>2
<1>4. r.configured BY <1>2, <1>3 DEF Fits, Placed
<1>5. ASSUME NEW a \in Attempts, a.stage = s, a.remote = b.remote
      PROVE  Fits(d, r, a)
  BY <1>3, <1>4, <1>5, StopFits
<1> QED BY <1>2, <1>5, StageFits DEF AttemptStages

LEMMA CheckBindingFits ==
  ASSUME BootInv, BootInv', BaselineInv, NEW d \in Machines, CheckBinding(d)
  PROVE  BaselineInv'
  BY StopStepFits DEF CheckBinding

LEMMA CheckIdentityFits ==
  ASSUME BootInv, BootInv', BaselineInv, NEW d \in Machines, CheckIdentity(d)
  PROVE  BaselineInv'
<1>1. attempt[d].stage = "check" /\ UNCHANGED <<dev, srv, again>> BY DEF CheckIdentity
<1>2. CASE dev[d].space # srv.space
  <2>1. Goto(d, "conflict") BY <1>2 DEF CheckIdentity
  <2> QED BY <1>1, <2>1, StopStepFits
<1>3. CASE dev[d].space = srv.space
  <2>1. Goto(d, "bind") BY <1>3 DEF CheckIdentity
  <2>2. PICK r, b : r = dev[d] /\ b = attempt[d] OBVIOUS
  <2>3. Fits(d, r, b) /\ b.stage = "check" BY <1>1, <2>2 DEF BaselineInv
  <2>4. ASSUME NEW a \in Attempts, a.stage = "bind", a.remote = b.remote
        PROVE  Fits(d, r, a)
    <3>1. Placed(d, r, a) BY <2>3, <2>4 DEF Fits, Placed
    <3>2. Owns(d, r, a) BY <2>3, <2>4 DEF Fits, Owns
    <3>3. Captures(r, a) BY <2>3, <2>4 DEF Fits, Captures
    <3>4. Current(r, a) BY <2>3, <2>4 DEF Fits, Current, Fetched
    <3>5. Itself(d, r, a) BY <2>3, <2>4 DEF Fits, Itself
    <3> QED BY <3>1, <3>2, <3>3, <3>4, <3>5 DEF Fits
  <2> QED BY <1>1, <2>1, <2>2, <2>4, StageFits DEF AttemptStages
<1> QED BY <1>2, <1>3

LEMMA FetchSnapshotFits ==
  ASSUME BootInv, BootInv', BaselineInv, NEW d \in Machines, FetchSnapshot(d)
  PROVE  BaselineInv'
<1>1. /\ srv.log \in Seq(Edits) /\ Len(srv.log) \in Nat
      /\ ServerShows \in SUBSET Edits /\ srv.space \in Spaces
  BY LoggedType DEF BootInv, Typed, Servers, ServerShows
<1>2. ServerSnapshot \in Snapshots BY <1>1 DEF ServerSnapshot, Snapshots
<1>3. PICK snapshot : snapshot = ServerSnapshot OBVIOUS
<1> DEFINE a == [NoAttempt EXCEPT !.stage = "capture", !.remote = snapshot]
<1>4. a \in Attempts /\ a.stage = "capture" /\ a.remote = snapshot
  BY <1>2, <1>3, FetchedIs
<1>5. PICK r : r = dev[d] OBVIOUS
<1>6. /\ attempt' = [attempt EXCEPT ![d] = a]
      /\ srv' = srv /\ dev' = dev /\ r.configured /\ r.bound = NoSpace
      /\ again \subseteq again' /\ (d \notin again' => r.space = d)
  BY <1>3, <1>5 DEF FetchSnapshot
<1>7. dev' = [dev EXCEPT ![d] = r] /\ r \in Replicas BY <1>5, <1>6, Here
<1>8. Calm BY <1>5, <1>6, <1>7, StepIsCalm
<1>9. Fits(d, r, attempt[d]) BY <1>5 DEF BaselineInv
<1> HIDE DEF a
<1>10. /\ a.remote.space = srv.space /\ a.remote.shown = ServerShows
       /\ a.remote.seq = Len(srv.log)
  BY <1>3, <1>4 DEF ServerSnapshot
<1>11. Upto(Len(srv.log)) \subseteq ServerShows BY <1>1 DEF Upto, ServerShows, Logged
<1>12. Follows(ServerShows, Len(srv.log)) BY <1>1, <1>11 DEF Follows, ServerShows
<1>13. ServerShows = {} => Len(srv.log) = 0
  <2>1. Len(srv.log) > 0 => srv.log[1] \in ServerShows BY <1>1 DEF ServerShows, Logged
  <2> QED BY <1>1, <2>1
<1>14. Fetched(a)
  <2>1. Follows(a.remote.shown, a.remote.seq) BY <1>10, <1>12
  <2> QED BY <1>10, <2>1 DEF Fetched
<1>15. /\ srv' \in Servers /\ srv \in Servers
  BY DEF BootInv, Typed
<1>16. Placed(d, r, a) /\ Owns(d, r, a) /\ Captures(r, a)
  BY <1>4, <1>6, <1>9, <1>10, <1>13 DEF Fits, Placed, Owns, Captures
<1>17. Current(r, a) BY <1>4, <1>6, <1>9, <1>14 DEF Fits, Current
<1>18. /\ d \notin again' => r.space = d
       /\ srv.space = d => r.space = d /\ srv.base \subseteq r.shown
  BY <1>6, <1>9 DEF Fits, Itself
<1>19. Itself(d, r, a)' BY <1>4, <1>6, <1>18 DEF Itself
<1>20. Placed(d, r, a)' /\ Owns(d, r, a)' /\ Captures(r, a)'
  BY <1>6, <1>16 DEF Placed, Owns, Captures
<1>21. Queues' = Queues BY <1>6 DEF Queues
<1>22. \A rows, n : Follows(rows, n) => Follows(rows, n)'
  BY <1>6, <1>21 DEF Follows, Upto, After
<1>23. Current(r, a)'
  BY <1>6, <1>17, <1>22 DEF Current, Fetched, Agrees, ServerShows, Logged, ServerIsEmpty
<1>24. Fits(d, r, a)' BY <1>19, <1>20, <1>23 DEF Fits
<1> QED BY <1>4, <1>6, <1>7, <1>8, <1>24, OthersFit

LEMMA CaptureFits ==
  ASSUME BootInv, BootInv', BaselineInv, NEW d \in Machines, Capture(d)
  PROVE  BaselineInv'
<1> DEFINE r == dev[d]
<1> DEFINE b == attempt[d]
<1> DEFINE a == [b EXCEPT !.stage = "choose", !.local = r.shown, !.pending = r.queued]
<1>1. b \in Attempts /\ r \in Replicas BY Here
<1>2. /\ b.stage = "capture"
      /\ attempt' = [attempt EXCEPT ![d].stage = "choose", ![d].local = r.shown,
                                    ![d].pending = r.queued]
      /\ UNCHANGED <<dev, srv, again>>
  BY DEF Capture
<1>3. attempt' = [attempt EXCEPT ![d] = a] BY <1>2 DEF BootInv, Typed
<1>4. dev' = [dev EXCEPT ![d] = r] BY <1>2, Here
<1>5. Fits(d, r, b) BY DEF BaselineInv
<1>6. Calm BY <1>1, <1>2, <1>4, StepIsCalm
<1>7. Adopted BY DEF BaselineInv
<1> HIDE DEF r, b
<1>8. a \in Attempts /\ a.local = r.shown /\ a.remote = b.remote BY <1>1, CapturedIs
<1>9. a.stage = "choose" /\ a.pending = r.queued BY <1>1 DEF Attempts
<1> HIDE DEF a
<1>10. Placed(d, r, a) BY <1>2, <1>5, <1>8, <1>9 DEF Fits, Placed
<1>11. Owns(d, r, a) BY <1>5, <1>8, <1>9 DEF Fits, Owns
<1>12. Captures(r, a) BY <1>5, <1>8, <1>9 DEF Fits, Captures
<1>13. Current(r, a) BY <1>2, <1>5, <1>8, <1>9 DEF Fits, Current, Fetched
<1>14. Itself(d, r, a)
  <2>1. d # Server BY BootstrapAssumption
  <2> QED BY <1>2, <1>5, <1>7, <1>8, <1>9, <2>1 DEF Fits, Itself, Adopted
<1>15. Fits(d, r, a) BY <1>10, <1>11, <1>12, <1>13, <1>14 DEF Fits
<1> QED BY <1>1, <1>3, <1>4, <1>6, <1>8, <1>15, DeviceFits

LEMMA ChooseFits ==
  ASSUME BootInv, BootInv', BaselineInv, NEW d \in Machines, Choose(d)
  PROVE  BaselineInv'
<1> DEFINE b == attempt[d]
<1> DEFINE r == dev[d]
<1> DEFINE same == r.space = b.remote.space /\ (b.local = b.remote.shown \/ OutboxExplains(b))
<1>1. b.stage = "choose" /\ UNCHANGED <<dev, srv, again>> BY DEF Choose
<1>2. Fits(d, r, b) BY DEF BaselineInv
<1>3. \/ Goto(d, "bootstrap") /\ b.remote.shown = {} /\ b.local # {}
      \/ Goto(d, "import") /\ b.local = {}
      \/ Goto(d, "check") /\ same
      \/ Goto(d, "conflict")
  <2> HIDE DEF same
  <2>1. Goto(d, CASE b.remote.shown = {} /\ b.local # {} -> "bootstrap"
                  [] b.local = {}                        -> "import"
                  [] b.remote.shown # {} /\ b.local # {} ->
                         IF same THEN "check" ELSE "conflict")
    BY DEF Choose, same
  <2> HIDE DEF b
  <2>2. CASE b.remote.shown = {} /\ b.local # {} BY <2>1, <2>2
  <2>3. CASE b.local = {} BY <2>1, <2>3
  <2>4. CASE b.remote.shown # {} /\ b.local # {} /\ same BY <2>1, <2>4
  <2>5. CASE b.remote.shown # {} /\ b.local # {} /\ ~same BY <2>1, <2>5
  <2> QED BY <2>2, <2>3, <2>4, <2>5
<1>4. CASE Goto(d, "conflict") BY <1>1, <1>4, StopStepFits
<1> HIDE DEF b, r
<1>5. CASE Goto(d, "bootstrap") /\ b.remote.shown = {} /\ b.local # {}
  <2>1. ASSUME NEW a \in Attempts, a.stage = "bootstrap", a.remote = b.remote,
               a.local = b.local, a.pending = b.pending
        PROVE  Fits(d, r, a)
    <3>1. Placed(d, r, a) BY <1>1, <1>2, <2>1 DEF Fits, Placed
    <3>2. Owns(d, r, a) BY <1>1, <1>2, <2>1 DEF Fits, Owns
    <3>3. Captures(r, a) BY <1>1, <1>2, <1>5, <2>1 DEF Fits, Captures
    <3>4. Current(r, a) BY <1>1, <1>2, <2>1 DEF Fits, Current, Fetched
    <3>5. Itself(d, r, a) BY <1>1, <1>2, <2>1 DEF Fits, Itself
    <3> QED BY <3>1, <3>2, <3>3, <3>4, <3>5 DEF Fits
  <2> QED BY <1>1, <1>5, <2>1, StageFits DEF AttemptStages, b, r
<1>6. CASE Goto(d, "import") /\ b.local = {}
  <2>1. ASSUME NEW a \in Attempts, a.stage = "import", a.remote = b.remote
        PROVE  Fits(d, r, a)
    <3>1. Placed(d, r, a) BY <1>1, <1>2, <2>1 DEF Fits, Placed
    <3>2. Owns(d, r, a) BY <1>1, <1>2, <1>6, <2>1 DEF Fits, Owns
    <3>3. Captures(r, a) BY <1>1, <1>2, <2>1 DEF Fits, Captures
    <3>4. Current(r, a) BY <1>1, <1>2, <2>1 DEF Fits, Current, Fetched
    <3>5. Itself(d, r, a) BY <1>1, <1>2, <1>6, <2>1 DEF Fits, Itself
    <3> QED BY <3>1, <3>2, <3>3, <3>4, <3>5 DEF Fits
  <2> QED BY <1>1, <1>6, <2>1, StageFits DEF AttemptStages, b, r
<1>7. CASE Goto(d, "check") /\ same
  <2>1. b.remote.shown \subseteq b.local /\ b.local \subseteq b.remote.shown \union b.pending
    BY <1>7 DEF OutboxExplains
  <2>2. /\ b.local \subseteq r.shown /\ r.shown \subseteq b.local \union r.queued
        /\ b.pending \subseteq r.queued
    BY <1>1, <1>2 DEF Fits, Captures
  <2>3. Agrees(r, b.remote.seq)
    <3>1. SUFFICES ASSUME r.space = srv.space
                   PROVE  /\ Follows(r.shown, b.remote.seq)
                          /\ r.shown \subseteq ServerShows \union r.queued
      BY DEF Agrees
    <3>2. /\ Follows(b.remote.shown, b.remote.seq)
          /\ b.remote.shown \subseteq ServerShows
      BY <1>1, <1>2, <1>7, <3>1 DEF Fits, Current, Fetched
    <3>3. Follows(r.shown, b.remote.seq) BY <2>1, <2>2, <3>2, FollowsMore
    <3> QED BY <2>1, <2>2, <3>2, <3>3
  <2>4. ASSUME NEW a \in Attempts, a.stage = "check", a.remote = b.remote
        PROVE  Fits(d, r, a)
    <3>1. Placed(d, r, a) BY <1>1, <1>2, <2>4 DEF Fits, Placed
    <3>2. Owns(d, r, a) BY <1>1, <1>2, <2>4 DEF Fits, Owns
    <3>3. Captures(r, a) BY <1>1, <1>2, <2>4 DEF Fits, Captures
    <3>4. Current(r, a) BY <1>1, <1>2, <2>3, <2>4 DEF Fits, Current, Fetched
    <3>5. Itself(d, r, a) BY <1>1, <1>2, <2>4 DEF Fits, Itself
    <3> QED BY <3>1, <3>2, <3>3, <3>4, <3>5 DEF Fits
  <2> QED BY <1>1, <1>7, <2>4, StageFits DEF AttemptStages, b, r
<1> QED BY <1>3, <1>4, <1>5, <1>6, <1>7

LEMMA ImportSnapshotFits ==
  ASSUME BootInv, BootInv', BaselineInv, NEW d \in Machines, ImportSnapshot(d)
  PROVE  BaselineInv'
<1> DEFINE b == attempt[d]
<1> DEFINE q == dev[d]
<1> DEFINE snapshot == b.remote
<1>1. /\ b.stage = "import" /\ srv' = srv /\ again' = again
      /\ Fits(d, q, b)
  BY DEF ImportSnapshot, BaselineInv
<1>2. CASE q.space # snapshot.space /\ q.shown # {}
  <2>1. Goto(d, "idle") /\ UNCHANGED <<dev, srv, again>> BY <1>2 DEF ImportSnapshot
  <2> QED BY <1>1, <2>1, StopStepFits
<1>3. CASE ~(q.space # snapshot.space /\ q.shown # {})
  <2> DEFINE a == [b EXCEPT !.stage = "check"]
  <2> DEFINE r == Imported(q, snapshot)
  <2>1. /\ dev' = [dev EXCEPT ![d] = r]
        /\ attempt' = [attempt EXCEPT ![d] = a]
    BY <1>3 DEF ImportSnapshot, Goto, Set
  <2>2. q \in Replicas /\ snapshot \in Snapshots /\ b \in Attempts BY Here
  <2> HIDE DEF q, b
  <2>3. /\ r \in Replicas /\ r.shown = snapshot.shown /\ r.queued = {}
        /\ r.space = snapshot.space
    BY <2>2, ImportedIs
  <2>4. r.configured = q.configured /\ r.bound = q.bound
    BY <2>2 DEF Imported, Replicas
  <2>5. a \in Attempts /\ a.stage = "check" /\ a.remote = snapshot
    BY <2>2, MovedOn DEF AttemptStages
  <2> HIDE DEF a, r, snapshot
  <2>6. Calm
    <3>1. \A e \in dev[d].queued \intersect srv.base : e \in r.queued \union Logged
      BY <1>1 DEF Fits, Owns, q
    <3> QED BY <1>1, <2>1, <2>3, <3>1, StepIsCalm
  <2>7. Placed(d, r, a) BY <1>1, <2>3, <2>4, <2>5 DEF Fits, Placed, snapshot
  <2>8. Owns(d, r, a) BY <2>3, <2>5 DEF Owns
  <2>9. Captures(r, a) BY <1>1, <2>5 DEF Fits, Captures, snapshot
  <2>10. Fetched(b) /\ b.remote = snapshot BY <1>1 DEF Fits, Current, snapshot
  <2>11. snapshot.space = srv.space =>
            /\ Follows(snapshot.shown, snapshot.seq)
            /\ snapshot.shown \subseteq ServerShows
    BY <1>1, <2>10 DEF Fetched
  <2>12. Agrees(r, snapshot.seq) BY <2>3, <2>11 DEF Agrees
  <2>13. ServerIsEmpty => ServerShows = {} BY DEF ServerIsEmpty, ServerShows, Logged
  <2>14. r.bound = NoSpace BY <1>1, <2>4 DEF Fits, Placed
  <2>15. Current(r, a)
    BY <2>3, <2>5, <2>11, <2>12, <2>13, <2>14 DEF Current, Fetched
  <2>16. Itself(d, r, a) BY <1>1, <2>5 DEF Fits, Itself
  <2>17. Fits(d, r, a) BY <2>7, <2>8, <2>9, <2>15, <2>16 DEF Fits
  <2> QED BY <2>1, <2>3, <2>5, <2>6, <2>17, DeviceFits
<1> QED BY <1>2, <1>3

-----------------------------------------------------------------------------
(* The user and bound devices *)

LEMMA MakeEditFits ==
  ASSUME BootInv, BootInv', BaselineInv, NEW e \in Edits, MakeEdit(e)
  PROVE  BaselineInv'
<1>1. PICK d : d = EditorOf[e] OBVIOUS
<1>2. PICK q, a : q = dev[d] /\ a = attempt[d] OBVIOUS
<1> DEFINE r == Edited(q, e)
<1>3. d \in Machines BY <1>1, BootstrapAssumption
<1>4. /\ q \in Replicas /\ a \in Attempts /\ Fits(d, q, a)
  BY <1>2, <1>3, Here DEF BaselineInv
<1>5. /\ made[e] = NoSpace /\ dev' = [dev EXCEPT ![d] = r]
      /\ srv' = srv /\ attempt' = attempt /\ again' = again
  BY <1>1, <1>2 DEF MakeEdit, Set
<1>6. /\ r \in Replicas /\ r.shown = q.shown \union {e}
      /\ q.queued \subseteq r.queued /\ r.queued \subseteq q.queued \union {e}
      /\ (q.configured => e \in r.queued)
      /\ r.space = q.space /\ r.configured = q.configured
      /\ r.bound = q.bound /\ r.cursor = q.cursor
  BY <1>4 DEF Edited, Replicas
<1> HIDE DEF r
<1>7. attempt' = [attempt EXCEPT ![d] = a] BY <1>2, <1>5 DEF BootInv, Typed
<1>8. Calm BY <1>2, <1>3, <1>5, <1>6, StepIsCalm
<1>9. e \notin srv.base
  <2>1. \A f \in srv.base : made[f] = srv.space
    BY DEF BootInv, ServerCoherent, OfSpace
  <2>2. srv.space # NoSpace BY BootstrapAssumption DEF BootInv, Typed, Servers, Spaces
  <2> QED BY <1>5, <2>1, <2>2
<1>10. Placed(d, r, a) BY <1>4, <1>6 DEF Fits, Placed
<1>11. Owns(d, r, a) BY <1>1, <1>4, <1>6, <1>9 DEF Fits, Owns
<1>12. Captures(r, a) BY <1>4, <1>6 DEF Fits, Captures, Placed
<1>13. ASSUME NEW n, Agrees(q, n), q.configured PROVE Agrees(r, n)
  <2>1. SUFFICES ASSUME q.space = srv.space
                 PROVE  Follows(r.shown, n) /\ r.shown \subseteq ServerShows \union r.queued
    BY <1>6 DEF Agrees
  <2>2. Follows(q.shown, n) /\ q.shown \subseteq ServerShows \union q.queued
    BY <1>13, <2>1 DEF Agrees
  <2>3. Follows(r.shown, n) BY <1>6, <2>2, FollowsMore
  <2> QED BY <1>6, <1>13, <2>2, <2>3
<1>14. a.stage \in {"check", "bind"} \/ q.bound # NoSpace => q.configured
  BY <1>4 DEF Fits, Placed, Replicas
<1>15. ServerIsEmpty /\ r.space = srv.space => r.shown \subseteq r.queued
  <2>1. SUFFICES ASSUME ServerIsEmpty, q.space = srv.space PROVE r.shown \subseteq r.queued
    BY <1>6
  <2>2. srv.space = Server BY <2>1 DEF BaselineInv, Adopted, ServerIsEmpty
  <2>3. q.configured
    BY <1>3, <1>4, <2>1, <2>2, BootstrapAssumption DEF Fits, Placed, Replicas
  <2>4. q.shown \subseteq q.queued BY <1>4, <2>1 DEF Fits, Current
  <2> QED BY <1>6, <2>3, <2>4
<1>16. Fetched(a) BY <1>4 DEF Fits, Current
<1>17. a.stage \in {"check", "bind"} => Agrees(r, a.remote.seq)
  BY <1>4, <1>13, <1>14 DEF Fits, Current
<1>18. r.bound # NoSpace => Agrees(r, r.cursor)
  BY <1>4, <1>6, <1>13, <1>14 DEF Fits, Current
<1>19. Current(r, a) BY <1>15, <1>16, <1>17, <1>18 DEF Current
<1>20. Itself(d, r, a) BY <1>4, <1>6 DEF Fits, Itself
<1>21. Fits(d, r, a) BY <1>10, <1>11, <1>12, <1>19, <1>20 DEF Fits
<1> QED BY <1>3, <1>4, <1>5, <1>6, <1>7, <1>8, <1>21, DeviceFits

LEMMA PushEditFits ==
  ASSUME BootInv, BootInv', BaselineInv, NEW d \in Machines, PushEdit(d)
  PROVE  BaselineInv'
<1>1. PICK q, a : q = dev[d] /\ a = attempt[d] OBVIOUS
<1>2. PICK e \in q.queued :
        /\ srv' = IF e \in Logged THEN srv ELSE [srv EXCEPT !.log = Append(@, e)]
        /\ Set(d, [q EXCEPT !.queued = @ \ {e}])
  BY <1>1 DEF PushEdit
<1> DEFINE r == [q EXCEPT !.queued = @ \ {e}]
<1>3. /\ a.stage = "idle" /\ attempt' = attempt /\ again' = again
  BY <1>1 DEF PushEdit, Joined
<1>4. /\ q \in Replicas /\ a \in Attempts /\ Fits(d, q, a)
      /\ srv \in Servers /\ srv' \in Servers
  BY <1>1, Here DEF BaselineInv, BootInv, Typed
<1>5. q.queued \in SUBSET Edits BY <1>4 DEF Replicas
<1>6. /\ r \in Replicas /\ r.shown = q.shown
      /\ r.queued = q.queued \ {e} /\ r.space = q.space
      /\ r.configured = q.configured /\ r.bound = q.bound /\ r.cursor = q.cursor
  BY <1>4 DEF Replicas
<1>7. dev' = [dev EXCEPT ![d] = r] BY <1>2 DEF Set
<1>8. attempt' = [attempt EXCEPT ![d] = a] BY <1>1, <1>3 DEF BootInv, Typed
<1> HIDE DEF r
<1>9. /\ srv'.space = srv.space /\ srv'.base = srv.base
      /\ Len(srv.log) <= Len(srv'.log)
      /\ \A i \in 1 .. Len(srv.log) : srv'.log[i] = srv.log[i]
      /\ e \in Logged'
  <2>1. srv.log \in Seq(Edits) /\ Len(srv.log) \in Nat BY <1>4 DEF Servers
  <2>2. CASE e \in Logged BY <1>2, <2>1, <2>2 DEF Logged
  <2>3. CASE e \notin Logged
    <3> DEFINE l == Append(srv.log, e)
    <3>1. srv' = [srv EXCEPT !.log = l] BY <1>2, <2>3
    <3>2. /\ Len(l) = Len(srv.log) + 1 /\ l[Len(srv.log) + 1] = e
          /\ \A i \in 1 .. Len(srv.log) : l[i] = srv.log[i]
          /\ Len(srv.log) + 1 \in DOMAIN l
      BY <1>5, <2>1
    <3> HIDE DEF l
    <3>3. srv'.log = l /\ srv'.space = srv.space /\ srv'.base = srv.base
      BY <1>4, <3>1 DEF Servers
    <3> QED BY <2>1, <3>2, <3>3 DEF Logged
  <2> QED BY <2>2, <2>3
<1>10. Calm
  <2>1. \A f \in Queues \intersect srv.base : f \in Queues' \union Logged'
    BY <1>1, <1>6, <1>7, <1>9, OutboxesAre
  <2> QED BY <1>3, <1>9, <2>1 DEF Calm
<1>11. Fits(d, q, a)' BY <1>4, <1>10, FitsStays
<1>12. Placed(d, r, a)' BY <1>6, <1>11 DEF Fits, Placed
<1>13. Owns(d, r, a)' BY <1>6, <1>11 DEF Fits, Owns
<1>14. Captures(r, a)' BY <1>3, <1>6, <1>11 DEF Fits, Captures
<1>15. Current(r, a)'
  <2>1. Agrees(q, q.cursor)' => Agrees(r, r.cursor)'
    BY <1>6, <1>9 DEF Agrees, ServerShows
  <2>2. ~ServerIsEmpty' BY <1>9 DEF ServerIsEmpty, Logged
  <2> QED BY <1>3, <1>6, <1>11, <2>1, <2>2 DEF Fits, Current, Fetched
<1>16. Itself(d, r, a)' BY <1>3, <1>6, <1>11 DEF Fits, Itself
<1>17. Fits(d, r, a)' BY <1>12, <1>13, <1>14, <1>15, <1>16 DEF Fits
<1> QED BY <1>4, <1>6, <1>7, <1>8, <1>10, <1>17, OthersFit

LEMMA PullEditsFits ==
  ASSUME BootInv, BootInv', BaselineInv, NEW d \in Machines, PullEdits(d)
  PROVE  BaselineInv'
<1>1. PICK q, a : q = dev[d] /\ a = attempt[d] OBVIOUS
<1>2. PICK news, k : /\ k = Len(srv.log)
                     /\ news = {srv.log[i] : i \in (q.cursor + 1) .. Len(srv.log)}
  OBVIOUS
<1> DEFINE r == Pulled(q, news, k)
<1>3. /\ a.stage = "idle" /\ attempt' = attempt /\ again' = again /\ srv' = srv
      /\ q.cursor < k /\ dev' = [dev EXCEPT ![d] = r]
      /\ q.bound = q.space /\ q.bound = srv.space
  BY <1>1, <1>2 DEF PullEdits, Joined, Pulled, Set
<1>4. /\ q \in Replicas /\ a \in Attempts /\ Fits(d, q, a) /\ srv \in Servers
  BY <1>1, Here DEF BaselineInv
<1>5. /\ srv.log \in Seq(Edits) /\ k \in Nat /\ q.cursor \in Nat
  BY <1>2, <1>4 DEF Servers, Replicas
<1>6. /\ news \subseteq Logged /\ Logged \subseteq Edits
      /\ Upto(k) \subseteq Upto(q.cursor) \union news
      /\ After(q.cursor) = news
  BY <1>2, <1>5, LoggedType DEF Logged, Upto, After, BootInv
<1>7. /\ r \in Replicas /\ r.shown = q.shown \union news
      /\ r.queued = q.queued \ news /\ r.space = q.space
      /\ r.configured = q.configured /\ r.bound = q.bound /\ r.cursor = k
  <2>1. news \in SUBSET Edits BY <1>6
  <2> QED BY <1>4, <1>5, <2>1 DEF Replicas, Pulled
<1>8. attempt' = [attempt EXCEPT ![d] = a] BY <1>1, <1>3 DEF BootInv, Typed
<1> HIDE DEF r
<1>9. Calm BY <1>1, <1>3, <1>6, <1>7, StepIsCalm
<1>10. Placed(d, r, a) BY <1>4, <1>7 DEF Fits, Placed
<1>11. Owns(d, r, a) BY <1>4, <1>7 DEF Fits, Owns
<1>12. Captures(r, a) BY <1>3, <1>4 DEF Fits, Captures
<1>13. Agrees(r, r.cursor)
  <2>1. q.bound # NoSpace BY <1>3, <1>4, BootstrapAssumption DEF Replicas, Spaces, Servers
  <2>2. Follows(q.shown, q.cursor) /\ q.shown \subseteq ServerShows \union q.queued
    BY <1>3, <1>4, <2>1 DEF Fits, Current, Agrees
  <2>3. Follows(r.shown, k) BY <1>2, <1>5, <1>6, <1>7, <2>2 DEF Follows
  <2>4. r.shown \subseteq ServerShows \union r.queued
    BY <1>6, <1>7, <2>2 DEF ServerShows
  <2> QED BY <1>7, <2>3, <2>4 DEF Agrees
<1>14. ~ServerIsEmpty BY <1>2, <1>3, <1>5 DEF ServerIsEmpty
<1>15. Current(r, a) BY <1>3, <1>13, <1>14 DEF Current, Fetched
<1>16. Itself(d, r, a) BY <1>3, <1>4, <1>7 DEF Fits, Itself
<1>17. Fits(d, r, a) BY <1>10, <1>11, <1>12, <1>15, <1>16 DEF Fits
<1> QED BY <1>3, <1>4, <1>7, <1>8, <1>9, <1>17, DeviceFits

-----------------------------------------------------------------------------
(* The server adopts a workspace *)

\* Rows that follow an empty server follow the baseline it gets when they bring
\* it or an outbox holds it.
LEMMA FollowsAdopted ==
  ASSUME srv \in Servers, ServerIsEmpty, srv'.log = <<>>,
         NEW rows, NEW n \in Nat, n <= 0,
         srv'.base \subseteq rows \union Queues'
  PROVE  Follows(rows, n)'
<1>1. Upto(n)' = {} /\ Len(srv'.log) = 0 BY DEF Upto
<1> QED BY <1>1 DEF Follows

\* Another device, when the server adopts the workspace of d.
LEMMA OtherFitsAdopted ==
  ASSUME BootInv, BaselineInv, NEW d \in Machines, NEW c \in Machines \ {d},
         NEW r, NEW a, r = dev[c], a = attempt[c],
         NEW q, NEW b, q = dev[d], b = attempt[d], b.stage = "bootstrap",
         ServerIsEmpty, UNCHANGED <<dev, again>>,
         srv' = [space |-> q.space, base |-> b.local, log |-> <<>>]
  PROVE  Fits(c, r, a)'
<1>1. /\ q \in Replicas /\ b \in Attempts /\ r \in Replicas /\ a \in Attempts
      /\ srv \in Servers /\ a.remote \in Snapshots
      /\ Coherent(q, b) /\ Coherent(r, a)
  BY Here
<1>2. Fits(c, r, a) /\ Fits(d, q, b) BY DEF BaselineInv
<1>3. a.remote.seq \in Nat /\ r.cursor \in Nat BY <1>1 DEF Replicas, Snapshots
<1>4. /\ srv'.space = q.space /\ srv'.base = b.local /\ srv'.log = <<>>
      /\ Queues' = Queues /\ again' = again
  BY DEF Queues
<1>5. /\ srv.space = Server /\ ServerShows = {} /\ Len(srv.log) = 0
      /\ srv.base = {}
  BY DEF BaselineInv, Adopted, ServerIsEmpty, ServerShows, Logged
<1>6. /\ q.space \in {d, Server} /\ r.space \in {c, Server}
      /\ a.remote.space = Server /\ c # d /\ d # Server /\ c # Server
      /\ b.local # {} /\ b.local \subseteq q.shown
  BY <1>2, <1>5, BootstrapAssumption DEF Fits, Placed, Captures
<1>7. q.space = Server => b.local \subseteq q.queued
  BY <1>2, <1>5, <1>6 DEF Fits, Current
<1>8. q.queued \subseteq Queues' BY <1>4 DEF Queues
<1>9. Placed(c, r, a)' BY <1>2, <1>4, <1>5, <1>6 DEF Fits, Placed
<1>10. \A e \in b.local : e \notin r.queued
  <2>1. CASE q.space = Server
    BY <1>2, <1>6, <1>7, <2>1 DEF Fits, Owns
  <2>2. CASE q.space = d
    <3>1. \A e \in b.local : made[e] = d BY <1>1, <2>2 DEF Coherent, OfSpace
    <3>2. \A e \in r.queued : made[e] = r.space BY <1>1 DEF Coherent, OfSpace
    <3> QED BY <1>6, <3>1, <3>2
  <2> QED BY <1>6, <2>1, <2>2
<1>11. Owns(c, r, a)' BY <1>2, <1>4, <1>10 DEF Fits, Owns
<1>12. Captures(r, a)' BY <1>2 DEF Fits, Captures
<1>13. Fetched(a)'
  <2>1. SUFFICES ASSUME a.stage \notin {"idle", "conflict"}, q.space = Server
                 PROVE  /\ Follows(a.remote.shown, a.remote.seq)'
                        /\ a.remote.shown \subseteq ServerShows'
    BY <1>4, <1>6 DEF Fetched
  <2>2. /\ Follows(a.remote.shown, a.remote.seq)
        /\ a.remote.shown \subseteq ServerShows
    BY <1>2, <1>5, <1>6, <2>1 DEF Fits, Current, Fetched
  <2>3. a.remote.seq <= 0 BY <1>5, <2>2 DEF Follows
  <2>4. Follows(a.remote.shown, a.remote.seq)'
    BY <1>1, <1>3, <1>4, <1>7, <1>8, <2>1, <2>3, FollowsAdopted
  <2> QED BY <1>5, <2>2, <2>4
<1>14. ASSUME NEW n \in Nat, Agrees(r, n) PROVE Agrees(r, n)'
  <2>1. SUFFICES ASSUME r.space = q.space
                 PROVE  /\ Follows(r.shown, n)'
                        /\ r.shown \subseteq ServerShows' \union r.queued
    BY <1>4 DEF Agrees
  <2>2. q.space = Server BY <1>6, <2>1
  <2>3. Follows(r.shown, n) /\ r.shown \subseteq r.queued
    BY <1>5, <1>14, <2>1, <2>2 DEF Agrees
  <2>4. n <= 0 BY <1>5, <2>3 DEF Follows
  <2>5. Follows(r.shown, n)' BY <1>1, <1>4, <1>7, <1>8, <2>2, <2>4, FollowsAdopted
  <2> QED BY <2>3, <2>5
<1>15. Current(r, a)'
  <2>1. ~ServerIsEmpty' BY <1>4, <1>6 DEF ServerIsEmpty
  <2> QED BY <1>2, <1>3, <1>13, <1>14, <2>1 DEF Fits, Current
<1>16. Itself(c, r, a)' BY <1>2, <1>4, <1>6 DEF Fits, Itself
<1> QED BY <1>9, <1>11, <1>12, <1>15, <1>16 DEF Fits

LEMMA BootstrapServerFits ==
  ASSUME BootInv, BootInv', BaselineInv, NEW d \in Machines, BootstrapServer(d)
  PROVE  BaselineInv'
<1>1. CASE ~ServerIsEmpty
  <2>1. Goto(d, "idle") /\ UNCHANGED <<dev, srv, again>> /\ attempt[d].stage # "idle"
    BY <1>1 DEF BootstrapServer
  <2> QED BY <2>1, StopStepFits
<1>2. CASE ServerIsEmpty
  <2>1. PICK q, b : q = dev[d] /\ b = attempt[d] OBVIOUS
  <2> DEFINE a == [b EXCEPT !.stage = "check"]
  <2>2. /\ b.stage = "bootstrap" /\ UNCHANGED <<dev, again>>
        /\ srv' = [space |-> q.space, base |-> b.local, log |-> <<>>]
        /\ attempt' = [attempt EXCEPT ![d] = a]
    BY <1>2, <2>1 DEF BootstrapServer, Goto
  <2>3. /\ q \in Replicas /\ b \in Attempts /\ b.remote \in Snapshots /\ srv \in Servers
    BY <2>1, Here
  <2>4. Fits(d, q, b) BY <2>1 DEF BaselineInv
  <2>5. a \in Attempts /\ a.stage = "check" /\ a.remote = b.remote
    BY <2>3, MovedOn DEF AttemptStages
  <2> HIDE DEF a
  <2>6. /\ srv'.space = q.space /\ srv'.base = b.local /\ srv'.log = <<>>
        /\ Queues' = Queues
    BY <2>2 DEF Queues
  <2>7. /\ srv.space = Server /\ d # Server
        /\ b.local # {} /\ b.local \subseteq q.shown
        /\ q.shown \subseteq b.local \union q.queued
        /\ b.remote.shown = {} /\ b.remote.seq = 0
        /\ q.bound = NoSpace /\ q.configured
    BY <1>2, <2>2, <2>3, <2>4, BootstrapAssumption
       DEF Fits, Placed, Captures, BaselineInv, Adopted, ServerIsEmpty, Replicas
  <2>8. q.space \in {d, Server} /\ b.remote.space = Server
    BY <2>4, <2>7 DEF Fits, Placed
  <2>9. q.space = Server => b.local \subseteq Queues'
    <3>1. q.queued \subseteq Queues' BY <2>1, <2>6 DEF Queues
    <3> QED BY <1>2, <2>4, <2>7, <3>1 DEF Fits, Current
  <2>10. Fits(d, q, a)'
    <3>1. Placed(d, q, a)' BY <2>5, <2>6, <2>7, <2>8 DEF Placed
    <3>2. Owns(d, q, a)' BY <2>4, <2>5 DEF Fits, Owns
    <3>3. Captures(q, a)' BY <2>5, <2>7 DEF Captures
    <3>4. Fetched(a)'
      <4>1. q.space = Server => Follows(b.remote.shown, b.remote.seq)'
        BY <1>2, <2>3, <2>6, <2>7, <2>9, FollowsAdopted
      <4> QED BY <2>5, <2>6, <2>7, <2>8, <4>1 DEF Fetched
    <3>5. Agrees(q, a.remote.seq)'
      <4>1. Follows(q.shown, b.remote.seq)'
        BY <1>2, <2>3, <2>6, <2>7, FollowsAdopted
      <4>2. q.shown \subseteq ServerShows' \union q.queued
        BY <2>6, <2>7 DEF ServerShows
      <4> QED BY <2>5, <4>1, <4>2 DEF Agrees
    <3>6. Current(q, a)'
      BY <2>5, <2>6, <2>7, <3>4, <3>5 DEF Current, ServerIsEmpty
    <3>7. Itself(d, q, a)' BY <2>5, <2>6, <2>7, <2>8 DEF Itself
    <3> QED BY <3>1, <3>2, <3>3, <3>6, <3>7 DEF Fits
  <2>11. Adopted' BY <2>6, <2>7 DEF Adopted
  <2>12. ASSUME NEW c \in Machines PROVE Fits(c, dev[c], attempt[c])'
    <3>1. PICK r, g : r = dev[c] /\ g = attempt[c] OBVIOUS
    <3>2. dev'[c] = r BY <2>2, <3>1
    <3>3. CASE c = d
      <4>1. attempt'[c] = a BY <2>2, <3>3 DEF BootInv, Typed
      <4>2. r = q BY <2>1, <3>1, <3>3
      <4> QED BY <2>10, <3>2, <3>3, <4>1, <4>2 DEF Fits, Placed, Owns, Captures,
              Current, Fetched, Agrees, Follows, Itself
    <3>4. CASE c # d
      <4>1. attempt'[c] = g BY <2>2, <3>1, <3>4 DEF BootInv, Typed
      <4>2. Fits(c, r, g)'
        BY <1>2, <2>1, <2>2, <3>1, <3>4, OtherFitsAdopted
      <4> QED BY <3>2, <4>1, <4>2 DEF Fits, Placed, Owns, Captures,
              Current, Fetched, Agrees, Follows, Itself
    <3> QED BY <3>3, <3>4
  <2> QED BY <2>11, <2>12 DEF BaselineInv
<1> QED BY <1>1, <1>2

-----------------------------------------------------------------------------

LEMMA InitFits == BootInit => BaselineInv
<1> SUFFICES ASSUME BootInit PROVE BaselineInv OBVIOUS
<1>1. Adopted BY DEF BootInit, Adopted
<1>2. ASSUME NEW c \in Machines PROVE Fits(c, dev[c], attempt[c])
  <2>1. c # Server /\ Server # c BY BootstrapAssumption
  <2>2. /\ dev[c] = [space |-> c, shown |-> {}, queued |-> {}, configured |-> FALSE,
                     bound |-> NoSpace, cursor |-> 0]
        /\ attempt[c] = NoAttempt
        /\ srv = [space |-> Server, base |-> {}, log |-> <<>>]
    BY DEF BootInit
  <2>3. Placed(c, dev[c], attempt[c]) BY <2>2 DEF Placed, NoAttempt
  <2>4. Owns(c, dev[c], attempt[c]) BY <2>2 DEF Owns
  <2>5. Captures(dev[c], attempt[c]) BY <2>2 DEF Captures, NoAttempt
  <2>6. Current(dev[c], attempt[c]) BY <2>2 DEF Current, Fetched, NoAttempt
  <2>7. Itself(c, dev[c], attempt[c]) BY <2>1, <2>2 DEF Itself, NoAttempt
  <2> QED BY <2>3, <2>4, <2>5, <2>6, <2>7 DEF Fits
<1> QED BY <1>1, <1>2 DEF BaselineInv

LEMMA NextFits ==
  ASSUME BootInv, BaselineInv, [BootNext]_bootVars PROVE BaselineInv'
<1>1. BootInv' BY NextKeeps
<1>2. CASE UNCHANGED bootVars
  BY <1>2 DEF BaselineInv, Adopted, Fits, Placed, Owns, Captures, Current, Fetched,
     Agrees, Follows, Itself, Upto, After, Queues, ServerShows, Logged, ServerIsEmpty,
     bootVars
<1>3. ASSUME NEW e \in Edits, MakeEdit(e) PROVE BaselineInv'
  BY <1>1, <1>3, MakeEditFits
<1>4. ASSUME NEW d \in Machines, BootStep(d) PROVE BaselineInv'
  BY <1>1, <1>4, ConfigureFits, CheckBindingFits, FetchSnapshotFits, CaptureFits,
     ChooseFits, BootstrapServerFits, ImportSnapshotFits, CheckIdentityFits, BindFits,
     EndAttemptFits, PushEditFits, PullEditsFits
     DEF BootStep
<1> QED BY <1>2, <1>3, <1>4 DEF BootNext

\* The inductive invariant of first contact: what was fetched follows the
\* server from its cursor on, what was captured is still shown, and a device
\* bound or about to be bound follows the server (initialize_replica).
THEOREM ReplicasFollowTheServer == BootSpec => []BaselineInv
<1>1. BootInit => BootInv /\ BaselineInv BY InitIsCoherent, InitFits
<1>2. BootInv /\ BaselineInv /\ [BootNext]_bootVars => BootInv' /\ BaselineInv'
  BY NextKeeps, NextFits
<1> QED BY <1>1, <1>2, PTL DEF BootSpec

\* A bound device shows the server's baseline and every operation up to its
\* cursor, or will be sent it, and nothing the server neither has nor is owed,
\* for any devices and edits and wherever attempts end (initialize_replica,
\* bind_sync_workspace).
THEOREM BaselineAlwaysHolds == BootSpec => []BaselineHolds
<1>1. BootInv /\ BaselineInv => BaselineHolds
  <2> SUFFICES ASSUME BootInv, BaselineInv, NEW d \in Machines, Joined(d)
               PROVE  /\ dev[d].cursor <= Len(srv.log)
                      /\ srv.base \union Upto(dev[d].cursor) \subseteq
                            dev[d].shown \union Coming(d)
                      /\ dev[d].shown \subseteq ServerShows \union dev[d].queued
    BY DEF BaselineHolds
  <2>1. Current(dev[d], attempt[d]) BY DEF BaselineInv, Fits
  <2>2. dev[d].bound # NoSpace
    BY Here, BootstrapAssumption DEF Joined, Spaces
  <2>3. Agrees(dev[d], dev[d].cursor) BY <2>1, <2>2 DEF Current
  <2>4. dev[d].space = srv.space BY DEF Joined
  <2> QED BY <2>3, <2>4 DEF Agrees, Follows, Coming, After, Queues
<1> QED BY <1>1, WorkspacesAreCoherent, ReplicasFollowTheServer, PTL

-----------------------------------------------------------------------------
(* Nothing a user made is dropped by a device that chooses as itself *)

LEMMA ImportDropsNothing ==
  ASSUME BootInv, BaselineInv, NEW d \in Machines, ImportSnapshot(d), d \notin again
  PROVE  dev[d].shown \subseteq dev'[d].shown
<1>1. PICK q, b : q = dev[d] /\ b = attempt[d] OBVIOUS
<1>2. Fits(d, q, b) /\ b.stage = "import" BY <1>1 DEF BaselineInv, ImportSnapshot
<1>3. q.space = d /\ srv.space # d BY <1>2 DEF Fits, Itself
<1>4. q.space # b.remote.space
  BY <1>2, <1>3, BootstrapAssumption DEF Fits, Placed
<1>5. CASE q.shown # {} BY <1>1, <1>4, <1>5 DEF ImportSnapshot
<1>6. CASE q.shown = {} BY <1>1, <1>6
<1> QED BY <1>5, <1>6

LEMMA ServerKeepsRows ==
  ASSUME BootInv, [BootNext]_bootVars PROVE ServerShows \subseteq ServerShows'
<1>1. srv \in Servers /\ srv.log \in Seq(Edits) BY DEF BootInv, Typed, Servers
<1>2. CASE srv' = srv BY <1>2 DEF ServerShows, Logged
<1>3. ASSUME NEW d \in Machines, BootstrapServer(d) PROVE ServerShows \subseteq ServerShows'
  <2>1. CASE ServerIsEmpty BY <2>1 DEF ServerIsEmpty, ServerShows, Logged
  <2>2. CASE ~ServerIsEmpty BY <1>2, <1>3, <2>2 DEF BootstrapServer
  <2> QED BY <2>1, <2>2
<1>4. ASSUME NEW d \in Machines, PushEdit(d) PROVE ServerShows \subseteq ServerShows'
  <2>1. PICK e \in dev[d].queued :
          srv' = IF e \in Logged THEN srv ELSE [srv EXCEPT !.log = Append(@, e)]
    BY <1>4 DEF PushEdit
  <2>2. CASE e \in Logged BY <1>2, <2>1, <2>2
  <2>3. CASE e \notin Logged
    <3>1. e \in Edits BY Here
    <3>2. srv'.base = srv.base /\ srv'.log = Append(srv.log, e)
      BY <1>1, <2>1, <2>3 DEF Servers
    <3>3. Logged \subseteq Logged' BY <1>1, <3>1, <3>2 DEF Logged
    <3> QED BY <3>2, <3>3 DEF ServerShows
  <2> QED BY <2>2, <2>3
<1> QED BY <1>2, <1>3, <1>4
        DEF BootNext, BootStep, MakeEdit, Configure, CheckBinding, FetchSnapshot,
            Capture, Choose, ImportSnapshot, CheckIdentity, Bind, EndAttempt,
            PullEdits, bootVars

LEMMA ShownRowsStay ==
  ASSUME BootInv, BaselineInv, [BootNext]_bootVars, NEW d \in Machines, d \notin again'
  PROVE  dev[d].shown \subseteq dev'[d].shown /\ d \notin again
<1>1. d \notin again
  BY DEF BootNext, BootStep, MakeEdit, Configure, CheckBinding, FetchSnapshot,
         Capture, Choose, BootstrapServer, ImportSnapshot, CheckIdentity, Bind,
         EndAttempt, PushEdit, PullEdits, bootVars
<1>2. CASE dev' = dev BY <1>1, <1>2
<1>3. ASSUME NEW c \in Machines, NEW r, dev' = [dev EXCEPT ![c] = r],
             dev[c].shown \subseteq r.shown
      PROVE  dev[d].shown \subseteq dev'[d].shown
  BY <1>3 DEF BootInv, Typed
<1>4. ASSUME NEW e \in Edits, MakeEdit(e) PROVE dev[d].shown \subseteq dev'[d].shown
  <2>1. EditorOf[e] \in Machines BY BootstrapAssumption
  <2>2. dev[EditorOf[e]] \in Replicas BY <2>1, Here
  <2> QED BY <1>3, <1>4, <2>1, <2>2, EditedIs DEF MakeEdit, Set
<1>5. ASSUME NEW c \in Machines, ImportSnapshot(c) PROVE dev[d].shown \subseteq dev'[d].shown
  <2>1. CASE c = d BY <1>1, <1>5, <2>1, ImportDropsNothing
  <2>2. CASE c # d BY <1>5, <2>2 DEF ImportSnapshot, Set, BootInv, Typed
  <2> QED BY <2>1, <2>2
<1>6. ASSUME NEW c \in Machines, Configure(c) \/ Bind(c) \/ PushEdit(c)
      PROVE  dev[d].shown \subseteq dev'[d].shown
  <2>1. dev[c] \in Replicas BY Here
  <2>2. PICK r : dev' = [dev EXCEPT ![c] = r] /\ r.shown = dev[c].shown
    BY <1>6, <2>1 DEF Configure, Bind, PushEdit, Set, Replicas
  <2> QED BY <1>3, <2>2
<1>7. ASSUME NEW c \in Machines, PullEdits(c) PROVE dev[d].shown \subseteq dev'[d].shown
  <2>1. dev[c] \in Replicas BY Here
  <2> DEFINE news == {srv.log[i] : i \in (dev[c].cursor + 1) .. Len(srv.log)}
  <2> DEFINE r == [dev[c] EXCEPT !.shown = @ \union news, !.queued = @ \ news,
                                 !.cursor = Len(srv.log)]
  <2>2. dev' = [dev EXCEPT ![c] = r] BY <1>7 DEF PullEdits, Set
  <2> HIDE DEF news
  <2>3. dev[c].shown \subseteq r.shown BY <2>1 DEF Replicas
  <2> HIDE DEF r
  <2> QED BY <1>3, <2>2, <2>3
<1>8. ASSUME NEW c \in Machines, BootStep(c) PROVE dev[d].shown \subseteq dev'[d].shown
  <2>1. CASE dev' = dev BY <1>2, <2>1
  <2>2. CASE dev' # dev
    <3>1. \/ ImportSnapshot(c) \/ PullEdits(c)
          \/ Configure(c) \/ Bind(c) \/ PushEdit(c)
      BY <1>8, <2>2
         DEF BootStep, CheckBinding, FetchSnapshot, Capture, Choose,
             BootstrapServer, CheckIdentity, EndAttempt
    <3> QED BY <1>5, <1>6, <1>7, <3>1
  <2> QED BY <2>1, <2>2
<1>9. CASE UNCHANGED bootVars BY <1>2, <1>9 DEF bootVars
<1>10. CASE BootNext BY <1>1, <1>4, <1>8, <1>10 DEF BootNext
<1> QED BY <1>1, <1>9, <1>10

\* What a user made is on its device or on the server as long as the device has
\* only chosen as itself, for any devices and edits, also an edit made while
\* the choice goes on (import_sync_snapshot, bootstrap_replica).
THEOREM FirstChoiceDropsNothing == BootSpec => []EditsSurviveFirstChoice
<1>1. BootInit => EditsSurviveFirstChoice BY DEF BootInit, EditsSurviveFirstChoice
<1>2. BootInv /\ BaselineInv /\ EditsSurviveFirstChoice /\ [BootNext]_bootVars
        => EditsSurviveFirstChoice'
  <2> SUFFICES ASSUME BootInv, BaselineInv, EditsSurviveFirstChoice,
                      [BootNext]_bootVars, NEW e \in Edits,
                      made'[e] # NoSpace, EditorOf[e] \notin again'
               PROVE  e \in dev'[EditorOf[e]].shown \union ServerShows'
    BY DEF EditsSurviveFirstChoice
  <2>1. EditorOf[e] \in Machines BY BootstrapAssumption
  <2>2. /\ dev[EditorOf[e]].shown \subseteq dev'[EditorOf[e]].shown
        /\ EditorOf[e] \notin again
    BY <2>1, ShownRowsStay
  <2>3. ServerShows \subseteq ServerShows' BY ServerKeepsRows
  <2>4. CASE made[e] # NoSpace
    BY <2>2, <2>3, <2>4 DEF EditsSurviveFirstChoice
  <2>5. CASE made[e] = NoSpace
    <3>1. PICK f \in Edits : MakeEdit(f)
      BY <2>5 DEF BootNext, BootStep, Configure, CheckBinding, FetchSnapshot,
         Capture, Choose, BootstrapServer, ImportSnapshot, CheckIdentity, Bind,
         EndAttempt, PushEdit, PullEdits, bootVars
    <3>2. e = f BY <2>5, <3>1 DEF MakeEdit, BootInv, Typed
    <3>3. dev[EditorOf[e]] \in Replicas BY <2>1, Here
    <3>4. dev'[EditorOf[e]] = Edited(dev[EditorOf[e]], e)
      BY <2>1, <3>1, <3>2 DEF MakeEdit, Set, BootInv, Typed
    <3> QED BY <3>3, <3>4, EditedIs
  <2> QED BY <2>4, <2>5
<1> QED BY <1>1, <1>2, WorkspacesAreCoherent, ReplicasFollowTheServer, PTL DEF BootSpec
=============================================================================
