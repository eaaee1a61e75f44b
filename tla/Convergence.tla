---------------------------- MODULE Convergence ----------------------------
(***************************************************************************)
(* Devices that edit the same pages offline and exchange operations        *)
(* through the server's log.  A device applies its own operations when the *)
(* command runs and the others in the order of the log, so that two        *)
(* replicas apply the same operations in different orders; the server      *)
(* applies them in the order of the log.                                   *)
(*                                                                         *)
(* How the log is built, with its faults, is SyncProtocol's subject: here  *)
(* a push appends the whole outbox and a pull applies the rest of the log. *)
(* A stamp is any number nobody used that is above everything the device   *)
(* has applied: wall clocks may be far apart.                              *)
(*                                                                         *)
(* Most commands read the database, decide which operations to write, and  *)
(* write them in a later transaction: Prepare and Commit, with a pull or   *)
(* an undo between them.  One such command is in flight per device.        *)
(***************************************************************************)
EXTENDS History, Snapshot

CONSTANTS Devices, Server,
          Seeds,        \* operations every replica has applied at the start
          Commands,     \* the names of the commands a device runs
          HistoryLimit, \* how many entries a device's history_undo keeps (50)
          MaxStamp      \* bound on stamps, and so on operations

VARIABLES replica,    \* the database of every device and of the server
          clock,      \* last_hlc of every device
          outbox,     \* operations of a device that the log does not have
          position,   \* how much of the log a device has applied
          log,        \* the server's oplog
          history,    \* history_undo and history_redo of every device
          pending     \* what the command in flight of a device will write

vars == <<replica, clock, outbox, position, log, history, pending>>

Replicas == Devices \cup {Server}

Operations == [at : Nat \ {0}, device : Replicas, kind : Kinds]

ASSUME ConvergenceAssumption ==
  /\ Server \notin Devices
  /\ Seeds \in Seq(Operations)
  /\ \A i \in 1..Len(Seeds) :
       /\ Seeds[i].at = i
       /\ Needs(Seeds[i].kind) \subseteq UNION {Makes(Seeds[j].kind) : j \in 1..(i-1)}
  /\ HistoryLimit \in [Devices -> Nat]
  /\ MaxStamp \in Nat

ApplyNext(batch, op) ==
  IF batch.ok /\ ~Refuses(batch.db, op)
  THEN [ok |-> TRUE, db |-> Apply(batch.db, op)]
  ELSE [batch EXCEPT !.ok = FALSE]

\* A batch is one transaction: its operations in order up to one that is
\* refused, but not those in known, and the structure of the blocks once at the end.
ApplyUnknown(db, known, ops) ==
  LET after[i \in 0..Len(ops)] ==
        IF i = 0 THEN [ok |-> TRUE, db |-> db]
        ELSE IF ops[i] \in known THEN after[i-1]
        ELSE ApplyNext(after[i-1], ops[i])
      last == after[Len(ops)]
  IN  [ok |-> last.ok, db |-> ReconcileStructure(last.db)]

ApplyBatch(db, ops) == ApplyUnknown(db, {}, ops)

StampsOf(ops) == {ops[i].at : i \in 1..Len(ops)}
Used == StampsOf(Seeds) \cup StampsOf(log) \cup UNION {StampsOf(outbox[d]) : d \in Devices}
Free(d) == {s \in 1..MaxStamp : s > clock[d] /\ s \notin Used}

\* Operations anybody has written.
Written == ToSet(Seeds) \cup ToSet(log) \cup UNION {ToSet(outbox[d]) : d \in Devices}

Init ==
  /\ replica = [r \in Replicas |-> ApplyBatch(EmptyDatabase, Seeds).db]
  /\ clock = [d \in Devices |-> Len(Seeds)]
  /\ outbox = [d \in Devices |-> <<>>]
  /\ position = [d \in Devices |-> 0]
  /\ log = <<>>
  /\ history = [d \in Devices |-> EmptyHistory]
  /\ pending = [d \in Devices |-> <<>>]

-----------------------------------------------------------------------------
(* Authoring: one transaction that stamps, applies and queues operations *)

\* The operations of these kinds, stamped in their order.
Stamped(d, kinds) ==
  LET places == 1..Len(kinds)
      stamps == {at \in [places -> Free(d)] : \A i, k \in places : i < k => at[i] < at[k]}
  IN  {[i \in places |-> [at |-> at[i], device |-> d, kind |-> kinds[i]]] : at \in stamps}

Author(d, ops) ==
  LET batch == ApplyBatch(replica[d], ops)
  IN  /\ batch.ok
      /\ replica' = [replica EXCEPT ![d] = batch.db]
      /\ clock' = [clock EXCEPT ![d] = Last(ops).at]
      /\ outbox' = [outbox EXCEPT ![d] = @ \o ops]
      /\ UNCHANGED <<position, log>>

\* apply_local: the edits of a title or a text are not in the history.
Edit(d, kinds) ==
  /\ \E ops \in Stamped(d, kinds) : Author(d, ops)
  /\ UNCHANGED <<history, pending>>

\* apply_local_action
Act(d, kinds) ==
  /\ \E ops \in Stamped(d, kinds) : Author(d, ops)
  /\ history' = [history EXCEPT ![d] = RecordAction(@, kinds, InverseKinds(replica[d], kinds),
                                                     replica'[d], HistoryLimit[d])]

Prepare(d, kinds) ==
  /\ pending[d] = <<>>
  /\ pending' = [pending EXCEPT ![d] = kinds]
  /\ UNCHANGED <<replica, clock, outbox, position, log, history>>

Commit(d) ==
  /\ pending[d] # <<>>
  /\ Act(d, pending[d])
  /\ pending' = [pending EXCEPT ![d] = <<>>]

-----------------------------------------------------------------------------
(* The commands *)

\* A uuid that no device has generated yet.
Unborn(o) == /\ \A op \in Written : ObjectOf(op.kind) # o
             /\ \A d \in Devices : \A k \in ToSet(pending[d]) : ObjectOf(k) # o

TitleTaken(db, p, title) ==
  title # None /\ \E q \in Pages \ {p} : db.pages[q].title = title

CreatePage(d, p, title) ==
  /\ "create_page" \in Commands[d]
  /\ p \notin Journals /\ Unborn(p)
  /\ title # None /\ ~TitleTaken(replica[d], p, title)
  /\ Prepare(d, <<PageCreates(p, title)>>)

EnsureJournal(d, p) ==
  /\ "ensure_journal" \in Commands[d]
  /\ p \in Journals /\ ~PageExists(replica[d], p)
  /\ Act(d, <<PageCreates(p, None)>>)
  /\ UNCHANGED pending

RenamePage(d, p, title) ==
  /\ "rename_page" \in Commands[d]
  /\ p \notin Journals /\ PageExists(replica[d], p)
  /\ replica[d].pages[p].title # title
  /\ ~TitleTaken(replica[d], p, title)
  /\ Edit(d, <<PageSetsTitle(p, title)>>)

\* The whole tree, children before their parents, and then the page.
DeletePage(d, p) ==
  LET db == replica[d]
      \* Children before their parents.
      orders == {s \in SetToSeqs(BlocksOf(db, p)) :
                   \A i, k \in 1..Len(s) : s[i] \in Above(ParentOf(db), s[k]) => k < i}
  IN  /\ "delete_page" \in Commands[d]
      /\ PageExists(db, p)
      /\ \E doomed \in orders :
           Act(d, Append([i \in 1..Len(doomed) |-> BlockDeletes(doomed[i])], PageDeletes(p)))
      /\ UNCHANGED pending

\* A block that does not come last rewrites the intents of its siblings.
CreateBlock(d, b, parent) ==
  LET db       == replica[d]
      siblings == Children(db, PageOf[b], parent)
      inserted == {s \in SetToSeqs(siblings \cup {b}) : Last(s) # b}
  IN  /\ "create_block" \in Commands[d]
      /\ Unborn(b) /\ PageExists(db, PageOf[b])
      /\ parent # None => parent \in BlocksOf(db, PageOf[b])
      /\ \E ordered \in inserted \cup {<<>>} :
           Prepare(d, <<BlockCreates(b, parent)>>
                      \o [i \in 1..Len(ordered) |-> BlockMoves(ordered[i], parent)])

SetBlockContent(d, b) ==
  /\ "set_block_content" \in Commands[d]
  /\ BlockExists(replica[d], b)
  /\ Edit(d, <<BlockSetsMarkdown(b)>>)

\* A move rewrites the intent of every sibling at the new place.
MoveBlock(d, b, parent) ==
  LET db       == replica[d]
      siblings == Children(db, PageOf[b], parent) \ {b}
  IN  /\ "move_block" \in Commands[d]
      /\ BlockExists(db, b)
      /\ parent # None => /\ parent \in BlocksOf(db, PageOf[b]) \ {b}
                          /\ b \notin Above(ParentOf(db), parent)
      /\ \E ordered \in SetToSeqs(siblings \cup {b}) :
           Prepare(d, [i \in 1..Len(ordered) |-> BlockMoves(ordered[i], parent)])

DeleteBlock(d, b) ==
  LET db == replica[d]
  IN  /\ "delete_block" \in Commands[d]
      /\ BlockExists(db, b)
      /\ Children(db, PageOf[b], b) = {}
      /\ Prepare(d, <<BlockDeletes(b)>>)

\* move_history: the newest entry of undo, or of redo, is applied if it still
\* applies, and dropped otherwise.
MoveHistory(d, source) ==
  /\ source \in Commands[d]
  /\ history[d][source] # <<>>
  /\ LET payload == Newest(history[d], source)[Selected(source)]
     IN  IF StillApplies(replica[d], payload)
         THEN /\ \E ops \in Stamped(d, payload.kinds) : Author(d, ops)
              /\ history' = [history EXCEPT ![d] = Moved(@, source, replica'[d])]
         ELSE /\ history' = [history EXCEPT ![d] = Dropped(@, source)]
              /\ UNCHANGED <<replica, clock, outbox, position, log>>
  /\ UNCHANGED pending

-----------------------------------------------------------------------------
(* Exchange *)

Push(d) ==
  LET batch == ApplyBatch(replica[Server], outbox[d])
  IN  /\ outbox[d] # <<>>
      /\ batch.ok
      /\ log' = log \o outbox[d]
      /\ replica' = [replica EXCEPT ![Server] = batch.db]
      /\ outbox' = [outbox EXCEPT ![d] = <<>>]
      /\ UNCHANGED <<clock, position, history, pending>>

\* The rest of the log for d, in which the operations it authored are echoes.
Unseen(d) == SubSeq(log, position[d] + 1, Len(log))
Echoes(d) == {op \in ToSet(log) : op.device = d}

NewPosition(d) == Len(log)

Pull(d) ==
  LET batch == ApplyUnknown(replica[d], Echoes(d), Unseen(d))
  IN  /\ position[d] < Len(log)
      /\ batch.ok
      /\ replica' = [replica EXCEPT ![d] = batch.db]
      /\ clock' = [clock EXCEPT ![d] = Max({@} \cup StampsOf(Unseen(d)))]
      /\ position' = [position EXCEPT ![d] = NewPosition(d)]
      /\ UNCHANGED <<outbox, log, history, pending>>

Next ==
  \E d \in Devices :
    \/ \E p \in Pages :
         \/ \E title \in Titles \cup {None} : CreatePage(d, p, title) \/ RenamePage(d, p, title)
         \/ EnsureJournal(d, p)
         \/ DeletePage(d, p)
    \/ \E b \in Blocks :
         \/ \E parent \in (Blocks \ {b}) \cup {None} : CreateBlock(d, b, parent) \/ MoveBlock(d, b, parent)
         \/ SetBlockContent(d, b)
         \/ DeleteBlock(d, b)
    \/ Commit(d)
    \/ MoveHistory(d, "undo")
    \/ MoveHistory(d, "redo")
    \/ Push(d)
    \/ Pull(d)

Spec == Init /\ [][Next]_vars

-----------------------------------------------------------------------------
(* Properties *)

\* Nothing is left to exchange with this device.
Settled(d) == outbox[d] = <<>> /\ position[d] = Len(log)
Logged     == ToSet(Seeds) \cup ToSet(log)

\* Replicas that have applied the same operations hold the same pages and
\* blocks, in whatever order each applied them (apply_one_with_effects).
Converged ==
  \A d \in Devices : Settled(d) => /\ replica[d].pages  = replica[Server].pages
                                   /\ replica[d].blocks = replica[Server].blocks

CreationsOf(o) == {op \in Logged : o \in Makes(op.kind)}

\* Objects that no undo brought back and no second device ensured, on such pages.
Original == LET once == {o \in Objects : Cardinality(CreationsOf(o)) <= 1}
            IN  {o \in once : o \in Blocks => PageOf[o] \in once}

Claims(p) == {op.kind.title : op \in {l \in Logged : /\ l.kind.name \in {"PageCreate", "PageSetTitle"}
                                                      /\ l.kind.page = p}} \ {None}
Uncontested(p) == \A q \in Pages \ {p} : Claims(p) \cap Claims(q) = {}

\* What converges whatever is undone, ensured twice or named alike: pages and
\* blocks created once, their texts and places, and titles no two pages claim.
KeptConverged ==
  \A d \in Devices : Settled(d) =>
    LET mine == replica[d]
        all  == replica[Server]
    IN  /\ \A p \in Pages \cap Original :
             /\ mine.pages[p].existence = all.pages[p].existence
             /\ Uncontested(p) => mine.pages[p] = all.pages[p]
        /\ \A b \in Blocks \cap Original :
             /\ mine.structure[b] = all.structure[b]
             /\ [mine.blocks[b] EXCEPT !.parent = None] = [all.blocks[b] EXCEPT !.parent = None]
        /\ Objects \subseteq Original => mine.blocks = all.blocks

\* Replicas that have applied the same operations are equal, in whatever order
\* each applied them, as long as nothing was undone, ensured twice or named
\* alike (apply_one_with_effects).
OriginalsConverge ==
  Objects \subseteq Original /\ (\A p \in Pages : Uncontested(p)) => Converged

\* The operations a device wrote, and those the log holds, always apply: no
\* block is created on a page that the replica has never heard of.
NothingRefused ==
  \A d \in Devices : /\ ApplyBatch(replica[Server], outbox[d]).ok
                     /\ ApplyUnknown(replica[d], Echoes(d), Unseen(d)).ok

\* "snapshot UUID {} is both live and tombstoned": an importer refuses what
\* breaks a promise of the engine, so what the server of a workspace exports is
\* accepted (validate_snapshot).
SnapshotsAreAccepted == ValidSnapshot(ExportSnapshot(replica[Server]))

\* A device that starts from a snapshot of the server has the database it was
\* taken of, the tree of blocks included, and goes on as if it had applied every
\* operation itself; blocks, pages, intents and the parents they ask for fit
\* together (export_sync_snapshot, import_sync_snapshot).
SnapshotsCarryOver == CarriesOver(replica[Server])

\* On every replica a block belongs to the current generation of its page: a
\* page that is restored does not bring back what was deleted with it
\* (BlockCreate, PageCreate).
Generations == \A r \in Replicas : InGeneration(replica[r])

\* The blocks of every replica form a forest, whatever moves were concurrent.
Forest == \A r \in Replicas : \A b \in Blocks : b \notin Above(ParentOf(replica[r]), b)

\* idx_pages_normalized_title: no two pages of a replica have the same title,
\* whichever claims arrive in which order (apply_page_title).
TitlesUnique == \A r \in Replicas : OneTitleOnePage(replica[r])

\* "The first generation uses the earliest observed ensure HLC, independently
\* of delivery order", for a journal that nobody deleted.
EarliestEnsure ==
  \A d \in Devices : Settled(d) =>
    \A p \in Journals :
      LET deleted == \E op \in Logged : op.kind = PageDeletes(p)
      IN  CreationsOf(p) # {} /\ ~deleted =>
            replica[d].pages[p].existence = Min({op.at : op \in CreationsOf(p)})

\* Where pages are undone, ensured twice or named alike, what is left of that
\* promise does not depend on the order either, and a journal nobody deleted has
\* the stamp of its earliest ensure on every replica (apply_one_with_effects).
KeptThroughout == KeptConverged /\ EarliestEnsure

AuthorOf(at) == CHOOSE d \in Replicas : \E op \in Written : op.at = at /\ op.device = d

Fields == ({"existence"} \X Objects) \cup ({"title"} \X Pages)
          \cup ({"markdown", "structure"} \X Blocks)

\* What a device wrote later than this about the field, or about something
\* whose moves are guarded by it.
WrittenSince(d, f, at) == {op \in Written : op.device = d /\ op.at > at /\ f \in GuardFields(op.kind)}

\* An undo or a redo overwrites what another device last wrote into a field of
\* something alive, or brings back what another device deleted, only after this
\* device has itself written twice since about the field, as a command and its
\* undo do: the entries beside such a move adopt the other device's change as if
\* it were the device's own (refresh_sibling_guards).  A change it wrote nothing
\* about is never taken back, nor is what came to stand below a deleted object
\* meanwhile ever deleted with it (scope_guards_match).
MovesOverwriteAdopted ==
  [][\A d \in Devices :
       LET Overwritten(f) ==
             /\ FieldStamp(replica[d], f) # FieldStamp(replica'[d], f)
             /\ ~(IsTombstoned(replica[d], f[2]) /\ IsTombstoned(replica'[d], f[2]))
           Own(at) == at = 0 \/ AuthorOf(at) = d
       IN  MoveHistory(d, "undo") \/ MoveHistory(d, "redo") =>
             \A f \in {g \in Fields : Overwritten(g) /\ ~Own(FieldStamp(replica[d], g))} :
                Cardinality(WrittenSince(d, f, FieldStamp(replica[d], f))) >= 2]_vars
=============================================================================
