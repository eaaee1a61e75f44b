------------------------------ MODULE HlcClock ------------------------------
(***************************************************************************)
(* Replicas whose wall clocks disagree and jump, stamping the operations   *)
(* they author and observing the stamps of the operations they apply       *)
(* (apply_local_kinds_with_policy and observe_hlc of                       *)
(* crates/notes-core/src/operation.rs).  last_hlc is kept in sync_meta and *)
(* written in the transaction of the operation, so a restart changes       *)
(* nothing here.                                                           *)
(***************************************************************************)
EXTENDS Hlc, Sequences

CONSTANTS
    MaxWall,  \* wall clocks read 0 .. MaxWall
    MaxOps    \* operations authored in a behaviour

ASSUME WallAssumption == MaxWall \in Nat /\ MaxOps \in Nat

VARIABLES
    last,  \* last[d]: the last_hlc of device d, or NoStamp
    now,   \* now[d]: what its wall clock reads
    ops,   \* every operation authored: its stamp and which ones its author knew
    seen   \* seen[d]: indices of the operations applied at d

vars == <<last, now, ops, seen>>

Init ==
    /\ last = [d \in Devices |-> NoStamp]
    /\ now \in [Devices -> 0 .. MaxWall]
    /\ ops = <<>>
    /\ seen = [d \in Devices |-> {}]

\* Time passes, or NTP or the user sets the clock, backwards too.
SetClock(d, w) ==
    /\ now' = [now EXCEPT ![d] = w]
    /\ UNCHANGED <<last, ops, seen>>

\* The operations of one local batch differ from single ones in nothing: they
\* are stamped one after the other at the same reading of the clock.
Author(d) ==
    /\ Len(ops) < MaxOps
    /\ LET stamp == Send(last[d], now[d], d)
       IN  /\ last' = [last EXCEPT ![d] = stamp]
           /\ ops' = Append(ops, [hlc |-> stamp, knew |-> seen[d]])
           /\ seen' = [seen EXCEPT ![d] = @ \union {Len(ops) + 1}]
    /\ UNCHANGED now

\* An operation of another device is applied for the first time: observe_hlc.
\* Nothing here depends on the order of delivery, so none is assumed.
Observe(d, i) ==
    /\ i \in DOMAIN ops /\ i \notin seen[d]
    /\ last' = [last EXCEPT ![d] = Receive(last[d], ops[i].hlc, now[d], d)]
    /\ seen' = [seen EXCEPT ![d] = @ \union {i}]
    /\ UNCHANGED <<now, ops>>

Next ==
    \E d \in Devices :
        \/ \E w \in 0 .. MaxWall : SetClock(d, w)
        \/ Author(d)
        \/ \E i \in 1 .. Len(ops) : Observe(d, i)

Spec == Init /\ [][Next]_vars

----------------------------------------------------------------------------

Records == [hlc : Stamps, knew : SUBSET Nat]

\* Clocks, stamps and indices are what the code stores.
TypeOK ==
    /\ last \in [Devices -> Stamps \union {NoStamp}]
    /\ now \in [Devices -> 0 .. MaxWall]
    /\ ops \in Seq(Records)
    /\ seen \in [Devices -> SUBSET (1 .. Len(ops))]

\* Some operation carries a counter that can no longer grow.
Saturated == \E i \in DOMAIN ops : ops[i].hlc.counter = MaxCounter

\* An operation made in the knowledge of another one has a larger stamp, so
\* last-writer-wins never prefers the older of two edits made in sequence,
\* whatever the wall clocks of the devices did (hlc.rs: send after receive).
StampsFollowKnowledge ==
    Saturated \/
    \A i \in DOMAIN ops : \A j \in ops[i].knew : Less(ops[j].hlc, ops[i].hlc)

\* No two operations carry the same stamp, so every pair of concurrent edits
\* has one winner on every replica.
StampsAreUnique ==
    Saturated \/
    \A i, j \in DOMAIN ops : ops[i].hlc = ops[j].hlc => i = j

\* The persisted clock of a device never goes back, even when its wall clock
\* does, until the counter saturates.
ClockNeverGoesBack ==
    [][\A d \in Devices : AtMost(last[d], last'[d])]_vars
=============================================================================
