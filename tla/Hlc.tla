-------------------------------- MODULE Hlc --------------------------------
(***************************************************************************)
(* The hybrid logical clock of crates/notes-core/src/hlc.rs: a wall time   *)
(* in milliseconds, a counter and the device.  The counter is a u32 that   *)
(* saturates at MaxCounter.                                                *)
(***************************************************************************)
EXTENDS Integers

CONSTANTS
    Devices,    \* device ids, compared as numbers like the UUID suffix is
    MaxCounter  \* u32::MAX

ASSUME DevicesAssumption == Devices \subseteq Nat
ASSUME MaxCounterAssumption == MaxCounter \in Nat \ {0}

Stamps == [wall : Nat, counter : 0 .. MaxCounter, device : Devices]

\* A replica that has neither authored nor observed anything (no last_hlc).
NoStamp == [wall |-> 0, counter |-> 0, device |-> -1]

\* Derived Ord of the struct; the fixed-width text form sorts the same way.
Less(a, b) ==
    \/ a.wall < b.wall
    \/ a.wall = b.wall /\ a.counter < b.counter
    \/ a.wall = b.wall /\ a.counter = b.counter /\ a.device < b.device

AtMost(a, b) == a = b \/ Less(a, b)

\* u32::saturating_add(1)
Bump(counter) == IF counter < MaxCounter THEN counter + 1 ELSE MaxCounter

Stamp(w, n, d) == [wall |-> w, counter |-> n, device |-> d]

\* Mutant: only a wall clock that went back counts up.
SendStrict(last, now, d) ==
    IF last # NoStamp /\ last.wall > now
    THEN Stamp(last.wall, Bump(last.counter), d)
    ELSE Stamp(now, 0, d)

\* Mutant: the wall clock is believed.
SendWall(last, now, d) == Stamp(now, 0, d)

\* Hlc::send: the stamp of the next operation of device d.
Send(last, now, d) ==
    IF last # NoStamp /\ last.wall >= now
    THEN Stamp(last.wall, Bump(last.counter), d)
    ELSE Stamp(now, 0, d)

Larger(a, b) == IF a >= b THEN a ELSE b

\* Mutant: the remote stamp is not looked at.
ReceiveNothing(last, remote, now, d) == Send(last, now, d)

\* Hlc::receive: the clock of device d after it has seen `remote'.
Receive(last, remote, now, d) ==
    LET wall == Larger(Larger(now, last.wall), remote.wall)
        here == last # NoStamp /\ last.wall = wall
        there == remote.wall = wall
    IN  CASE here /\ there  -> Stamp(wall, Bump(Larger(last.counter, remote.counter)), d)
          [] here /\ ~there -> Stamp(wall, Bump(last.counter), d)
          [] ~here /\ there -> Stamp(wall, Bump(remote.counter), d)
          [] OTHER          -> Stamp(wall, 0, d)
=============================================================================
