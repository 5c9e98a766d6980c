-------------------------------- MODULE HLC --------------------------------
(***************************************************************************)
(* The hybrid logical clock of internal/core/hlc.go as pure operators:     *)
(* timestamps, versions, their order, and the two ways a clock moves.      *)
(*                                                                         *)
(* A timestamp is physical time (wall, Unix nanoseconds) and a counter.    *)
(* The counter is a uint32; CounterMod is its modulus (2^32 in the build). *)
(* Node identifiers are numbers: Go compares the names as strings and only *)
(* uses that the order is total and the same everywhere.                   *)
(***************************************************************************)
EXTENDS Integers

CONSTANTS
  MaxClockDrift,  \* how far ahead of local time a peer's reading may be
  CounterMod      \* the counter wraps at this value

ASSUME HLCAssumption ==
  /\ MaxClockDrift \in Nat
  /\ CounterMod \in Nat \ {0}

Timestamp == [wall : Nat, ctr : 0 .. CounterMod - 1]

\* The reading of a clock that has never ticked: Go's zero Timestamp.
ZeroTime == [wall |-> 0, ctr |-> 0]

\* A counter that never wraps.
BumpUnbounded(c) == c + 1

\* A uint32 increment.
Bump(c) == IF c + 1 >= CounterMod THEN 0 ELSE c + 1

Greater(a, b) == IF a >= b THEN a ELSE b

---------------------------------------------------------------------------
(* The order of timestamps and of versions. *)

Compare(t, o) ==
  CASE t.wall < o.wall -> -1
    [] t.wall > o.wall -> 1
    [] OTHER -> IF t.ctr < o.ctr THEN -1 ELSE IF t.ctr > o.ctr THEN 1 ELSE 0

\* v wins a last-writer-wins comparison against o.
After(v, o) ==
  IF Compare(v.hlc, o.hlc) # 0 THEN Compare(v.hlc, o.hlc) > 0
                               ELSE v.origin > o.origin

Equal(v, o) == Compare(v.hlc, o.hlc) = 0 /\ v.origin = o.origin

---------------------------------------------------------------------------
(* The two operations of a clock whose last reading is last, at a moment   *)
(* when the machine's own clock shows physical.                            *)

\* A clock that trusts the machine's clock even when it went backwards.
NowFromPhysical(last, physical) ==
  IF physical # last.wall THEN [wall |-> physical, ctr |-> 0]
                          ELSE [last EXCEPT !.ctr = Bump(@)]

\* A clock without the counter: events inside one reading are not told apart.
NowNoCounter(last, physical) ==
  IF physical > last.wall THEN [wall |-> physical, ctr |-> 0] ELSE last

\* Clock.Now: the reading for a locally originated event.
Now(last, physical) ==
  IF physical > last.wall THEN [wall |-> physical, ctr |-> 0]
                          ELSE [last EXCEPT !.ctr = Bump(@)]

\* A drift guard that was never written.
NeverDrifted(remote, physical) == FALSE

\* The reading Clock.Observe refuses with ErrClockDrift.
Drifted(remote, physical) == remote.wall - physical > MaxClockDrift

\* A merge that ignores the peer's counter when the walls tie.
ObserveLocalOnly(last, physical, remote) == Now(last, physical)

\* Clock.Observe of a reading that is not Drifted: the HLC merge.
Observe(last, physical, remote) ==
  LET wall == Greater(physical, Greater(last.wall, remote.wall))
  IN  [wall |-> wall,
       ctr  |-> CASE wall = last.wall /\ wall = remote.wall ->
                       Bump(Greater(last.ctr, remote.ctr))
                  [] wall = last.wall /\ wall # remote.wall -> Bump(last.ctr)
                  [] wall # last.wall /\ wall = remote.wall -> Bump(remote.ctr)
                  [] OTHER -> 0]
===========================================================================
