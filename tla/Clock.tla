------------------------------- MODULE Clock -------------------------------
(***************************************************************************)
(* One core.Clock as a state machine: every local write calls Now, every   *)
(* received write calls Observe, each under the clock's mutex and so       *)
(* atomic, while the machine's clock moves as an RTC under NTP does:       *)
(* forwards, or backwards when it is stepped.                              *)
(***************************************************************************)
EXTENDS HLC

CONSTANTS MaxWall,    \* bound: largest reading of the machine's clock
          MaxRemote   \* bound: largest wall component a peer may send

ASSUME ClockAssumption == MaxWall \in Nat /\ MaxRemote \in Nat

VARIABLES
  physical,  \* what c.now() shows
  last,      \* Clock.last
  \* History, not state of the program:
  greatest,  \* the greatest reading returned by Now or accepted by Observe
  latest     \* the greatest value physical ever had

vars == <<physical, last, greatest, latest>>

TypeOK ==
  /\ physical \in Nat
  /\ latest \in Nat
  /\ last \in Timestamp
  /\ greatest \in Timestamp

MaxOf(t, o) == IF Compare(t, o) >= 0 THEN t ELSE o

Init ==
  /\ physical \in 0 .. MaxWall
  /\ latest = physical
  /\ last = ZeroTime
  /\ greatest = ZeroTime

\* The machine's clock moves, possibly backwards.
SetPhysical ==
  /\ physical' \in 0 .. MaxWall
  /\ latest' = Greater(latest, physical')
  /\ UNCHANGED <<last, greatest>>

\* Clock.Now.
LocalEvent ==
  /\ last' = Now(last, physical)
  /\ greatest' = MaxOf(greatest, last')
  /\ UNCHANGED <<physical, latest>>

\* Clock.Observe that accepts the peer's reading. (A refused one leaves the
\* clock untouched and is a stuttering step.)
RemoteEvent ==
  \E remote \in [wall : 0 .. MaxRemote, ctr : 0 .. CounterMod - 1] :
    /\ ~Drifted(remote, physical)
    /\ last' = Observe(last, physical, remote)
    /\ greatest' = MaxOf(greatest, MaxOf(remote, last'))
    /\ UNCHANGED <<physical, latest>>

Next == SetPhysical \/ LocalEvent \/ RemoteEvent

Spec == Init /\ [][Next]_vars

---------------------------------------------------------------------------
\* The counter has not reached its last value. Reaching it takes 2^32 events
\* in one wall reading, the machine's clock standing still, or lying behind,
\* all that time; past it the uint32 wraps and the promises below lapse.
CounterHasRoom == greatest.ctr + 1 < CounterMod

\* hlc.go promises that Now "is strictly greater than every timestamp this
\* Clock has previously returned or observed ... even if the system clock
\* jumps backwards": every event moves the clock past everything it returned
\* or observed before, however the machine's clock and the peers' readings
\* interleave.
StrictlyIncreasing ==
  [][(last' # last /\ CounterHasRoom') => Compare(last', greatest) > 0]_vars

\* The reason StrictlyIncreasing holds: one stored reading (Clock.last) stands
\* for the whole history, the readings of peers included.
HoldsGreatest ==
  /\ last.wall = greatest.wall
  /\ CounterHasRoom => last = greatest

\* What MaxClockDrift is for (hlc.go: "a single node with a broken RTC ...
\* would drag every other node's clock forward with it"): whatever peers send,
\* the clock stays within the drift of a time this machine really showed.
NeverDraggedAhead == last.wall <= latest + MaxClockDrift
===========================================================================
