---------------------------- MODULE ClockProofs ----------------------------
(***************************************************************************)
(* The promises of core.Clock for every drift bound, every counter width   *)
(* and every behaviour of the machine's clock.                             *)
(***************************************************************************)
EXTENDS Clock, HLCProofs

\* The inductive invariant. HoldsGreatest alone is not inductive: once the
\* counter has wrapped it needs that the clock is never above its history.
ClockInv ==
  /\ TypeOK
  /\ HoldsGreatest
  /\ Compare(greatest, last) >= 0
  /\ NeverDraggedAhead
  /\ physical <= latest

\* A clock that has never ticked satisfies the invariant.
LEMMA ClockInit == Init => ClockInv
  BY ClockAssumption, HLCAssumption
  DEF Init, ClockInv, TypeOK, HoldsGreatest, NeverDraggedAhead, CounterHasRoom,
      ZeroTime, Timestamp, Compare

\* MaxOf is the greater of two readings.
LEMMA MaxOfFacts ==
  ASSUME NEW t \in Timestamp, NEW o \in Timestamp
  PROVE  /\ MaxOf(t, o) \in Timestamp
         /\ MaxOf(t, o) \in {t, o}
         /\ Compare(MaxOf(t, o), t) >= 0
         /\ Compare(MaxOf(t, o), o) >= 0
  BY CompareFacts DEF MaxOf

\* One event of the clock: the new reading exceeds the old one and the one
\* observed (r; the old one itself for Now), unless a counter it goes on from was
\* at its last value.
LEMMA EventStep ==
  ASSUME ClockInv, NEW r \in Timestamp, NEW t \in Timestamp,
         t.wall = Greater(physical, Greater(last.wall, r.wall)),
         /\ t.wall = last.wall => last.ctr + 1 < CounterMod
         /\ t.wall = r.wall => r.ctr + 1 < CounterMod
         => Compare(t, last) > 0 /\ Compare(t, r) >= 0,
         r.wall <= physical + MaxClockDrift \/ r = last,
         last' = t,
         greatest' = MaxOf(greatest, MaxOf(r, t)),
         UNCHANGED <<physical, latest>>
  PROVE  /\ ClockInv'
         /\ CounterHasRoom' => Compare(last', greatest) > 0
<1>1. /\ last \in Timestamp /\ greatest \in Timestamp
      /\ last.wall = greatest.wall /\ Compare(greatest, last) >= 0
      /\ physical \in Nat /\ latest \in Nat /\ physical <= latest
      /\ last.wall <= latest + MaxClockDrift
      /\ greatest.ctr + 1 < CounterMod => last = greatest
  BY DEF ClockInv, TypeOK, HoldsGreatest, NeverDraggedAhead, CounterHasRoom
<1>2. greatest' \in Timestamp /\ greatest' \in {greatest, r, t}
      /\ Compare(greatest', greatest) >= 0 /\ Compare(greatest', r) >= 0
      /\ Compare(greatest', t) >= 0
  <2>1. MaxOf(r, t) \in Timestamp /\ MaxOf(r, t) \in {r, t}
        /\ Compare(MaxOf(r, t), r) >= 0 /\ Compare(MaxOf(r, t), t) >= 0
    BY MaxOfFacts
  <2>2. greatest' \in Timestamp /\ greatest' \in {greatest, MaxOf(r, t)}
        /\ Compare(greatest', greatest) >= 0
        /\ Compare(greatest', MaxOf(r, t)) >= 0
    BY <1>1, <2>1, MaxOfFacts
  <2>3. Compare(greatest', r) >= 0 /\ Compare(greatest', t) >= 0
    BY <2>1, <2>2, CompareTransitive
  <2> QED
    BY <2>1, <2>2, <2>3
<1>3. t.wall >= last.wall /\ t.wall >= r.wall /\ t.wall >= physical
  BY <1>1 DEF Greater, Timestamp
<1>4. greatest'.wall = t.wall
  BY <1>1, <1>2, <1>3, HLCAssumption DEF Compare, Timestamp
<1>5. t.wall <= latest + MaxClockDrift
  BY <1>1, HLCAssumption DEF Greater, Timestamp
<1>6. ASSUME greatest'.ctr + 1 < CounterMod
      PROVE  greatest' = t /\ Compare(t, greatest) > 0
  <2>1. t.wall = greatest.wall => last = greatest /\ last.ctr + 1 < CounterMod
    BY <1>1, <1>2, <1>4, <1>6, HLCAssumption DEF Compare, Timestamp
  <2>2. t.wall = r.wall => r.ctr + 1 < CounterMod
    BY <1>2, <1>4, <1>6, HLCAssumption DEF Compare, Timestamp
  <2>3. Compare(t, last) > 0 /\ Compare(t, r) >= 0
    BY <1>1, <2>1, <2>2
  <2>4. Compare(t, greatest) > 0
    BY <1>1, <1>3, <2>1, <2>3, HLCAssumption DEF Compare, Timestamp
  <2> QED
    BY <1>1, <1>2, <2>3, <2>4, CompareFacts
<1>7. ClockInv'
  <2>1. Compare(greatest', last') >= 0
    BY <1>2
  <2> QED
    BY <1>1, <1>2, <1>4, <1>5, <1>6, <2>1
    DEF ClockInv, TypeOK, HoldsGreatest, NeverDraggedAhead, CounterHasRoom
<1> QED
  BY <1>6, <1>7 DEF CounterHasRoom

\* Every step of the clock keeps the invariant and moves the clock past its
\* history.
LEMMA ClockStep ==
  ClockInv /\ [Next]_vars =>
    /\ ClockInv'
    /\ last' # last /\ CounterHasRoom' => Compare(last', greatest) > 0
<1> SUFFICES ASSUME ClockInv, [Next]_vars
             PROVE  /\ ClockInv'
                    /\ last' # last /\ CounterHasRoom' =>
                         Compare(last', greatest) > 0
  OBVIOUS
<1>1. CASE SetPhysical
  BY <1>1, ClockAssumption, HLCAssumption
  DEF SetPhysical, ClockInv, TypeOK, HoldsGreatest, NeverDraggedAhead,
      CounterHasRoom, Greater, Timestamp
<1>2. CASE LocalEvent
  <2> DEFINE t == Now(last, physical)
  <2>1. last \in Timestamp /\ greatest \in Timestamp /\ physical \in Nat
        /\ Compare(greatest, last) >= 0
    BY DEF ClockInv, TypeOK
  <2>2. /\ t \in Timestamp
        /\ t.wall = Greater(physical, Greater(last.wall, last.wall))
        /\ t.wall = last.wall => (last.ctr + 1 < CounterMod => Compare(t, last) > 0)
        /\ t.wall # last.wall => Compare(t, last) > 0
    BY <2>1, NowFacts, HLCAssumption DEF Greater, Timestamp, Compare
  <2>3. greatest' = MaxOf(greatest, MaxOf(last, t))
    BY <1>2, <2>1, <2>2, HLCAssumption DEF LocalEvent, MaxOf, Compare, Timestamp
  <2> QED
    BY <1>2, <2>1, <2>2, <2>3, EventStep, CompareFacts DEF LocalEvent
<1>3. CASE RemoteEvent
  <2>1. PICK r \in [wall : 0 .. MaxRemote, ctr : 0 .. CounterMod - 1] :
          /\ ~Drifted(r, physical)
          /\ last' = Observe(last, physical, r)
          /\ greatest' = MaxOf(greatest, MaxOf(r, last'))
          /\ UNCHANGED <<physical, latest>>
    BY <1>3 DEF RemoteEvent
  <2>2. r \in Timestamp /\ last \in Timestamp /\ physical \in Nat
    BY ClockAssumption DEF Timestamp, ClockInv, TypeOK
  <2> DEFINE t == Observe(last, physical, r)
  <2>3. /\ t \in Timestamp
        /\ t.wall = Greater(physical, Greater(last.wall, r.wall))
        /\ /\ t.wall = last.wall => last.ctr + 1 < CounterMod
           /\ t.wall = r.wall => r.ctr + 1 < CounterMod
           => Compare(t, last) > 0 /\ Compare(t, r) >= 0
    <3>1. /\ t \in Timestamp
          /\ t.wall = Greater(physical, Greater(last.wall, r.wall))
          /\ /\ t.wall = last.wall => last.ctr + 1 < CounterMod
             /\ t.wall = r.wall => r.ctr + 1 < CounterMod
             => Compare(t, last) > 0 /\ Compare(t, r) > 0
      BY <2>2, ObserveFacts
    <3>2. Compare(t, r) \in {-1, 0, 1}
      BY <2>2, <3>1, CompareFacts
    <3> QED
      BY <3>1, <3>2
  <2>4. r.wall <= physical + MaxClockDrift
    BY <2>1, <2>2, HLCAssumption DEF Drifted, Timestamp
  <2> QED
    BY <2>1, <2>2, <2>3, <2>4, EventStep
<1>4. CASE UNCHANGED vars
  BY <1>4 DEF vars, ClockInv, TypeOK, HoldsGreatest, NeverDraggedAhead,
              CounterHasRoom
<1> QED
  BY <1>1, <1>2, <1>3, <1>4 DEF Next

\* Clock.last stands for the whole history of a clock, whatever the machine's
\* clock does: it is the greatest reading returned or observed, up to the wrap
\* of the counter.
THEOREM ClockHoldsGreatest == Spec => [](TypeOK /\ HoldsGreatest)
<1>1. ClockInv => TypeOK /\ HoldsGreatest
  BY DEF ClockInv
<1> QED
  BY <1>1, ClockInit, ClockStep, PTL DEF Spec

\* Clock.last stays a reading: a wall time and a counter below its modulus,
\* however Now and Observe alternate and the machine's clock jumps.
THEOREM ClockTypeOK == Spec => []TypeOK
<1>1. ClockInv => TypeOK
  BY DEF ClockInv
<1> QED
  BY <1>1, ClockInit, ClockStep, PTL DEF Spec

\* The drift guard of Observe works: no sequence of peers' readings carries a
\* clock further than MaxClockDrift past a time the machine itself showed.
THEOREM ClockNeverDraggedAhead == Spec => []NeverDraggedAhead
<1>1. ClockInv => NeverDraggedAhead
  BY DEF ClockInv
<1> QED
  BY <1>1, ClockInit, ClockStep, PTL DEF Spec

\* Clock.Now's promise: every event is ordered after everything the clock
\* returned or observed before.
THEOREM ClockStrictlyIncreasing == Spec => StrictlyIncreasing
<1>1. ClockInv /\ [Next]_vars =>
        [(last' # last /\ CounterHasRoom') => Compare(last', greatest) > 0]_vars
  BY ClockStep
<1> QED
  BY <1>1, ClockInit, ClockStep, PTL DEF Spec, StrictlyIncreasing
===========================================================================
